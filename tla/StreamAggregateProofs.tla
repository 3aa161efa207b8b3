---------------------- MODULE StreamAggregateProofs ----------------------
(***************************************************************************)
(* What the methods of StreamAggregate do to a state that is sound (Ok):   *)
(* for every method, that the next state is sound again and how it may     *)
(* have evolved.  Soundness is typing, numbering, the ledger of every      *)
(* child balancing its barrier and the receive budget, the leases and the  *)
(* operations being counted, and the phases.  StreamConsumerProofs builds  *)
(* the theorems about the runtime on these lemmas.                         *)
(***************************************************************************)
EXTENDS StreamConsumer, FiniteSetTheorems, SequenceTheorems,
        WellFoundedInduction, TLAPS

(***************************************************************************)
(* Proofs about StreamConsumer, for any layouts, plans, budgets, messages  *)
(* and disturbances.                                                       *)
(***************************************************************************)

-----------------------------------------------------------------------------
(* Induction and iteration, with sets and functions for parameters.        *)

(* A set of numbers that holds zero and every successor up to L holds      *)
(* every number up to L.                                                   *)
LEMMA Climb ==
    ASSUME NEW L \in Nat, NEW T, 0 \in T,
           \A n \in 0..(L - 1) : n \in T => n + 1 \in T
    PROVE  0..L \subseteq T
<1> DEFINE M == (0..L) \ T
<1> SUFFICES ASSUME M # {} PROVE FALSE
  OBVIOUS
<1> HIDE DEF M
<1>1. OpToRel(<, Nat) = {ss \in Nat \X Nat : ss[1] < ss[2]}
  BY DEF OpToRel
<1>2. M \subseteq Nat
  BY DEF M
<1>3. PICK x \in M : \A y \in M : ~ (<<y, x>> \in OpToRel(<, Nat))
  BY <1>2, NatLessThanWellFounded, WFMin
<1>4. x \in 0..L /\ x # 0 /\ x \notin T
  BY <1>3 DEF M
<1>5. x - 1 \in 0..(L - 1) /\ x - 1 < x
  BY <1>4
<1>6. x - 1 \notin M
  <2>1. <<x - 1, x>> \in Nat \X Nat /\ <<x - 1, x>>[1] = x - 1 /\ <<x - 1, x>>[2] = x
    BY <1>4, <1>5
  <2> QED
    BY <1>1, <1>3, <1>5, <2>1
<1>7. (x - 1) + 1 \in T
  BY <1>5, <1>6 DEF M
<1> QED
  BY <1>4, <1>7

(* A step function can be iterated. *)
Steps(L, X) == [1..L -> [X -> X]]
Iterates(L, X, x0, h) ==
    \E g \in [0..L -> X] : g[0] = x0 /\ \A n \in 1..L : g[n] = h[n][g[n - 1]]

LEMMA Iteration ==
    \A L \in Nat : \A X : \A x0 \in X : \A h \in Steps(L, X) : Iterates(L, X, x0, h)
<1> SUFFICES ASSUME NEW L \in Nat, NEW X, NEW x0 \in X, NEW h \in [1..L -> [X -> X]]
             PROVE  \E g \in [0..L -> X] :
                       g[0] = x0 /\ \A n \in 1..L : g[n] = h[n][g[n - 1]]
  BY DEF Steps, Iterates
<1> DEFINE Upto(m) == \E g \in [0..m -> X] :
                        g[0] = x0 /\ \A n \in 1..m : g[n] = h[n][g[n - 1]]
           T == {m \in Nat : m <= L => Upto(m)}
<1>1. 0 \in T
  <2>1. [n \in 0..0 |-> x0] \in [0..0 -> X] /\ [n \in 0..0 |-> x0][0] = x0
    OBVIOUS
  <2>2. \A n \in 1..0 : FALSE
    OBVIOUS
  <2> QED
    BY <2>1, <2>2
<1>2. ASSUME NEW m \in 0..(L - 1), m \in T PROVE m + 1 \in T
  <2> SUFFICES ASSUME m + 1 <= L PROVE Upto(m + 1)
    OBVIOUS
  <2>1. PICK g \in [0..m -> X] : g[0] = x0 /\ \A n \in 1..m : g[n] = h[n][g[n - 1]]
    BY <1>2
  <2> DEFINE gg == [n \in 0..(m + 1) |-> IF n = m + 1 THEN h[m + 1][g[m]] ELSE g[n]]
  <2>2. h[m + 1][g[m]] \in X
    OBVIOUS
  <2>3. gg \in [0..(m + 1) -> X]
    BY <2>2
  <2>4. gg[0] = x0
    BY <2>1
  <2>5. ASSUME NEW n \in 1..(m + 1) PROVE gg[n] = h[n][gg[n - 1]]
    <3>1. CASE n = m + 1
      <4>1. gg[m + 1] = h[m + 1][g[m]] /\ gg[m] = g[m]
        OBVIOUS
      <4>2. n - 1 = m
        BY <3>1
      <4> HIDE DEF gg
      <4> QED
        BY <3>1, <4>1, <4>2
    <3>2. CASE n \in 1..m
      <4>1. gg[n] = g[n] /\ gg[n - 1] = g[n - 1]
        BY <3>2
      <4> HIDE DEF gg
      <4> QED
        BY <2>1, <3>2, <4>1
    <3> QED
      BY <3>1, <3>2
  <2> HIDE DEF gg
  <2> QED
    BY <2>3, <2>4, <2>5
<1>3. 0..L \subseteq T
  <2> HIDE DEF T
  <2> QED
    BY <1>1, <1>2, Climb
<1> QED
  BY <1>3

-----------------------------------------------------------------------------
(* Sums over the segments.                                                 *)

Top == Max(Segments)

LEMMA TopIs ==
    /\ Top \in Nat \ {0} /\ Top \in Segments
    /\ \A s \in Segments : s \in 1..Top
    /\ IsFiniteSet(Segments)
<1>1. PICK top \in Segments : \A s \in Segments : s =< top
  BY StreamAssumption
<1>2. \A s \in Segments : s \in Nat \ {0}
  BY StreamAssumption
<1>3. top \in Segments /\ \A y \in Segments : top >= y
  BY <1>1, <1>2
<1>4. Top \in Segments /\ \A y \in Segments : Top >= y
  BY <1>3, Zenon DEF Top, Max
<1>5. IsFiniteSet(Segments)
  BY <1>2, <1>4, FS_BoundedSetOfNaturals
<1> QED
  BY <1>2, <1>4, <1>5

(* Total unfolds into its partial sums. *)
SumsOf(w, f) ==
    /\ f \in [0..Top -> Int]
    /\ Total(w) = f[Top]
    /\ f[0] = 0
    /\ \A n \in 1..Top : f[n] = f[n - 1] + w[n]

LEMMA TotalUnfolds ==
    ASSUME NEW w \in [1..Top -> Int]
    PROVE  \E f : SumsOf(w, f)
<1> DEFINE h == [n \in 1..Top |-> [x \in Int |-> x + w[n]]]
           Recurs(g) == g = [s \in 0..Max(Segments) |->
                               IF s = 0 THEN 0 ELSE g[s - 1] + w[s]]
<1>1. Top \in Nat
  BY TopIs
<1>2. h \in Steps(Top, Int)
  BY <1>1 DEF Steps
<1>3. PICK g \in [0..Top -> Int] : g[0] = 0 /\ \A n \in 1..Top : g[n] = h[n][g[n - 1]]
  <2> HIDE DEF h
  <2>1. Iterates(Top, Int, 0, h)
    BY <1>1, <1>2, Iteration, 0 \in Int, Zenon
  <2> QED
    BY <2>1 DEF Iterates
<1>4. \A n \in 1..Top : n - 1 \in 0..Top /\ n # 0 /\ g[n] = g[n - 1] + w[n]
  <2> SUFFICES ASSUME NEW n \in 1..Top
               PROVE  n - 1 \in 0..Top /\ n # 0 /\ g[n] = g[n - 1] + w[n]
    OBVIOUS
  <2>1. n - 1 \in 0..Top /\ n # 0
    BY <1>1
  <2>2. g[n - 1] \in Int
    BY <2>1
  <2>3. g[n] = h[n][g[n - 1]]
    <3> HIDE DEF h
    <3> QED
      BY <1>3
  <2>4. h[n][g[n - 1]] = g[n - 1] + w[n]
    BY <2>2
  <2> QED
    BY <2>1, <2>3, <2>4
<1>5. Recurs(g)
  <2>1. \A s \in 0..Top : g[s] = IF s = 0 THEN 0 ELSE g[s - 1] + w[s]
    BY <1>1, <1>3, <1>4
  <2> QED
    BY <2>1, <1>3 DEF Top
<1> DEFINE c == CHOOSE x : Recurs(x)
<1>6. Recurs(c)
  <2> HIDE DEF Recurs
  <2> QED
    BY <1>5, Zenon
<1>7. Total(w) = c[Top]
  BY Zenon DEF Total, Top
<1>8. \A n \in 1..Top : n - 1 \in 0..Top /\ n # 0 /\ n \in 0..Top
  BY <1>1
<1>9. c[0] = 0 /\ \A n \in 1..Top : c[n] = c[n - 1] + w[n]
  <2>1. \A n \in 0..Top : c[n] = IF n = 0 THEN 0 ELSE c[n - 1] + w[n]
    <3>1. c = [s \in 0..Max(Segments) |-> IF s = 0 THEN 0 ELSE c[s - 1] + w[s]]
      BY <1>6
    <3> HIDE DEF c
    <3> QED
      BY <3>1, Zenon DEF Top
  <2>2. 0 \in 0..Top
    BY <1>1
  <2> HIDE DEF c, Recurs
  <2> QED
    BY <2>1, <2>2, <1>8
<1>10. c \in [0..Top -> Int]
  <2> DEFINE T == {n \in 0..Top : c[n] \in Int}
  <2>1. 0 \in T
    BY <1>1, <1>9
  <2>2. \A n \in 0..(Top - 1) : n \in T => n + 1 \in T
    <3> SUFFICES ASSUME NEW n \in 0..(Top - 1), n \in T PROVE n + 1 \in T
      OBVIOUS
    <3>1. n + 1 \in 1..Top /\ (n + 1) - 1 = n
      BY <1>1
    <3>2. c[n + 1] = c[n] + w[n + 1]
      <4> HIDE DEF c
      <4> QED
        BY <3>1, <1>9
    <3> HIDE DEF c
    <3> QED
      BY <3>1, <3>2
  <2>3. 0..Top \subseteq T
    <3> HIDE DEF T
    <3> QED
      BY <1>1, <2>1, <2>2, Climb
  <2>4. c = [s \in 0..Top |-> c[s]]
    <3>1. c = [s \in 0..Max(Segments) |-> IF s = 0 THEN 0 ELSE c[s - 1] + w[s]]
      BY <1>6
    <3> HIDE DEF c
    <3> QED
      BY <3>1, Zenon DEF Top
  <2> HIDE DEF c
  <2> QED
    BY <2>3, <2>4
<1> HIDE DEF c
<1> QED
  BY <1>7, <1>9, <1>10 DEF SumsOf

LEMMA TotalNat ==
    ASSUME NEW w \in [1..Top -> Nat]
    PROVE  Total(w) \in Nat
<1>0. Top \in Nat /\ w \in [1..Top -> Int]
  BY TopIs
<1>1. PICK f : SumsOf(w, f)
  BY <1>0, TotalUnfolds
<1> DEFINE T == {n \in 0..Top : f[n] \in Nat}
<1>2. 0 \in T
  BY <1>0, <1>1 DEF SumsOf
<1>3. \A n \in 0..(Top - 1) : n \in T => n + 1 \in T
  <2> SUFFICES ASSUME NEW n \in 0..(Top - 1), n \in T PROVE n + 1 \in T
    OBVIOUS
  <2>1. n + 1 \in 1..Top /\ (n + 1) - 1 = n
    BY <1>0
  <2>2. f[n + 1] = f[n] + w[n + 1]
    BY <2>1, <1>1 DEF SumsOf
  <2> QED
    BY <2>1, <2>2
<1>4. 0..Top \subseteq T
  <2> HIDE DEF T
  <2> QED
    BY <1>0, <1>2, <1>3, Climb
<1> QED
  BY <1>0, <1>1, <1>4 DEF SumsOf

(* Nothing grows but the weights in K, each by at most F. *)
LEMMA TotalGrows ==
    ASSUME NEW v \in [1..Top -> Nat], NEW w \in [1..Top -> Nat], NEW F \in Nat,
           NEW K \in SUBSET (1..Top),
           \A s \in 1..Top : w[s] =< v[s] + (IF s \in K THEN F ELSE 0)
    PROVE  IsFiniteSet(K) /\ Total(w) =< Total(v) + F * Cardinality(K)
<1>0. Top \in Nat /\ v \in [1..Top -> Int] /\ w \in [1..Top -> Int]
  BY TopIs
<1>1. PICK f : SumsOf(v, f)
  BY <1>0, TotalUnfolds
<1>2. PICK g : SumsOf(w, g)
  BY <1>0, TotalUnfolds
<1> DEFINE N(n) == Cardinality(K \cap (1..n))
           T == {n \in 0..Top : N(n) \in Nat /\ g[n] =< f[n] + F * N(n)}
<1>3. 0 \in T
  <2>1. K \cap (1..0) = {}
    OBVIOUS
  <2>2. N(0) = 0
    BY <2>1, FS_EmptySet
  <2>3. F * 0 = 0
    OBVIOUS
  <2> QED
    BY <1>0, <1>1, <1>2, <2>2, <2>3 DEF SumsOf
<1>4. \A n \in 0..(Top - 1) : n \in T => n + 1 \in T
  <2> SUFFICES ASSUME NEW n \in 0..(Top - 1), n \in T PROVE n + 1 \in T
    OBVIOUS
  <2>1. n + 1 \in 1..Top /\ (n + 1) - 1 = n /\ n \in Nat /\ n + 1 \in 0..Top
    BY <1>0
  <2>2. f[n + 1] = f[n] + v[n + 1] /\ g[n + 1] = g[n] + w[n + 1]
    BY <2>1, <1>1, <1>2 DEF SumsOf
  <2>3. f[n] \in Int /\ g[n] \in Int
    BY <1>0, <1>1, <1>2 DEF SumsOf
  <2>4. IsFiniteSet(K \cap (1..n)) /\ n + 1 \notin K \cap (1..n)
    <3>1. IsFiniteSet(1..n)
      BY <2>1, FS_Interval
    <3>2. n + 1 \notin 1..n
      BY <2>1
    <3>3. IsFiniteSet(K \cap (1..n))
      BY <3>1, FS_Intersection
    <3> QED
      BY <3>2, <3>3
  <2>5. N(n) \in Nat /\ g[n] =< f[n] + F * N(n)
    OBVIOUS
  <2>6. CASE n + 1 \in K
    <3>1. K \cap (1..(n + 1)) = (K \cap (1..n)) \cup {n + 1}
      BY <2>1, <2>6
    <3>2. N(n + 1) = N(n) + 1
      BY <2>4, <3>1, FS_AddElement
    <3>3. w[n + 1] =< v[n + 1] + F
      BY <2>1, <2>6
    <3> HIDE DEF N
    <3>4. F * (N(n) + 1) = F * N(n) + F /\ F * N(n) \in Nat
      BY <2>5
    <3>5. g[n + 1] =< f[n + 1] + F * N(n + 1)
      <4> DEFINE x == F * N(n)
      <4>1. x \in Nat /\ F * N(n + 1) = x + F /\ g[n] =< f[n] + x
        BY <2>5, <3>2, <3>4
      <4>2. w[n + 1] \in Nat /\ v[n + 1] \in Nat
        BY <2>1
      <4>3. x \in Nat /\ g[n] =< f[n] + x
        BY <4>1
      <4> HIDE DEF x
      <4>4. g[n + 1] =< f[n + 1] + (x + F)
        <5>1. F \in Int
          OBVIOUS
        <5> QED
          BY ONLY SMTT(40), <2>2, <2>3, <3>3, <4>3, <4>2, <5>1
      <4> QED
        BY <4>1, <4>4
    <3> QED
      BY <2>1, <2>5, <3>2, <3>5
  <2>7. CASE n + 1 \notin K
    <3>1. K \cap (1..(n + 1)) = K \cap (1..n)
      BY <2>1, <2>7
    <3>2. w[n + 1] =< v[n + 1]
      BY <2>1, <2>7
    <3>3. N(n + 1) = N(n)
      BY <3>1
    <3> HIDE DEF N
    <3>4. F * N(n) \in Nat
      BY <2>5
    <3>5. g[n + 1] =< f[n + 1] + F * N(n)
      BY SMTT(40), <2>1, <2>2, <2>3, <2>5, <3>2, <3>4
    <3> QED
      BY <2>1, <2>5, <3>3, <3>5
  <2> QED
    BY <2>6, <2>7
<1>5. Top \in T
  <2> HIDE DEF T
  <2>1. 0..Top \subseteq T
    BY <1>0, <1>3, <1>4, Climb
  <2> QED
    BY <1>0, <2>1
<1>6. K \cap (1..Top) = K
  OBVIOUS
<1>7. IsFiniteSet(K)
  <2>1. IsFiniteSet(1..Top)
    BY <1>0, FS_Interval
  <2> QED
    BY <2>1, FS_Subset
<1> QED
  BY <1>1, <1>2, <1>5, <1>6, <1>7 DEF SumsOf

(* One weight changes. *)
LEMMA TotalOne ==
    ASSUME NEW v \in [1..Top -> Nat], NEW w \in [1..Top -> Nat],
           NEW k \in 1..Top, \A s \in 1..Top : s # k => w[s] = v[s]
    PROVE  Total(w) = Total(v) + w[k] - v[k]
<1>0. Top \in Nat /\ v \in [1..Top -> Int] /\ w \in [1..Top -> Int]
  BY TopIs
<1>1. PICK f : SumsOf(v, f)
  BY <1>0, TotalUnfolds
<1>2. PICK g : SumsOf(w, g)
  BY <1>0, TotalUnfolds
<1> DEFINE T == {n \in 0..Top : g[n] = IF n < k THEN f[n] ELSE f[n] + w[k] - v[k]}
<1>3. 0 \in T
  BY <1>0, <1>1, <1>2 DEF SumsOf
<1>4. \A n \in 0..(Top - 1) : n \in T => n + 1 \in T
  <2> SUFFICES ASSUME NEW n \in 0..(Top - 1), n \in T PROVE n + 1 \in T
    OBVIOUS
  <2>1. n + 1 \in 1..Top /\ (n + 1) - 1 = n /\ n \in Nat /\ n + 1 \in 0..Top
    BY <1>0
  <2>2. f[n + 1] = f[n] + v[n + 1] /\ g[n + 1] = g[n] + w[n + 1]
    BY <2>1, <1>1, <1>2 DEF SumsOf
  <2>3. f[n] \in Int /\ g[n] \in Int
    BY <1>0, <1>1, <1>2 DEF SumsOf
  <2>4. CASE n + 1 = k
    BY <2>1, <2>2, <2>3, <2>4
  <2>5. CASE n + 1 # k
    <3>1. w[n + 1] = v[n + 1]
      BY <2>1, <2>5
    <3> QED
      BY <2>1, <2>2, <2>3, <2>5, <3>1
  <2> QED
    BY <2>4, <2>5
<1>5. Top \in T
  <2> HIDE DEF T
  <2>1. 0..Top \subseteq T
    BY <1>0, <1>3, <1>4, Climb
  <2> QED
    BY <1>0, <2>1
<1> QED
  BY <1>0, <1>1, <1>2, <1>5 DEF SumsOf

-----------------------------------------------------------------------------
(* Children.                                                               *)

(* A child record.  Fields whose values no proof needs are left open. *)
IsChild(c) ==
    c \in [inc : {c.inc}, gen : Nat, phase : Phases, flow : Flows,
           asm : {0, 1}, work : Nat, retained : Nat, terminal : BOOLEAN,
           deliveries : Int, acks : Int, txnAcks : Int, preTerm : Int,
           waitFlow : {c.waitFlow}, shared : {c.shared},
           ackGen : {c.ackGen}, confirmed : {c.confirmed}]

(* The child's own part of the ledger: all but its leases. *)
Own(c) == Frame * PermitCount(c) + c.asm + c.work + c.retained

(* What the phase says about the rest. *)
Shaped(c) ==
    /\ c.phase \in {"Opening", "OpenBlocked", "Seeking"} => c.flow = "none"
    /\ c.phase = "Opening" =>
         /\ c.asm = 0 /\ c.work = 0 /\ c.retained = 0 /\ c.preTerm = 0
         /\ c.deliveries = 0 /\ c.acks = 0 /\ c.txnAcks = 0 /\ ~c.terminal
    /\ c.terminal => c.phase \in {"Terminal", "Draining", "Closing"}

(* The barrier covers the ledger, exactly so if no message is discarded. *)
Balanced(c) ==
    /\ c.preTerm >= PermitCount(c) + c.asm + c.work + c.retained
    /\ Masked = {} => c.preTerm = PermitCount(c) + c.asm + c.work + c.retained

Good(c) == IsChild(c) /\ Shaped(c) /\ Balanced(c)

(* What may become of a child that no callback is about. *)
Moves(c, d) ==
    /\ d.gen = c.gen /\ d.inc = c.inc /\ d.retained = c.retained
    /\ c.terminal <=> d.terminal
    /\ c.phase = "Closing" => d.phase = "Closing"
    /\ d.phase = "Opening" => c.phase = "Opening"
    /\ c.phase = "Opening" => d.phase \in {"Opening", "Closing"}
    /\ d.phase = "Seeking" => c.phase = "Seeking"
    /\ c.flow # "none" => d.flow # "none"

(* It is closed only when nothing is left to settle. *)
ClosesEmpty(c, d) ==
    c.phase # "Closing" /\ d.phase = "Closing"
        => d.acks = 0 /\ d.txnAcks = 0 /\ d.retained = 0

Alike(c, d) ==
    /\ d.deliveries = c.deliveries /\ d.acks = c.acks /\ d.txnAcks = c.txnAcks
    /\ Own(d) = Own(c)

LEMMA PermitIs ==
    ASSUME NEW c
    PROVE  /\ c.flow = "none" => PermitCount(c) = 0
           /\ c.flow # "none" => PermitCount(c) = 1
           /\ PermitCount(c) \in {0, 1}
  BY DEF PermitCount

LEMMA OwnIs ==
    ASSUME NEW c, IsChild(c)
    PROVE  /\ c.flow = "none" => Own(c) = c.asm + c.work + c.retained
           /\ c.flow # "none" => Own(c) = Frame + c.asm + c.work + c.retained
           /\ Own(c) \in Nat
           /\ c.asm \in Nat /\ c.work \in Nat /\ c.retained \in Nat
<1>1. Frame \in Nat
  BY StreamAssumption
<1>2. c.asm \in Nat /\ c.work \in Nat /\ c.retained \in Nat
  BY DEF IsChild
<1>3. CASE c.flow = "none"
  <2>1. PermitCount(c) = 0
    BY <1>3, PermitIs
  <2>2. Frame * 0 = 0
    BY <1>1
  <2> QED
    BY <1>1, <1>2, <1>3, <2>1, <2>2 DEF Own
<1>4. CASE c.flow # "none"
  <2>1. PermitCount(c) = 1
    BY <1>4, PermitIs
  <2>2. Frame * 1 = Frame
    BY <1>1
  <2> QED
    BY <1>1, <1>2, <1>4, <2>1, <2>2 DEF Own
<1> QED
  BY <1>3, <1>4

(* A child moved to another phase. *)
LEMMA SetPhase ==
    ASSUME NEW c, IsChild(c), NEW p \in Phases
    PROVE  LET d == [c EXCEPT !.phase = p]
           IN  /\ IsChild(d) /\ d.inc = c.inc /\ d.gen = c.gen /\ d.phase = p
               /\ d.flow = c.flow /\ d.asm = c.asm /\ d.work = c.work
               /\ d.retained = c.retained /\ d.terminal = c.terminal
               /\ d.deliveries = c.deliveries /\ d.acks = c.acks
               /\ d.txnAcks = c.txnAcks /\ d.preTerm = c.preTerm
               /\ d.waitFlow = c.waitFlow /\ d.shared = c.shared
               /\ d.ackGen = c.ackGen /\ d.confirmed = c.confirmed
<1> DEFINE d == [c EXCEPT !.phase = p]
<1>1. d = [c EXCEPT !.phase = p]
  OBVIOUS
<1>2. /\ p \in Phases
  BY DEF IsChild, Phases, Flows
<1> HIDE DEF d
<1>3. IsChild(d)
  BY <1>1, <1>2 DEF IsChild
<1>4. /\ d.inc = c.inc /\ d.gen = c.gen /\ d.phase = p
      /\ d.flow = c.flow /\ d.asm = c.asm /\ d.work = c.work
      /\ d.retained = c.retained /\ d.terminal = c.terminal
      /\ d.deliveries = c.deliveries /\ d.acks = c.acks
      /\ d.txnAcks = c.txnAcks /\ d.preTerm = c.preTerm
      /\ d.waitFlow = c.waitFlow /\ d.shared = c.shared
      /\ d.ackGen = c.ackGen /\ d.confirmed = c.confirmed
  BY <1>1, <1>2 DEF IsChild
<1> QED
  BY <1>3, <1>4 DEF d

(* A retired child. *)
Drains(c, w) == [c EXCEPT !.phase = "Draining", !.waitFlow = w]

LEMMA SetDraining ==
    ASSUME NEW c, IsChild(c), NEW w
    PROVE  LET d == Drains(c, w)
           IN  /\ IsChild(d) /\ d.inc = c.inc /\ d.gen = c.gen
               /\ d.phase = "Draining" /\ d.flow = c.flow /\ d.asm = c.asm
               /\ d.work = c.work /\ d.retained = c.retained
               /\ d.terminal = c.terminal /\ d.deliveries = c.deliveries
               /\ d.acks = c.acks /\ d.txnAcks = c.txnAcks
               /\ d.preTerm = c.preTerm /\ d.waitFlow = w
               /\ d.shared = c.shared /\ d.ackGen = c.ackGen
               /\ d.confirmed = c.confirmed
<1> DEFINE d == Drains(c, w)
<1>1. d = [c EXCEPT !.phase = "Draining", !.waitFlow = w]
  BY DEF Drains
<1>2. /\ "Draining" \in Phases
  BY DEF IsChild, Phases, Flows
<1> HIDE DEF d
<1>3. IsChild(d)
  BY <1>1, <1>2 DEF IsChild
<1>4. /\ d.inc = c.inc /\ d.gen = c.gen
      /\ d.phase = "Draining" /\ d.flow = c.flow /\ d.asm = c.asm
      /\ d.work = c.work /\ d.retained = c.retained
      /\ d.terminal = c.terminal /\ d.deliveries = c.deliveries
      /\ d.acks = c.acks /\ d.txnAcks = c.txnAcks
      /\ d.preTerm = c.preTerm /\ d.waitFlow = w
      /\ d.shared = c.shared /\ d.ackGen = c.ackGen
      /\ d.confirmed = c.confirmed
  BY <1>1, <1>2 DEF IsChild
<1> QED
  BY <1>3, <1>4 DEF d

(* A draining child retired again. *)
LEMMA SetWait ==
    ASSUME NEW c, IsChild(c), NEW w
    PROVE  LET d == [c EXCEPT !.waitFlow = w]
           IN  /\ IsChild(d) /\ d.inc = c.inc /\ d.gen = c.gen
               /\ d.phase = c.phase /\ d.flow = c.flow /\ d.asm = c.asm
               /\ d.work = c.work /\ d.retained = c.retained
               /\ d.terminal = c.terminal /\ d.deliveries = c.deliveries
               /\ d.acks = c.acks /\ d.txnAcks = c.txnAcks
               /\ d.preTerm = c.preTerm /\ d.waitFlow = w
               /\ d.shared = c.shared /\ d.ackGen = c.ackGen
               /\ d.confirmed = c.confirmed
<1> DEFINE d == [c EXCEPT !.waitFlow = w]
<1>1. d = [c EXCEPT !.waitFlow = w]
  OBVIOUS
<1>2. TRUE
  OBVIOUS
<1> HIDE DEF d
<1>3. IsChild(d)
  BY <1>1, <1>2 DEF IsChild
<1>4. /\ d.inc = c.inc /\ d.gen = c.gen
      /\ d.phase = c.phase /\ d.flow = c.flow /\ d.asm = c.asm
      /\ d.work = c.work /\ d.retained = c.retained
      /\ d.terminal = c.terminal /\ d.deliveries = c.deliveries
      /\ d.acks = c.acks /\ d.txnAcks = c.txnAcks
      /\ d.preTerm = c.preTerm /\ d.waitFlow = w
      /\ d.shared = c.shared /\ d.ackGen = c.ackGen
      /\ d.confirmed = c.confirmed
  BY <1>1, <1>2 DEF IsChild
<1> QED
  BY <1>3, <1>4 DEF d

(* A granted child. *)
LEMMA SetGranted ==
    ASSUME NEW c, IsChild(c)
    PROVE  LET d == [c EXCEPT !.phase = "Flowing", !.flow = "message",
                              !.preTerm = c.preTerm + 1]
           IN  /\ IsChild(d) /\ d.inc = c.inc /\ d.gen = c.gen
               /\ d.phase = "Flowing" /\ d.flow = "message" /\ d.asm = c.asm
               /\ d.work = c.work /\ d.retained = c.retained
               /\ d.terminal = c.terminal /\ d.deliveries = c.deliveries
               /\ d.acks = c.acks /\ d.txnAcks = c.txnAcks
               /\ d.preTerm = c.preTerm + 1 /\ d.waitFlow = c.waitFlow
               /\ d.shared = c.shared /\ d.ackGen = c.ackGen
               /\ d.confirmed = c.confirmed
<1> DEFINE d == [c EXCEPT !.phase = "Flowing", !.flow = "message",
                          !.preTerm = c.preTerm + 1]
<1>1. d = [c EXCEPT !.phase = "Flowing", !.flow = "message",
                    !.preTerm = c.preTerm + 1]
  OBVIOUS
<1>2. /\ "Flowing" \in Phases
      /\ "message" \in Flows
      /\ (c.preTerm + 1) \in Int
  BY DEF IsChild, Phases, Flows
<1> HIDE DEF d
<1>3. IsChild(d)
  BY <1>1, <1>2 DEF IsChild
<1>4. /\ d.inc = c.inc /\ d.gen = c.gen
      /\ d.phase = "Flowing" /\ d.flow = "message" /\ d.asm = c.asm
      /\ d.work = c.work /\ d.retained = c.retained
      /\ d.terminal = c.terminal /\ d.deliveries = c.deliveries
      /\ d.acks = c.acks /\ d.txnAcks = c.txnAcks
      /\ d.preTerm = c.preTerm + 1 /\ d.waitFlow = c.waitFlow
      /\ d.shared = c.shared /\ d.ackGen = c.ackGen
      /\ d.confirmed = c.confirmed
  BY <1>1, <1>2 DEF IsChild
<1> QED
  BY <1>3, <1>4 DEF d

(* A child under seek. *)
Seeks(c) ==
    [c EXCEPT !.flow = "none", !.terminal = FALSE,
    !.preTerm = 0, !.phase = "Seeking"]

LEMMA SetSeeking ==
    ASSUME NEW c, IsChild(c)
    PROVE  LET d == Seeks(c)
           IN  /\ IsChild(d) /\ d.inc = c.inc /\ d.gen = c.gen
               /\ d.phase = "Seeking" /\ d.flow = "none" /\ d.asm = c.asm
               /\ d.work = c.work /\ d.retained = c.retained
               /\ d.terminal = FALSE /\ d.deliveries = c.deliveries
               /\ d.acks = c.acks /\ d.txnAcks = c.txnAcks /\ d.preTerm = 0
               /\ d.waitFlow = c.waitFlow /\ d.shared = c.shared
               /\ d.ackGen = c.ackGen /\ d.confirmed = c.confirmed
<1> DEFINE d == Seeks(c)
<1>1. d = [c EXCEPT !.flow = "none", !.terminal = FALSE,
                    !.preTerm = 0, !.phase = "Seeking"]
  BY DEF Seeks
<1>2. /\ "none" \in Flows
      /\ FALSE \in BOOLEAN
      /\ 0 \in Int
      /\ "Seeking" \in Phases
  BY DEF IsChild, Phases, Flows
<1> HIDE DEF d
<1>3. IsChild(d)
  BY <1>1, <1>2 DEF IsChild
<1>4. /\ d.inc = c.inc /\ d.gen = c.gen
      /\ d.phase = "Seeking" /\ d.flow = "none" /\ d.asm = c.asm
      /\ d.work = c.work /\ d.retained = c.retained
      /\ d.terminal = FALSE /\ d.deliveries = c.deliveries
      /\ d.acks = c.acks /\ d.txnAcks = c.txnAcks /\ d.preTerm = 0
      /\ d.waitFlow = c.waitFlow /\ d.shared = c.shared
      /\ d.ackGen = c.ackGen /\ d.confirmed = c.confirmed
  BY <1>1, <1>2 DEF IsChild
<1> QED
  BY <1>3, <1>4 DEF d

(* A workspace is reserved. *)
Works(c) ==
    [c EXCEPT !.work = c.work + 1, !.preTerm = c.preTerm + 1]

LEMMA SetWork ==
    ASSUME NEW c, IsChild(c)
    PROVE  LET d == Works(c)
           IN  /\ IsChild(d) /\ d.inc = c.inc /\ d.gen = c.gen
               /\ d.phase = c.phase /\ d.flow = c.flow /\ d.asm = c.asm
               /\ d.work = c.work + 1 /\ d.retained = c.retained
               /\ d.terminal = c.terminal /\ d.deliveries = c.deliveries
               /\ d.acks = c.acks /\ d.txnAcks = c.txnAcks
               /\ d.preTerm = c.preTerm + 1 /\ d.waitFlow = c.waitFlow
               /\ d.shared = c.shared /\ d.ackGen = c.ackGen
               /\ d.confirmed = c.confirmed
<1> DEFINE d == Works(c)
<1>1. d = [c EXCEPT !.work = c.work + 1, !.preTerm = c.preTerm + 1]
  BY DEF Works
<1>2. /\ (c.work + 1) \in Nat
      /\ (c.preTerm + 1) \in Int
  BY DEF IsChild, Phases, Flows
<1> HIDE DEF d
<1>3. IsChild(d)
  BY <1>1, <1>2 DEF IsChild
<1>4. /\ d.inc = c.inc /\ d.gen = c.gen
      /\ d.phase = c.phase /\ d.flow = c.flow /\ d.asm = c.asm
      /\ d.work = c.work + 1 /\ d.retained = c.retained
      /\ d.terminal = c.terminal /\ d.deliveries = c.deliveries
      /\ d.acks = c.acks /\ d.txnAcks = c.txnAcks
      /\ d.preTerm = c.preTerm + 1 /\ d.waitFlow = c.waitFlow
      /\ d.shared = c.shared /\ d.ackGen = c.ackGen
      /\ d.confirmed = c.confirmed
  BY <1>1, <1>2 DEF IsChild
<1> QED
  BY <1>3, <1>4 DEF d

(* A chunk is buffered. *)
Chunks(c, p) ==
    [c EXCEPT !.flow = "chunk", !.asm = 1, !.preTerm = p]

LEMMA SetChunk ==
    ASSUME NEW c, IsChild(c), NEW p \in Int
    PROVE  LET d == Chunks(c, p)
           IN  /\ IsChild(d) /\ d.inc = c.inc /\ d.gen = c.gen
               /\ d.phase = c.phase /\ d.flow = "chunk" /\ d.asm = 1
               /\ d.work = c.work /\ d.retained = c.retained
               /\ d.terminal = c.terminal /\ d.deliveries = c.deliveries
               /\ d.acks = c.acks /\ d.txnAcks = c.txnAcks /\ d.preTerm = p
               /\ d.waitFlow = c.waitFlow /\ d.shared = c.shared
               /\ d.ackGen = c.ackGen /\ d.confirmed = c.confirmed
<1> DEFINE d == Chunks(c, p)
<1>1. d = [c EXCEPT !.flow = "chunk", !.asm = 1, !.preTerm = p]
  BY DEF Chunks
<1>2. /\ "chunk" \in Flows
      /\ 1 \in {0, 1}
      /\ p \in Int
  BY DEF IsChild, Phases, Flows
<1> HIDE DEF d
<1>3. IsChild(d)
  BY <1>1, <1>2 DEF IsChild
<1>4. /\ d.inc = c.inc /\ d.gen = c.gen
      /\ d.phase = c.phase /\ d.flow = "chunk" /\ d.asm = 1
      /\ d.work = c.work /\ d.retained = c.retained
      /\ d.terminal = c.terminal /\ d.deliveries = c.deliveries
      /\ d.acks = c.acks /\ d.txnAcks = c.txnAcks /\ d.preTerm = p
      /\ d.waitFlow = c.waitFlow /\ d.shared = c.shared
      /\ d.ackGen = c.ackGen /\ d.confirmed = c.confirmed
  BY <1>1, <1>2 DEF IsChild
<1> QED
  BY <1>3, <1>4 DEF d

(* A message arrived. *)
Arrives(c, q, p) ==
    [c EXCEPT !.flow = "none", !.asm = 0, !.work = 0,
    !.retained = c.retained + 1, !.preTerm = q,
    !.phase = p]

LEMMA SetArrived ==
    ASSUME NEW c, IsChild(c), NEW p \in Phases, NEW q \in Int
    PROVE  LET d == Arrives(c, q, p)
           IN  /\ IsChild(d) /\ d.inc = c.inc /\ d.gen = c.gen /\ d.phase = p
               /\ d.flow = "none" /\ d.asm = 0 /\ d.work = 0
               /\ d.retained = c.retained + 1 /\ d.terminal = c.terminal
               /\ d.deliveries = c.deliveries /\ d.acks = c.acks
               /\ d.txnAcks = c.txnAcks /\ d.preTerm = q
               /\ d.waitFlow = c.waitFlow /\ d.shared = c.shared
               /\ d.ackGen = c.ackGen /\ d.confirmed = c.confirmed
<1> DEFINE d == Arrives(c, q, p)
<1>1. d = [c EXCEPT !.flow = "none", !.asm = 0, !.work = 0,
                    !.retained = c.retained + 1, !.preTerm = q,
                    !.phase = p]
  BY DEF Arrives
<1>2. /\ "none" \in Flows
      /\ 0 \in {0, 1}
      /\ 0 \in Nat
      /\ (c.retained + 1) \in Nat
      /\ q \in Int
      /\ p \in Phases
  BY DEF IsChild, Phases, Flows
<1> HIDE DEF d
<1>3. IsChild(d)
  BY <1>1, <1>2 DEF IsChild
<1>4. /\ d.inc = c.inc /\ d.gen = c.gen /\ d.phase = p
      /\ d.flow = "none" /\ d.asm = 0 /\ d.work = 0
      /\ d.retained = c.retained + 1 /\ d.terminal = c.terminal
      /\ d.deliveries = c.deliveries /\ d.acks = c.acks
      /\ d.txnAcks = c.txnAcks /\ d.preTerm = q
      /\ d.waitFlow = c.waitFlow /\ d.shared = c.shared
      /\ d.ackGen = c.ackGen /\ d.confirmed = c.confirmed
  BY <1>1, <1>2 DEF IsChild
<1> QED
  BY <1>3, <1>4 DEF d

(* A message was discarded. *)
LEMMA SetRetained ==
    ASSUME NEW c, IsChild(c), NEW r \in Nat
    PROVE  LET d == [c EXCEPT !.retained = r]
           IN  /\ IsChild(d) /\ d.inc = c.inc /\ d.gen = c.gen
               /\ d.phase = c.phase /\ d.flow = c.flow /\ d.asm = c.asm
               /\ d.work = c.work /\ d.retained = r
               /\ d.terminal = c.terminal /\ d.deliveries = c.deliveries
               /\ d.acks = c.acks /\ d.txnAcks = c.txnAcks
               /\ d.preTerm = c.preTerm /\ d.waitFlow = c.waitFlow
               /\ d.shared = c.shared /\ d.ackGen = c.ackGen
               /\ d.confirmed = c.confirmed
<1> DEFINE d == [c EXCEPT !.retained = r]
<1>1. d = [c EXCEPT !.retained = r]
  OBVIOUS
<1>2. /\ r \in Nat
  BY DEF IsChild, Phases, Flows
<1> HIDE DEF d
<1>3. IsChild(d)
  BY <1>1, <1>2 DEF IsChild
<1>4. /\ d.inc = c.inc /\ d.gen = c.gen
      /\ d.phase = c.phase /\ d.flow = c.flow /\ d.asm = c.asm
      /\ d.work = c.work /\ d.retained = r
      /\ d.terminal = c.terminal /\ d.deliveries = c.deliveries
      /\ d.acks = c.acks /\ d.txnAcks = c.txnAcks
      /\ d.preTerm = c.preTerm /\ d.waitFlow = c.waitFlow
      /\ d.shared = c.shared /\ d.ackGen = c.ackGen
      /\ d.confirmed = c.confirmed
  BY <1>1, <1>2 DEF IsChild
<1> QED
  BY <1>3, <1>4 DEF d

(* A retained message is delivered. *)
Issues(c, g, f) ==
    [c EXCEPT !.deliveries = c.deliveries + 1,
    !.preTerm = c.preTerm - 1,
    !.retained = c.retained - 1, !.ackGen = g,
    !.confirmed = f]

LEMMA SetIssued ==
    ASSUME NEW c, IsChild(c), c.retained > 0, NEW g, NEW f
    PROVE  LET d == Issues(c, g, f)
           IN  /\ IsChild(d) /\ d.inc = c.inc /\ d.gen = c.gen
               /\ d.phase = c.phase /\ d.flow = c.flow /\ d.asm = c.asm
               /\ d.work = c.work /\ d.retained = c.retained - 1
               /\ d.terminal = c.terminal /\ d.deliveries = c.deliveries + 1
               /\ d.acks = c.acks /\ d.txnAcks = c.txnAcks
               /\ d.preTerm = c.preTerm - 1 /\ d.waitFlow = c.waitFlow
               /\ d.shared = c.shared /\ d.ackGen = g /\ d.confirmed = f
<1> DEFINE d == Issues(c, g, f)
<1>1. d = [c EXCEPT !.deliveries = c.deliveries + 1,
                    !.preTerm = c.preTerm - 1,
                    !.retained = c.retained - 1, !.ackGen = g,
                    !.confirmed = f]
  BY DEF Issues
<1>2. /\ (c.deliveries + 1) \in Int
      /\ (c.preTerm - 1) \in Int
      /\ (c.retained - 1) \in Nat
  BY DEF IsChild, Phases, Flows
<1> HIDE DEF d
<1>3. IsChild(d)
  BY <1>1, <1>2 DEF IsChild
<1>4. /\ d.inc = c.inc /\ d.gen = c.gen
      /\ d.phase = c.phase /\ d.flow = c.flow /\ d.asm = c.asm
      /\ d.work = c.work /\ d.retained = c.retained - 1
      /\ d.terminal = c.terminal /\ d.deliveries = c.deliveries + 1
      /\ d.acks = c.acks /\ d.txnAcks = c.txnAcks
      /\ d.preTerm = c.preTerm - 1 /\ d.waitFlow = c.waitFlow
      /\ d.shared = c.shared /\ d.ackGen = g /\ d.confirmed = f
  BY <1>1, <1>2 DEF IsChild
<1> QED
  BY <1>3, <1>4 DEF d

(* Leases are released. *)
LEMMA SetDeliveries ==
    ASSUME NEW c, IsChild(c), NEW k \in Int
    PROVE  LET d == [c EXCEPT !.deliveries = k]
           IN  /\ IsChild(d) /\ d.inc = c.inc /\ d.gen = c.gen
               /\ d.phase = c.phase /\ d.flow = c.flow /\ d.asm = c.asm
               /\ d.work = c.work /\ d.retained = c.retained
               /\ d.terminal = c.terminal /\ d.deliveries = k
               /\ d.acks = c.acks /\ d.txnAcks = c.txnAcks
               /\ d.preTerm = c.preTerm /\ d.waitFlow = c.waitFlow
               /\ d.shared = c.shared /\ d.ackGen = c.ackGen
               /\ d.confirmed = c.confirmed
<1> DEFINE d == [c EXCEPT !.deliveries = k]
<1>1. d = [c EXCEPT !.deliveries = k]
  OBVIOUS
<1>2. /\ k \in Int
  BY DEF IsChild, Phases, Flows
<1> HIDE DEF d
<1>3. IsChild(d)
  BY <1>1, <1>2 DEF IsChild
<1>4. /\ d.inc = c.inc /\ d.gen = c.gen
      /\ d.phase = c.phase /\ d.flow = c.flow /\ d.asm = c.asm
      /\ d.work = c.work /\ d.retained = c.retained
      /\ d.terminal = c.terminal /\ d.deliveries = k
      /\ d.acks = c.acks /\ d.txnAcks = c.txnAcks
      /\ d.preTerm = c.preTerm /\ d.waitFlow = c.waitFlow
      /\ d.shared = c.shared /\ d.ackGen = c.ackGen
      /\ d.confirmed = c.confirmed
  BY <1>1, <1>2 DEF IsChild
<1> QED
  BY <1>3, <1>4 DEF d

(* An acknowledgement is admitted or settled. *)
LEMMA SetAcks ==
    ASSUME NEW c, IsChild(c), NEW k \in Int
    PROVE  LET d == [c EXCEPT !.acks = k]
           IN  /\ IsChild(d) /\ d.inc = c.inc /\ d.gen = c.gen
               /\ d.phase = c.phase /\ d.flow = c.flow /\ d.asm = c.asm
               /\ d.work = c.work /\ d.retained = c.retained
               /\ d.terminal = c.terminal /\ d.deliveries = c.deliveries
               /\ d.acks = k /\ d.txnAcks = c.txnAcks
               /\ d.preTerm = c.preTerm /\ d.waitFlow = c.waitFlow
               /\ d.shared = c.shared /\ d.ackGen = c.ackGen
               /\ d.confirmed = c.confirmed
<1> DEFINE d == [c EXCEPT !.acks = k]
<1>1. d = [c EXCEPT !.acks = k]
  OBVIOUS
<1>2. /\ k \in Int
  BY DEF IsChild, Phases, Flows
<1> HIDE DEF d
<1>3. IsChild(d)
  BY <1>1, <1>2 DEF IsChild
<1>4. /\ d.inc = c.inc /\ d.gen = c.gen
      /\ d.phase = c.phase /\ d.flow = c.flow /\ d.asm = c.asm
      /\ d.work = c.work /\ d.retained = c.retained
      /\ d.terminal = c.terminal /\ d.deliveries = c.deliveries
      /\ d.acks = k /\ d.txnAcks = c.txnAcks
      /\ d.preTerm = c.preTerm /\ d.waitFlow = c.waitFlow
      /\ d.shared = c.shared /\ d.ackGen = c.ackGen
      /\ d.confirmed = c.confirmed
  BY <1>1, <1>2 DEF IsChild
<1> QED
  BY <1>3, <1>4 DEF d

(* The same in a transaction. *)
LEMMA SetTxnAcks ==
    ASSUME NEW c, IsChild(c), NEW k \in Int
    PROVE  LET d == [c EXCEPT !.txnAcks = k]
           IN  /\ IsChild(d) /\ d.inc = c.inc /\ d.gen = c.gen
               /\ d.phase = c.phase /\ d.flow = c.flow /\ d.asm = c.asm
               /\ d.work = c.work /\ d.retained = c.retained
               /\ d.terminal = c.terminal /\ d.deliveries = c.deliveries
               /\ d.acks = c.acks /\ d.txnAcks = k /\ d.preTerm = c.preTerm
               /\ d.waitFlow = c.waitFlow /\ d.shared = c.shared
               /\ d.ackGen = c.ackGen /\ d.confirmed = c.confirmed
<1> DEFINE d == [c EXCEPT !.txnAcks = k]
<1>1. d = [c EXCEPT !.txnAcks = k]
  OBVIOUS
<1>2. /\ k \in Int
  BY DEF IsChild, Phases, Flows
<1> HIDE DEF d
<1>3. IsChild(d)
  BY <1>1, <1>2 DEF IsChild
<1>4. /\ d.inc = c.inc /\ d.gen = c.gen
      /\ d.phase = c.phase /\ d.flow = c.flow /\ d.asm = c.asm
      /\ d.work = c.work /\ d.retained = c.retained
      /\ d.terminal = c.terminal /\ d.deliveries = c.deliveries
      /\ d.acks = c.acks /\ d.txnAcks = k /\ d.preTerm = c.preTerm
      /\ d.waitFlow = c.waitFlow /\ d.shared = c.shared
      /\ d.ackGen = c.ackGen /\ d.confirmed = c.confirmed
  BY <1>1, <1>2 DEF IsChild
<1> QED
  BY <1>3, <1>4 DEF d

(* A confirmed position is noted. *)
LEMMA SetConfirmed ==
    ASSUME NEW c, IsChild(c), NEW k
    PROVE  LET d == [c EXCEPT !.confirmed = k]
           IN  /\ IsChild(d) /\ d.inc = c.inc /\ d.gen = c.gen
               /\ d.phase = c.phase /\ d.flow = c.flow /\ d.asm = c.asm
               /\ d.work = c.work /\ d.retained = c.retained
               /\ d.terminal = c.terminal /\ d.deliveries = c.deliveries
               /\ d.acks = c.acks /\ d.txnAcks = c.txnAcks
               /\ d.preTerm = c.preTerm /\ d.waitFlow = c.waitFlow
               /\ d.shared = c.shared /\ d.ackGen = c.ackGen
               /\ d.confirmed = k
<1> DEFINE d == [c EXCEPT !.confirmed = k]
<1>1. d = [c EXCEPT !.confirmed = k]
  OBVIOUS
<1>2. TRUE
  OBVIOUS
<1> HIDE DEF d
<1>3. IsChild(d)
  BY <1>1, <1>2 DEF IsChild
<1>4. /\ d.inc = c.inc /\ d.gen = c.gen
      /\ d.phase = c.phase /\ d.flow = c.flow /\ d.asm = c.asm
      /\ d.work = c.work /\ d.retained = c.retained
      /\ d.terminal = c.terminal /\ d.deliveries = c.deliveries
      /\ d.acks = c.acks /\ d.txnAcks = c.txnAcks
      /\ d.preTerm = c.preTerm /\ d.waitFlow = c.waitFlow
      /\ d.shared = c.shared /\ d.ackGen = c.ackGen
      /\ d.confirmed = k
  BY <1>1, <1>2 DEF IsChild
<1> QED
  BY <1>3, <1>4 DEF d

(* The end of the segment is noted. *)
Ends(c, q, p) ==
    [c EXCEPT !.preTerm = q, !.flow = "none",
    !.terminal = TRUE, !.phase = p]

LEMMA SetTerminal ==
    ASSUME NEW c, IsChild(c), NEW p \in Phases, NEW q \in Int
    PROVE  LET d == Ends(c, q, p)
           IN  /\ IsChild(d) /\ d.inc = c.inc /\ d.gen = c.gen /\ d.phase = p
               /\ d.flow = "none" /\ d.asm = c.asm /\ d.work = c.work
               /\ d.retained = c.retained /\ d.terminal
               /\ d.deliveries = c.deliveries /\ d.acks = c.acks
               /\ d.txnAcks = c.txnAcks /\ d.preTerm = q
               /\ d.waitFlow = c.waitFlow /\ d.shared = c.shared
               /\ d.ackGen = c.ackGen /\ d.confirmed = c.confirmed
<1> DEFINE d == Ends(c, q, p)
<1>1. d = [c EXCEPT !.preTerm = q, !.flow = "none",
                    !.terminal = TRUE, !.phase = p]
  BY DEF Ends
<1>2. /\ q \in Int
      /\ "none" \in Flows
      /\ TRUE \in BOOLEAN
      /\ p \in Phases
  BY DEF IsChild, Phases, Flows
<1> HIDE DEF d
<1>3. IsChild(d)
  BY <1>1, <1>2 DEF IsChild
<1>4. /\ d.inc = c.inc /\ d.gen = c.gen /\ d.phase = p
      /\ d.flow = "none" /\ d.asm = c.asm /\ d.work = c.work
      /\ d.retained = c.retained /\ d.terminal
      /\ d.deliveries = c.deliveries /\ d.acks = c.acks
      /\ d.txnAcks = c.txnAcks /\ d.preTerm = q
      /\ d.waitFlow = c.waitFlow /\ d.shared = c.shared
      /\ d.ackGen = c.ackGen /\ d.confirmed = c.confirmed
  BY <1>1, <1>2 DEF IsChild
<1> QED
  BY <1>3, <1>4 DEF d

LEMMA NewChildIs ==
    ASSUME NEW inc, NEW g \in Nat, NEW sh
    PROVE  LET c == NewChild(inc, g, sh)
           IN  /\ Good(c) /\ Own(c) = 0 /\ c.gen = g /\ c.phase = "Opening"
               /\ c.inc = inc
               /\ c.flow = "none" /\ ~c.terminal /\ c.deliveries = 0
               /\ c.acks = 0 /\ c.txnAcks = 0 /\ c.retained = 0 /\ c.preTerm = 0
<1> DEFINE c == NewChild(inc, g, sh)
<1>1. /\ c.gen = g /\ c.phase = "Opening" /\ c.flow = "none" /\ c.terminal = FALSE
      /\ c.inc = inc /\ c.asm = 0 /\ c.work = 0 /\ c.retained = 0 /\ c.preTerm = 0
      /\ c.deliveries = 0 /\ c.acks = 0 /\ c.txnAcks = 0
  BY DEF NewChild
<1>2. IsChild(c)
  BY DEF NewChild, IsChild, Phases, Flows
<1> HIDE DEF c
<1>3. PermitCount(c) = 0 /\ Own(c) = 0
  BY <1>1, <1>2, PermitIs, OwnIs
<1>4. Shaped(c) /\ Balanced(c)
  BY <1>1, <1>3 DEF Shaped, Balanced
<1> QED
  BY <1>1, <1>2, <1>3, <1>4 DEF Good, c

(* Own depends on four fields. *)
LEMMA OwnSame ==
    ASSUME NEW c, NEW d, IsChild(c), IsChild(d), d.flow = c.flow, d.asm = c.asm,
           d.work = c.work, d.retained = c.retained
    PROVE  Own(d) = Own(c) /\ PermitCount(d) = PermitCount(c)
  BY DEF Own, PermitCount

LEMMA GrantedIs ==
    ASSUME NEW c, Good(c), c.phase = "OpenBlocked"
    PROVE  LET d == Granted(c)
           IN  /\ Good(d) /\ Own(d) = Own(c) + Frame /\ Moves(c, d)
               /\ d.phase = "Flowing" /\ d.flow = "message" /\ c.flow = "none"
               /\ d.deliveries = c.deliveries /\ d.acks = c.acks
               /\ d.txnAcks = c.txnAcks /\ d.inc = c.inc
<1> DEFINE d == Granted(c)
<1>1. IsChild(c) /\ Shaped(c) /\ Balanced(c) /\ c.preTerm \in Int
  BY DEF Good, IsChild
<1>2. c.flow = "none" /\ ~c.terminal
  BY <1>1 DEF Shaped
<1>3. /\ IsChild(d)
      /\ d.gen = c.gen /\ d.phase = "Flowing" /\ d.flow = "message"
      /\ d.terminal = c.terminal /\ d.deliveries = c.deliveries
      /\ d.acks = c.acks /\ d.txnAcks = c.txnAcks /\ d.asm = c.asm
      /\ d.work = c.work /\ d.retained = c.retained /\ d.inc = c.inc
      /\ d.preTerm = c.preTerm + 1
  BY <1>1, SetGranted DEF Granted
<1> HIDE DEF d
<1>5. PermitCount(d) = 1 /\ PermitCount(c) = 0
  BY <1>2, <1>3, PermitIs
<1>6. Own(d) = Own(c) + Frame
  <2>1. Frame \in Nat
    BY StreamAssumption
  <2> QED
    BY <1>1, <1>2, <1>3, <2>1, OwnIs
<1>7. Shaped(d) /\ Moves(c, d)
  BY <1>2, <1>3 DEF Shaped, Moves
<1>8. Balanced(d)
  <2>1. c.asm \in Nat /\ c.work \in Nat /\ c.retained \in Nat
    BY <1>1, OwnIs
  <2> QED
    BY <1>1, <1>3, <1>5, <2>1 DEF Balanced
<1> QED
  BY <1>2, <1>3, <1>6, <1>7, <1>8 DEF Good, d

LEMMA BalancedNat ==
    ASSUME NEW c, Good(c)
    PROVE  /\ c.preTerm \in Nat /\ c.asm \in Nat /\ c.work \in Nat
           /\ c.retained \in Nat /\ PermitCount(c) \in {0, 1}
           /\ c.preTerm = PermitCount(c) => c.asm = 0 /\ c.work = 0 /\ c.retained = 0
           /\ c.preTerm = 0 => /\ PermitCount(c) = 0 /\ c.asm = 0 /\ c.work = 0
                               /\ c.retained = 0
<1>1. IsChild(c) /\ Balanced(c) /\ c.preTerm \in Int
  BY DEF Good, IsChild
<1>2. c.asm \in Nat /\ c.work \in Nat /\ c.retained \in Nat
  BY <1>1, OwnIs
<1>3. PermitCount(c) \in {0, 1}
  BY PermitIs
<1> QED
  BY <1>1, <1>2, <1>3 DEF Balanced

(* A child whose barrier is down has nothing retained. *)
LEMMA DrainSettledIs ==
    ASSUME NEW c, Good(c), DrainSettled(c)
    PROVE  c.deliveries = 0 /\ c.acks = 0 /\ c.txnAcks = 0 /\ c.retained = 0
<1>1. IsChild(c)
  BY DEF Good
<1> DEFINE d == [c EXCEPT !.preTerm = c.preTerm - PermitCount(c)]
<1>2. /\ d.deliveries = c.deliveries /\ d.acks = c.acks /\ d.txnAcks = c.txnAcks
      /\ d.preTerm = c.preTerm - PermitCount(c)
  BY <1>1 DEF IsChild
<1> HIDE DEF d
<1>3. CASE Settled(c)
  BY <1>3, BalancedNat DEF Settled
<1>4. CASE Settled(d)
  BY <1>2, <1>4, BalancedNat DEF Settled
<1> QED
  BY <1>3, <1>4 DEF DrainSettled, HandoffSettled, d

(* A child that keeps its share of the ledger stays good. *)
LEMMA StaysGood ==
    ASSUME NEW c, NEW d, Good(c), IsChild(d), d.flow = c.flow, d.asm = c.asm,
           d.work = c.work, d.retained = c.retained, d.preTerm = c.preTerm, Shaped(d)
    PROVE  Good(d) /\ Own(d) = Own(c)
<1>1. IsChild(c) /\ Balanced(c)
  BY DEF Good
<1>2. Own(d) = Own(c) /\ PermitCount(d) = PermitCount(c)
  BY <1>1, OwnSame
<1>3. Balanced(d)
  BY <1>1, <1>2 DEF Balanced
<1> QED
  BY <1>2, <1>3 DEF Good

LEMMA ClosingIs ==
    ASSUME NEW c, Good(c)
    PROVE  LET d == [c EXCEPT !.phase = "Closing"]
           IN  Good(d) /\ Alike(c, d) /\ Moves(c, d) /\ d.phase = "Closing"
<1> DEFINE d == [c EXCEPT !.phase = "Closing"]
<1>1. IsChild(c) /\ Shaped(c) /\ "Closing" \in Phases
  BY DEF Good, Phases
<1>2. /\ IsChild(d) /\ d.inc = c.inc /\ d.gen = c.gen /\ d.phase = "Closing" /\ d.flow = c.flow
      /\ d.asm = c.asm /\ d.work = c.work /\ d.retained = c.retained
      /\ d.terminal = c.terminal /\ d.deliveries = c.deliveries
      /\ d.acks = c.acks /\ d.txnAcks = c.txnAcks /\ d.preTerm = c.preTerm
  BY <1>1, SetPhase
<1> HIDE DEF d
<1>3. Shaped(d) /\ Moves(c, d)
  BY <1>1, <1>2 DEF Shaped, Moves
<1>4. Good(d) /\ Alike(c, d)
  BY <1>2, <1>3, StaysGood DEF Alike
<1> QED
  BY <1>2, <1>3, <1>4 DEF d

LEMMA CloseDrainedIs ==
    ASSUME NEW c, Good(c)
    PROVE  LET d == CloseDrained(c)
           IN  /\ Good(d) /\ Alike(c, d) /\ Moves(c, d) /\ ClosesEmpty(c, d)
               /\ d.phase = c.phase \/ c.phase = "Draining"
<1> DEFINE d == CloseDrained(c)
<1>1. CASE c.phase = "Draining" /\ DrainSettled(c)
  <2>1. d = [c EXCEPT !.phase = "Closing"]
    BY <1>1 DEF CloseDrained
  <2>2. Good(d) /\ Alike(c, d) /\ Moves(c, d)
    BY <2>1, ClosingIs
  <2>3. c.acks = 0 /\ c.txnAcks = 0 /\ c.retained = 0
    BY <1>1, DrainSettledIs
  <2> HIDE DEF d
  <2>4. ClosesEmpty(c, d)
    BY <2>2, <2>3 DEF ClosesEmpty, Alike, Moves
  <2> QED
    BY <1>1, <2>2, <2>4 DEF d
<1>2. CASE ~(c.phase = "Draining" /\ DrainSettled(c))
  <2>1. d = c
    BY <1>2 DEF CloseDrained
  <2> HIDE DEF d
  <2>2. Alike(c, d) /\ Moves(c, d) /\ ClosesEmpty(c, d)
    BY <2>1 DEF Alike, Moves, ClosesEmpty
  <2> QED
    BY <2>1, <2>2 DEF d
<1> QED
  BY <1>1, <1>2

LEMMA MovesCompose ==
    ASSUME NEW c, NEW d, NEW e, Moves(c, d), Moves(d, e)
    PROVE  Moves(c, e)
  BY DEF Moves

LEMMA AlikeCompose ==
    ASSUME NEW c, NEW d, NEW e, Alike(c, d), Alike(d, e)
    PROVE  Alike(c, e)
  BY DEF Alike

LEMMA RetireIs ==
    ASSUME NEW c, Good(c), NEW w
    PROVE  LET d == Retire(c, w)
           IN  Good(d) /\ Alike(c, d) /\ Moves(c, d) /\ ClosesEmpty(c, d)
<1> DEFINE b == CASE c.phase = "Opening"  -> [c EXCEPT !.phase = "Closing"]
                  [] c.phase \in {"Flowing", "OpenBlocked", "Terminal", "Seeking"} ->
                       [c EXCEPT !.phase = "Draining", !.waitFlow = w]
                  [] c.phase = "Draining" -> [c EXCEPT !.waitFlow = c.waitFlow \/ w]
                  [] OTHER -> c
<1>0. Retire(c, w) = CloseDrained(b)
  BY DEF Retire
<1>1. Good(b) /\ Alike(c, b) /\ Moves(c, b)
      /\ (c.phase # "Closing" /\ b.phase = "Closing" => c.phase = "Opening")
  <2>0. IsChild(c) /\ Shaped(c) /\ c.phase \in Phases
    BY DEF Good, IsChild
  <2>1. CASE c.phase = "Opening"
    <3>1. b = [c EXCEPT !.phase = "Closing"]
      BY <2>1
    <3> HIDE DEF b
    <3> QED
      BY <2>1, <3>1, ClosingIs
  <2>2. CASE c.phase \in {"Flowing", "OpenBlocked", "Terminal", "Seeking"}
    <3> DEFINE d == Drains(c, w)
    <3>1. b = d
      BY <2>2 DEF Drains
    <3> HIDE DEF b
    <3>2. /\ IsChild(d) /\ d.inc = c.inc /\ d.gen = c.gen /\ d.phase = "Draining" /\ d.flow = c.flow
          /\ d.asm = c.asm /\ d.work = c.work /\ d.retained = c.retained
          /\ d.terminal = c.terminal /\ d.deliveries = c.deliveries
          /\ d.acks = c.acks /\ d.txnAcks = c.txnAcks /\ d.preTerm = c.preTerm
      BY <2>0, SetDraining
    <3> HIDE DEF d
    <3>3. Shaped(d) /\ Moves(c, d)
      BY <2>0, <2>2, <3>2 DEF Shaped, Moves
    <3>4. Good(d) /\ Alike(c, d)
      BY <3>2, <3>3, StaysGood DEF Alike
    <3> QED
      BY <3>1, <3>2, <3>3, <3>4
  <2>3. CASE c.phase = "Draining"
    <3> DEFINE x == c.waitFlow \/ w
               d == [c EXCEPT !.waitFlow = x]
    <3>1. b = d
      BY <2>3
    <3> HIDE DEF x
    <3>2. /\ IsChild(d) /\ d.inc = c.inc /\ d.gen = c.gen /\ d.phase = c.phase /\ d.flow = c.flow
          /\ d.asm = c.asm /\ d.work = c.work /\ d.retained = c.retained
          /\ d.terminal = c.terminal /\ d.deliveries = c.deliveries
          /\ d.acks = c.acks /\ d.txnAcks = c.txnAcks /\ d.preTerm = c.preTerm
      BY <2>0, SetWait
    <3> HIDE DEF b, d
    <3>3. Shaped(d) /\ Moves(c, d)
      BY <2>0, <2>3, <3>2 DEF Shaped, Moves
    <3>4. Good(d) /\ Alike(c, d)
      BY <3>2, <3>3, StaysGood DEF Alike
    <3> QED
      BY <2>3, <3>1, <3>2, <3>3, <3>4
  <2>4. CASE c.phase = "Closing"
    <3>1. b = c
      BY <2>4
    <3> HIDE DEF b
    <3> QED
      BY <2>4, <3>1 DEF Alike, Moves
  <2> HIDE DEF b
  <2> QED
    BY <2>0, <2>1, <2>2, <2>3, <2>4 DEF Phases
<1> HIDE DEF b
<1> DEFINE d == CloseDrained(b)
<1>2. Good(d) /\ Alike(b, d) /\ Moves(b, d) /\ ClosesEmpty(b, d)
      /\ (d.phase = b.phase \/ b.phase = "Draining")
  BY <1>1, CloseDrainedIs
<1> HIDE DEF d
<1>3. Good(d) /\ Alike(c, d) /\ Moves(c, d)
  BY <1>1, <1>2, MovesCompose, AlikeCompose
<1>4. ClosesEmpty(c, d)
  <2> SUFFICES ASSUME c.phase # "Closing", d.phase = "Closing"
               PROVE  d.acks = 0 /\ d.txnAcks = 0 /\ d.retained = 0
    BY DEF ClosesEmpty
  <2>1. CASE b.phase # "Closing"
    BY <1>2, <2>1 DEF ClosesEmpty
  <2>2. CASE b.phase = "Closing"
    <3>1. c.phase = "Opening" /\ Shaped(c)
      BY <1>1, <2>2 DEF Good
    <3> QED
      BY <1>3, <3>1 DEF Shaped, Alike, Moves
  <2> QED
    BY <2>1, <2>2
<1> QED
  BY <1>0, <1>3, <1>4 DEF d

-----------------------------------------------------------------------------
(* The aggregate's record.                                                 *)

ModelPhases == {"Open", "ResyncRequired", "Closing", "Closed"}

IsModel(m) ==
    m \in [phase : ModelPhases, inc : Nat, epoch : Nat, layout : {m.layout},
           assigned : {m.assigned}, children : {m.children},
           history : {m.history}, completed : {m.completed},
           pending : {m.pending}, nextGen : Nat, cursor : {m.cursor},
           live : {m.live}, nextSeq : Nat, pos : {m.pos}, ops : {m.ops},
           nextOp : Nat]

(* Only the children change. *)
PutChildren(m, C) == [m EXCEPT !.children = C]

LEMMA PutChildrenIs ==
    ASSUME NEW m, IsModel(m), NEW C
    PROVE  LET n == PutChildren(m, C)
           IN  /\ IsModel(n) /\ n.phase = m.phase /\ n.inc = m.inc
               /\ n.epoch = m.epoch /\ n.layout = m.layout
               /\ n.assigned = m.assigned /\ n.children = C
               /\ n.history = m.history /\ n.completed = m.completed
               /\ n.pending = m.pending /\ n.nextGen = m.nextGen
               /\ n.cursor = m.cursor /\ n.live = m.live
               /\ n.nextSeq = m.nextSeq /\ n.pos = m.pos /\ n.ops = m.ops
               /\ n.nextOp = m.nextOp
<1> DEFINE n == PutChildren(m, C)
<1>1. n = [m EXCEPT !.children = C]
  BY DEF PutChildren
<1> HIDE DEF n
<1>2. IsModel(n)
  BY <1>1 DEF IsModel
<1>3. /\ n.phase = m.phase /\ n.inc = m.inc /\ n.epoch = m.epoch
      /\ n.layout = m.layout /\ n.assigned = m.assigned /\ n.children = C
      /\ n.history = m.history /\ n.completed = m.completed
      /\ n.pending = m.pending /\ n.nextGen = m.nextGen /\ n.cursor = m.cursor
      /\ n.live = m.live /\ n.nextSeq = m.nextSeq /\ n.pos = m.pos
      /\ n.ops = m.ops /\ n.nextOp = m.nextOp
  BY <1>1 DEF IsModel
<1> QED
  BY <1>2, <1>3 DEF n

(* Permits are granted. *)
PutGrants(m, C, k) == [m EXCEPT !.children = C, !.cursor = k]

LEMMA PutGrantsIs ==
    ASSUME NEW m, IsModel(m), NEW C, NEW k
    PROVE  LET n == PutGrants(m, C, k)
           IN  /\ IsModel(n) /\ n.phase = m.phase /\ n.inc = m.inc
               /\ n.epoch = m.epoch /\ n.layout = m.layout
               /\ n.assigned = m.assigned /\ n.children = C
               /\ n.history = m.history /\ n.completed = m.completed
               /\ n.pending = m.pending /\ n.nextGen = m.nextGen
               /\ n.cursor = k /\ n.live = m.live /\ n.nextSeq = m.nextSeq
               /\ n.pos = m.pos /\ n.ops = m.ops /\ n.nextOp = m.nextOp
<1> DEFINE n == PutGrants(m, C, k)
<1>1. n = [m EXCEPT !.children = C, !.cursor = k]
  BY DEF PutGrants
<1> HIDE DEF n
<1>2. IsModel(n)
  BY <1>1 DEF IsModel
<1>3. /\ n.phase = m.phase /\ n.inc = m.inc /\ n.epoch = m.epoch
      /\ n.layout = m.layout /\ n.assigned = m.assigned /\ n.children = C
      /\ n.history = m.history /\ n.completed = m.completed
      /\ n.pending = m.pending /\ n.nextGen = m.nextGen /\ n.cursor = k
      /\ n.live = m.live /\ n.nextSeq = m.nextSeq /\ n.pos = m.pos
      /\ n.ops = m.ops /\ n.nextOp = m.nextOp
  BY <1>1 DEF IsModel
<1> QED
  BY <1>2, <1>3 DEF n

(* An assignment is reconciled. *)
PutAssigned(m, A, P, X, H, g, C) == [m EXCEPT !.assigned = A, !.pending = P,
        !.completed = X, !.history = H, !.nextGen = g, !.children = C]

LEMMA PutAssignedIs ==
    ASSUME NEW m, IsModel(m), NEW A, NEW P, NEW X, NEW H, NEW g \in Nat, NEW C
    PROVE  LET n == PutAssigned(m, A, P, X, H, g, C)
           IN  /\ IsModel(n) /\ n.phase = m.phase /\ n.inc = m.inc
               /\ n.epoch = m.epoch /\ n.layout = m.layout /\ n.assigned = A
               /\ n.children = C /\ n.history = H /\ n.completed = X
               /\ n.pending = P /\ n.nextGen = g /\ n.cursor = m.cursor
               /\ n.live = m.live /\ n.nextSeq = m.nextSeq /\ n.pos = m.pos
               /\ n.ops = m.ops /\ n.nextOp = m.nextOp
<1> DEFINE n == PutAssigned(m, A, P, X, H, g, C)
<1>1. n = [m EXCEPT !.assigned = A, !.pending = P, !.completed = X,
                    !.history = H, !.nextGen = g, !.children = C]
  BY DEF PutAssigned
<1> HIDE DEF n
<1>2. IsModel(n)
  BY <1>1 DEF IsModel
<1>3. /\ n.phase = m.phase /\ n.inc = m.inc /\ n.epoch = m.epoch
      /\ n.layout = m.layout /\ n.assigned = A /\ n.children = C
      /\ n.history = H /\ n.completed = X /\ n.pending = P /\ n.nextGen = g
      /\ n.cursor = m.cursor /\ n.live = m.live /\ n.nextSeq = m.nextSeq
      /\ n.pos = m.pos /\ n.ops = m.ops /\ n.nextOp = m.nextOp
  BY <1>1 DEF IsModel
<1> QED
  BY <1>2, <1>3 DEF n

(* A layout is applied. *)
PutLayout(m, l) == [m EXCEPT !.layout = l]

LEMMA PutLayoutIs ==
    ASSUME NEW m, IsModel(m), NEW l
    PROVE  LET n == PutLayout(m, l)
           IN  /\ IsModel(n) /\ n.phase = m.phase /\ n.inc = m.inc
               /\ n.epoch = m.epoch /\ n.layout = l /\ n.assigned = m.assigned
               /\ n.children = m.children /\ n.history = m.history
               /\ n.completed = m.completed /\ n.pending = m.pending
               /\ n.nextGen = m.nextGen /\ n.cursor = m.cursor
               /\ n.live = m.live /\ n.nextSeq = m.nextSeq /\ n.pos = m.pos
               /\ n.ops = m.ops /\ n.nextOp = m.nextOp
<1> DEFINE n == PutLayout(m, l)
<1>1. n = [m EXCEPT !.layout = l]
  BY DEF PutLayout
<1> HIDE DEF n
<1>2. IsModel(n)
  BY <1>1 DEF IsModel
<1>3. /\ n.phase = m.phase /\ n.inc = m.inc /\ n.epoch = m.epoch
      /\ n.layout = l /\ n.assigned = m.assigned /\ n.children = m.children
      /\ n.history = m.history /\ n.completed = m.completed
      /\ n.pending = m.pending /\ n.nextGen = m.nextGen /\ n.cursor = m.cursor
      /\ n.live = m.live /\ n.nextSeq = m.nextSeq /\ n.pos = m.pos
      /\ n.ops = m.ops /\ n.nextOp = m.nextOp
  BY <1>1 DEF IsModel
<1> QED
  BY <1>2, <1>3 DEF n

(* A fence. *)
PutFence(m, p, e, C) == [m EXCEPT !.phase = p, !.epoch = e,
                                  !.assigned = NoAssignment, !.pending = {},
                                  !.pos = Nothing, !.ops = {}, !.children = C]

LEMMA PutFenceIs ==
    ASSUME NEW m, IsModel(m), NEW p \in ModelPhases, NEW e \in Nat, NEW C
    PROVE  LET n == PutFence(m, p, e, C)
           IN  /\ IsModel(n) /\ n.phase = p /\ n.inc = m.inc /\ n.epoch = e
               /\ n.layout = m.layout /\ n.assigned = NoAssignment
               /\ n.children = C /\ n.history = m.history
               /\ n.completed = m.completed /\ n.pending = {}
               /\ n.nextGen = m.nextGen /\ n.cursor = m.cursor
               /\ n.live = m.live /\ n.nextSeq = m.nextSeq /\ n.pos = Nothing
               /\ n.ops = {} /\ n.nextOp = m.nextOp
<1> DEFINE n == PutFence(m, p, e, C)
<1>1. n = [m EXCEPT !.phase = p, !.epoch = e, !.assigned = NoAssignment,
                    !.pending = {}, !.pos = Nothing, !.ops = {},
                    !.children = C]
  BY DEF PutFence
<1> HIDE DEF n
<1>2. IsModel(n)
  BY <1>1 DEF IsModel
<1>3. /\ n.phase = p /\ n.inc = m.inc /\ n.epoch = e /\ n.layout = m.layout
      /\ n.assigned = NoAssignment /\ n.children = C /\ n.history = m.history
      /\ n.completed = m.completed /\ n.pending = {} /\ n.nextGen = m.nextGen
      /\ n.cursor = m.cursor /\ n.live = m.live /\ n.nextSeq = m.nextSeq
      /\ n.pos = Nothing /\ n.ops = {} /\ n.nextOp = m.nextOp
  BY <1>1 DEF IsModel
<1> QED
  BY <1>2, <1>3 DEF n

(* A new incarnation. *)
PutInc(m, i) == [m EXCEPT !.inc = i]

LEMMA PutIncIs ==
    ASSUME NEW m, IsModel(m), NEW i \in Nat
    PROVE  LET n == PutInc(m, i)
           IN  /\ IsModel(n) /\ n.phase = m.phase /\ n.inc = i
               /\ n.epoch = m.epoch /\ n.layout = m.layout
               /\ n.assigned = m.assigned /\ n.children = m.children
               /\ n.history = m.history /\ n.completed = m.completed
               /\ n.pending = m.pending /\ n.nextGen = m.nextGen
               /\ n.cursor = m.cursor /\ n.live = m.live
               /\ n.nextSeq = m.nextSeq /\ n.pos = m.pos /\ n.ops = m.ops
               /\ n.nextOp = m.nextOp
<1> DEFINE n == PutInc(m, i)
<1>1. n = [m EXCEPT !.inc = i]
  BY DEF PutInc
<1> HIDE DEF n
<1>2. IsModel(n)
  BY <1>1 DEF IsModel
<1>3. /\ n.phase = m.phase /\ n.inc = i /\ n.epoch = m.epoch
      /\ n.layout = m.layout /\ n.assigned = m.assigned
      /\ n.children = m.children /\ n.history = m.history
      /\ n.completed = m.completed /\ n.pending = m.pending
      /\ n.nextGen = m.nextGen /\ n.cursor = m.cursor /\ n.live = m.live
      /\ n.nextSeq = m.nextSeq /\ n.pos = m.pos /\ n.ops = m.ops
      /\ n.nextOp = m.nextOp
  BY <1>1 DEF IsModel
<1> QED
  BY <1>2, <1>3 DEF n

(* An opening is noted or forgotten. *)
PutPending(m, P) == [m EXCEPT !.pending = P]

LEMMA PutPendingIs ==
    ASSUME NEW m, IsModel(m), NEW P
    PROVE  LET n == PutPending(m, P)
           IN  /\ IsModel(n) /\ n.phase = m.phase /\ n.inc = m.inc
               /\ n.epoch = m.epoch /\ n.layout = m.layout
               /\ n.assigned = m.assigned /\ n.children = m.children
               /\ n.history = m.history /\ n.completed = m.completed
               /\ n.pending = P /\ n.nextGen = m.nextGen
               /\ n.cursor = m.cursor /\ n.live = m.live
               /\ n.nextSeq = m.nextSeq /\ n.pos = m.pos /\ n.ops = m.ops
               /\ n.nextOp = m.nextOp
<1> DEFINE n == PutPending(m, P)
<1>1. n = [m EXCEPT !.pending = P]
  BY DEF PutPending
<1> HIDE DEF n
<1>2. IsModel(n)
  BY <1>1 DEF IsModel
<1>3. /\ n.phase = m.phase /\ n.inc = m.inc /\ n.epoch = m.epoch
      /\ n.layout = m.layout /\ n.assigned = m.assigned
      /\ n.children = m.children /\ n.history = m.history
      /\ n.completed = m.completed /\ n.pending = P /\ n.nextGen = m.nextGen
      /\ n.cursor = m.cursor /\ n.live = m.live /\ n.nextSeq = m.nextSeq
      /\ n.pos = m.pos /\ n.ops = m.ops /\ n.nextOp = m.nextOp
  BY <1>1 DEF IsModel
<1> QED
  BY <1>2, <1>3 DEF n

(* A child is gone. *)
PutClosed(m, L, P, Q, C) == [m EXCEPT !.live = L, !.pending = P, !.pos = Q,
                                      !.children = C]

LEMMA PutClosedIs ==
    ASSUME NEW m, IsModel(m), NEW L, NEW P, NEW Q, NEW C
    PROVE  LET n == PutClosed(m, L, P, Q, C)
           IN  /\ IsModel(n) /\ n.phase = m.phase /\ n.inc = m.inc
               /\ n.epoch = m.epoch /\ n.layout = m.layout
               /\ n.assigned = m.assigned /\ n.children = C
               /\ n.history = m.history /\ n.completed = m.completed
               /\ n.pending = P /\ n.nextGen = m.nextGen
               /\ n.cursor = m.cursor /\ n.live = L /\ n.nextSeq = m.nextSeq
               /\ n.pos = Q /\ n.ops = m.ops /\ n.nextOp = m.nextOp
<1> DEFINE n == PutClosed(m, L, P, Q, C)
<1>1. n = [m EXCEPT !.live = L, !.pending = P, !.pos = Q, !.children = C]
  BY DEF PutClosed
<1> HIDE DEF n
<1>2. IsModel(n)
  BY <1>1 DEF IsModel
<1>3. /\ n.phase = m.phase /\ n.inc = m.inc /\ n.epoch = m.epoch
      /\ n.layout = m.layout /\ n.assigned = m.assigned /\ n.children = C
      /\ n.history = m.history /\ n.completed = m.completed /\ n.pending = P
      /\ n.nextGen = m.nextGen /\ n.cursor = m.cursor /\ n.live = L
      /\ n.nextSeq = m.nextSeq /\ n.pos = Q /\ n.ops = m.ops
      /\ n.nextOp = m.nextOp
  BY <1>1 DEF IsModel
<1> QED
  BY <1>2, <1>3 DEF n

(* Its successor is opened. *)
PutReopened(m, C, g, X, H) == [m EXCEPT !.children = C, !.nextGen = g,
                                        !.completed = X, !.history = H]

LEMMA PutReopenedIs ==
    ASSUME NEW m, IsModel(m), NEW C, NEW g \in Nat, NEW X, NEW H
    PROVE  LET n == PutReopened(m, C, g, X, H)
           IN  /\ IsModel(n) /\ n.phase = m.phase /\ n.inc = m.inc
               /\ n.epoch = m.epoch /\ n.layout = m.layout
               /\ n.assigned = m.assigned /\ n.children = C /\ n.history = H
               /\ n.completed = X /\ n.pending = m.pending /\ n.nextGen = g
               /\ n.cursor = m.cursor /\ n.live = m.live
               /\ n.nextSeq = m.nextSeq /\ n.pos = m.pos /\ n.ops = m.ops
               /\ n.nextOp = m.nextOp
<1> DEFINE n == PutReopened(m, C, g, X, H)
<1>1. n = [m EXCEPT !.children = C, !.nextGen = g, !.completed = X,
                    !.history = H]
  BY DEF PutReopened
<1> HIDE DEF n
<1>2. IsModel(n)
  BY <1>1 DEF IsModel
<1>3. /\ n.phase = m.phase /\ n.inc = m.inc /\ n.epoch = m.epoch
      /\ n.layout = m.layout /\ n.assigned = m.assigned /\ n.children = C
      /\ n.history = H /\ n.completed = X /\ n.pending = m.pending
      /\ n.nextGen = g /\ n.cursor = m.cursor /\ n.live = m.live
      /\ n.nextSeq = m.nextSeq /\ n.pos = m.pos /\ n.ops = m.ops
      /\ n.nextOp = m.nextOp
  BY <1>1 DEF IsModel
<1> QED
  BY <1>2, <1>3 DEF n

(* The last child of a closing aggregate is gone. *)
PutDone(m, p) == [m EXCEPT !.phase = p, !.assigned = NoAssignment]

LEMMA PutDoneIs ==
    ASSUME NEW m, IsModel(m), NEW p \in ModelPhases
    PROVE  LET n == PutDone(m, p)
           IN  /\ IsModel(n) /\ n.phase = p /\ n.inc = m.inc
               /\ n.epoch = m.epoch /\ n.layout = m.layout
               /\ n.assigned = NoAssignment /\ n.children = m.children
               /\ n.history = m.history /\ n.completed = m.completed
               /\ n.pending = m.pending /\ n.nextGen = m.nextGen
               /\ n.cursor = m.cursor /\ n.live = m.live
               /\ n.nextSeq = m.nextSeq /\ n.pos = m.pos /\ n.ops = m.ops
               /\ n.nextOp = m.nextOp
<1> DEFINE n == PutDone(m, p)
<1>1. n = [m EXCEPT !.phase = p, !.assigned = NoAssignment]
  BY DEF PutDone
<1> HIDE DEF n
<1>2. IsModel(n)
  BY <1>1 DEF IsModel
<1>3. /\ n.phase = p /\ n.inc = m.inc /\ n.epoch = m.epoch
      /\ n.layout = m.layout /\ n.assigned = NoAssignment
      /\ n.children = m.children /\ n.history = m.history
      /\ n.completed = m.completed /\ n.pending = m.pending
      /\ n.nextGen = m.nextGen /\ n.cursor = m.cursor /\ n.live = m.live
      /\ n.nextSeq = m.nextSeq /\ n.pos = m.pos /\ n.ops = m.ops
      /\ n.nextOp = m.nextOp
  BY <1>1 DEF IsModel
<1> QED
  BY <1>2, <1>3 DEF n

(* A seek begins. *)
PutSeek(m, e, X, C) == [m EXCEPT !.epoch = e, !.pos = Nothing,
                                 !.completed = X, !.children = C]

LEMMA PutSeekIs ==
    ASSUME NEW m, IsModel(m), NEW e \in Nat, NEW X, NEW C
    PROVE  LET n == PutSeek(m, e, X, C)
           IN  /\ IsModel(n) /\ n.phase = m.phase /\ n.inc = m.inc
               /\ n.epoch = e /\ n.layout = m.layout
               /\ n.assigned = m.assigned /\ n.children = C
               /\ n.history = m.history /\ n.completed = X
               /\ n.pending = m.pending /\ n.nextGen = m.nextGen
               /\ n.cursor = m.cursor /\ n.live = m.live
               /\ n.nextSeq = m.nextSeq /\ n.pos = Nothing /\ n.ops = m.ops
               /\ n.nextOp = m.nextOp
<1> DEFINE n == PutSeek(m, e, X, C)
<1>1. n = [m EXCEPT !.epoch = e, !.pos = Nothing, !.completed = X,
                    !.children = C]
  BY DEF PutSeek
<1> HIDE DEF n
<1>2. IsModel(n)
  BY <1>1 DEF IsModel
<1>3. /\ n.phase = m.phase /\ n.inc = m.inc /\ n.epoch = e
      /\ n.layout = m.layout /\ n.assigned = m.assigned /\ n.children = C
      /\ n.history = m.history /\ n.completed = X /\ n.pending = m.pending
      /\ n.nextGen = m.nextGen /\ n.cursor = m.cursor /\ n.live = m.live
      /\ n.nextSeq = m.nextSeq /\ n.pos = Nothing /\ n.ops = m.ops
      /\ n.nextOp = m.nextOp
  BY <1>1 DEF IsModel
<1> QED
  BY <1>2, <1>3 DEF n

(* A lease is issued. *)
PutIssued(m, Q, q, L) == [m EXCEPT !.pos = Q, !.nextSeq = q, !.live = L]

LEMMA PutIssuedIs ==
    ASSUME NEW m, IsModel(m), NEW Q, NEW q \in Nat, NEW L
    PROVE  LET n == PutIssued(m, Q, q, L)
           IN  /\ IsModel(n) /\ n.phase = m.phase /\ n.inc = m.inc
               /\ n.epoch = m.epoch /\ n.layout = m.layout
               /\ n.assigned = m.assigned /\ n.children = m.children
               /\ n.history = m.history /\ n.completed = m.completed
               /\ n.pending = m.pending /\ n.nextGen = m.nextGen
               /\ n.cursor = m.cursor /\ n.live = L /\ n.nextSeq = q
               /\ n.pos = Q /\ n.ops = m.ops /\ n.nextOp = m.nextOp
<1> DEFINE n == PutIssued(m, Q, q, L)
<1>1. n = [m EXCEPT !.pos = Q, !.nextSeq = q, !.live = L]
  BY DEF PutIssued
<1> HIDE DEF n
<1>2. IsModel(n)
  BY <1>1 DEF IsModel
<1>3. /\ n.phase = m.phase /\ n.inc = m.inc /\ n.epoch = m.epoch
      /\ n.layout = m.layout /\ n.assigned = m.assigned
      /\ n.children = m.children /\ n.history = m.history
      /\ n.completed = m.completed /\ n.pending = m.pending
      /\ n.nextGen = m.nextGen /\ n.cursor = m.cursor /\ n.live = L
      /\ n.nextSeq = q /\ n.pos = Q /\ n.ops = m.ops /\ n.nextOp = m.nextOp
  BY <1>1 DEF IsModel
<1> QED
  BY <1>2, <1>3 DEF n

(* Leases are released. *)
PutLive(m, L, C) == [m EXCEPT !.live = L, !.children = C]

LEMMA PutLiveIs ==
    ASSUME NEW m, IsModel(m), NEW L, NEW C
    PROVE  LET n == PutLive(m, L, C)
           IN  /\ IsModel(n) /\ n.phase = m.phase /\ n.inc = m.inc
               /\ n.epoch = m.epoch /\ n.layout = m.layout
               /\ n.assigned = m.assigned /\ n.children = C
               /\ n.history = m.history /\ n.completed = m.completed
               /\ n.pending = m.pending /\ n.nextGen = m.nextGen
               /\ n.cursor = m.cursor /\ n.live = L /\ n.nextSeq = m.nextSeq
               /\ n.pos = m.pos /\ n.ops = m.ops /\ n.nextOp = m.nextOp
<1> DEFINE n == PutLive(m, L, C)
<1>1. n = [m EXCEPT !.live = L, !.children = C]
  BY DEF PutLive
<1> HIDE DEF n
<1>2. IsModel(n)
  BY <1>1 DEF IsModel
<1>3. /\ n.phase = m.phase /\ n.inc = m.inc /\ n.epoch = m.epoch
      /\ n.layout = m.layout /\ n.assigned = m.assigned /\ n.children = C
      /\ n.history = m.history /\ n.completed = m.completed
      /\ n.pending = m.pending /\ n.nextGen = m.nextGen /\ n.cursor = m.cursor
      /\ n.live = L /\ n.nextSeq = m.nextSeq /\ n.pos = m.pos /\ n.ops = m.ops
      /\ n.nextOp = m.nextOp
  BY <1>1 DEF IsModel
<1> QED
  BY <1>2, <1>3 DEF n

(* An operation is admitted. *)
PutAdmitted(m, O, k) == [m EXCEPT !.ops = O, !.nextOp = k]

LEMMA PutAdmittedIs ==
    ASSUME NEW m, IsModel(m), NEW O, NEW k \in Nat
    PROVE  LET n == PutAdmitted(m, O, k)
           IN  /\ IsModel(n) /\ n.phase = m.phase /\ n.inc = m.inc
               /\ n.epoch = m.epoch /\ n.layout = m.layout
               /\ n.assigned = m.assigned /\ n.children = m.children
               /\ n.history = m.history /\ n.completed = m.completed
               /\ n.pending = m.pending /\ n.nextGen = m.nextGen
               /\ n.cursor = m.cursor /\ n.live = m.live
               /\ n.nextSeq = m.nextSeq /\ n.pos = m.pos /\ n.ops = O
               /\ n.nextOp = k
<1> DEFINE n == PutAdmitted(m, O, k)
<1>1. n = [m EXCEPT !.ops = O, !.nextOp = k]
  BY DEF PutAdmitted
<1> HIDE DEF n
<1>2. IsModel(n)
  BY <1>1 DEF IsModel
<1>3. /\ n.phase = m.phase /\ n.inc = m.inc /\ n.epoch = m.epoch
      /\ n.layout = m.layout /\ n.assigned = m.assigned
      /\ n.children = m.children /\ n.history = m.history
      /\ n.completed = m.completed /\ n.pending = m.pending
      /\ n.nextGen = m.nextGen /\ n.cursor = m.cursor /\ n.live = m.live
      /\ n.nextSeq = m.nextSeq /\ n.pos = m.pos /\ n.ops = O /\ n.nextOp = k
  BY <1>1 DEF IsModel
<1> QED
  BY <1>2, <1>3 DEF n

(* An operation is settled. *)
PutOps(m, O) == [m EXCEPT !.ops = O]

LEMMA PutOpsIs ==
    ASSUME NEW m, IsModel(m), NEW O
    PROVE  LET n == PutOps(m, O)
           IN  /\ IsModel(n) /\ n.phase = m.phase /\ n.inc = m.inc
               /\ n.epoch = m.epoch /\ n.layout = m.layout
               /\ n.assigned = m.assigned /\ n.children = m.children
               /\ n.history = m.history /\ n.completed = m.completed
               /\ n.pending = m.pending /\ n.nextGen = m.nextGen
               /\ n.cursor = m.cursor /\ n.live = m.live
               /\ n.nextSeq = m.nextSeq /\ n.pos = m.pos /\ n.ops = O
               /\ n.nextOp = m.nextOp
<1> DEFINE n == PutOps(m, O)
<1>1. n = [m EXCEPT !.ops = O]
  BY DEF PutOps
<1> HIDE DEF n
<1>2. IsModel(n)
  BY <1>1 DEF IsModel
<1>3. /\ n.phase = m.phase /\ n.inc = m.inc /\ n.epoch = m.epoch
      /\ n.layout = m.layout /\ n.assigned = m.assigned
      /\ n.children = m.children /\ n.history = m.history
      /\ n.completed = m.completed /\ n.pending = m.pending
      /\ n.nextGen = m.nextGen /\ n.cursor = m.cursor /\ n.live = m.live
      /\ n.nextSeq = m.nextSeq /\ n.pos = m.pos /\ n.ops = O
      /\ n.nextOp = m.nextOp
  BY <1>1 DEF IsModel
<1> QED
  BY <1>2, <1>3 DEF n

(* A segment is complete. *)
PutCompleted(m, X) == [m EXCEPT !.completed = X]

LEMMA PutCompletedIs ==
    ASSUME NEW m, IsModel(m), NEW X
    PROVE  LET n == PutCompleted(m, X)
           IN  /\ IsModel(n) /\ n.phase = m.phase /\ n.inc = m.inc
               /\ n.epoch = m.epoch /\ n.layout = m.layout
               /\ n.assigned = m.assigned /\ n.children = m.children
               /\ n.history = m.history /\ n.completed = X
               /\ n.pending = m.pending /\ n.nextGen = m.nextGen
               /\ n.cursor = m.cursor /\ n.live = m.live
               /\ n.nextSeq = m.nextSeq /\ n.pos = m.pos /\ n.ops = m.ops
               /\ n.nextOp = m.nextOp
<1> DEFINE n == PutCompleted(m, X)
<1>1. n = [m EXCEPT !.completed = X]
  BY DEF PutCompleted
<1> HIDE DEF n
<1>2. IsModel(n)
  BY <1>1 DEF IsModel
<1>3. /\ n.phase = m.phase /\ n.inc = m.inc /\ n.epoch = m.epoch
      /\ n.layout = m.layout /\ n.assigned = m.assigned
      /\ n.children = m.children /\ n.history = m.history /\ n.completed = X
      /\ n.pending = m.pending /\ n.nextGen = m.nextGen /\ n.cursor = m.cursor
      /\ n.live = m.live /\ n.nextSeq = m.nextSeq /\ n.pos = m.pos
      /\ n.ops = m.ops /\ n.nextOp = m.nextOp
  BY <1>1 DEF IsModel
<1> QED
  BY <1>2, <1>3 DEF n

-----------------------------------------------------------------------------
(* What holds of the aggregate between two calls.                          *)

Typed(m) ==
    /\ IsModel(m) /\ DOMAIN m.children \subseteq Segments
    /\ \A s \in DOMAIN m.children : Good(m.children[s])

(* Generations are never used twice. *)
Numbered(m) ==
    /\ m.nextGen >= 1
    /\ \A s \in DOMAIN m.children :
         m.children[s].gen >= 1 /\ m.children[s].gen < m.nextGen

(* Every lease is of a current child, whose barrier counts it. *)
Leased(m) ==
    /\ IsFiniteSet(m.live)
    /\ \A d \in m.live : /\ d.seq \in Nat /\ d.seq < m.nextSeq
                         /\ Has(m, d.seg, d.gen)
    /\ \A s \in DOMAIN m.children :
         m.children[s].deliveries = Cardinality(Leases(m, s))

AcksOn(m, s)    == {op \in m.ops : ~op.txn /\ \E c \in op.comps : c.seg = s}
TxnAcksOn(m, s) == {op \in m.ops : op.txn /\ \E c \in op.comps : c.seg = s}

(* Every admitted operation is on children that wait for it. *)
Counted(m) ==
    /\ IsFiniteSet(m.ops)
    /\ \A op \in m.ops :
         /\ op.id \in Nat /\ op.id < m.nextOp
         /\ \A c \in op.comps :
              Has(m, c.seg, c.gen) /\ m.children[c.seg].phase # "Closing"
    /\ \A s \in DOMAIN m.children :
         m.children[s].phase # "Closing" =>
            /\ m.children[s].acks = Cardinality(AcksOn(m, s))
            /\ m.children[s].txnAcks = Cardinality(TxnAcksOn(m, s))

(* An aggregate that is not open only waits for its children to close. *)
Phased(m) ==
    /\ m.phase # "Open" =>
         /\ \A s \in DOMAIN m.children : m.children[s].phase = "Closing"
         /\ m.ops = {} /\ m.pending = {}
    /\ m.phase = "Closing" => DOMAIN m.children # {}
    /\ m.phase = "Closed" => DOMAIN m.children = {}

Sound(m) == Typed(m) /\ Numbered(m) /\ Leased(m) /\ Counted(m) /\ Phased(m)

Fits(m) == Used(m) =< BudgetLimit

(* Each child's share of the ledger. *)
Shares(m) == [s \in 1..Top |-> IF s \in DOMAIN m.children THEN Owned(m, s) ELSE 0]

LEMMA UsedIs ==
    ASSUME NEW m
    PROVE  Used(m) = Total(Shares(m))
  BY DEF Used, Shares, Top

LEMMA OwnedIs ==
    ASSUME NEW m, NEW s
    PROVE  Owned(m, s) = Own(m.children[s]) + Cardinality(Leases(m, s))
  BY DEF Owned, Own

LEMMA LeasesFinite ==
    ASSUME NEW m, IsFiniteSet(m.live), NEW s
    PROVE  IsFiniteSet(Leases(m, s)) /\ Cardinality(Leases(m, s)) \in Nat
<1>1. Leases(m, s) \in SUBSET m.live
  BY DEF Leases
<1> QED
  BY <1>1, FS_Subset, FS_CardinalityType

LEMMA SharesTyped ==
    ASSUME NEW m, Typed(m), IsFiniteSet(m.live)
    PROVE  /\ Shares(m) \in [1..Top -> Nat] /\ Used(m) \in Nat
           /\ \A s \in DOMAIN m.children :
                /\ s \in 1..Top /\ Shares(m)[s] = Owned(m, s)
                /\ Owned(m, s) \in Nat
<1>1. ASSUME NEW s \in DOMAIN m.children PROVE s \in 1..Top /\ Owned(m, s) \in Nat
  <2>1. s \in 1..Top
    BY TopIs DEF Typed
  <2>2. IsChild(m.children[s])
    BY DEF Typed, Good
  <2>3. Own(m.children[s]) \in Nat
    BY <2>2, OwnIs
  <2>4. Cardinality(Leases(m, s)) \in Nat
    BY LeasesFinite
  <2> QED
    BY <2>1, <2>3, <2>4, OwnedIs
<1>2. Shares(m) \in [1..Top -> Nat]
  BY <1>1 DEF Shares
<1>3. Used(m) \in Nat
  BY <1>2, UsedIs, TotalNat
<1>4. \A s \in DOMAIN m.children : Shares(m)[s] = Owned(m, s)
  BY <1>1 DEF Shares
<1> QED
  BY <1>1, <1>2, <1>3, <1>4

(* Nothing grows but the shares in K, each by at most F. *)
LEMMA UsedGrows ==
    ASSUME NEW m, NEW n, Typed(m), Typed(n), IsFiniteSet(m.live), IsFiniteSet(n.live),
           NEW F \in Nat, NEW K \in SUBSET Segments,
           \A s \in DOMAIN n.children :
              Owned(n, s) =< (IF s \in DOMAIN m.children THEN Owned(m, s) ELSE 0)
                                + (IF s \in K THEN F ELSE 0)
    PROVE  IsFiniteSet(K) /\ Used(n) =< Used(m) + F * Cardinality(K)
<1>1. Shares(m) \in [1..Top -> Nat] /\ Shares(n) \in [1..Top -> Nat]
  BY SharesTyped
<1>2. K \in SUBSET (1..Top)
  BY TopIs
<1>3. ASSUME NEW s \in 1..Top
      PROVE  Shares(n)[s] =< Shares(m)[s] + (IF s \in K THEN F ELSE 0)
  <2>1. Shares(m)[s] = IF s \in DOMAIN m.children THEN Owned(m, s) ELSE 0
    BY DEF Shares
  <2>2. Shares(n)[s] = IF s \in DOMAIN n.children THEN Owned(n, s) ELSE 0
    BY DEF Shares
  <2>3. Shares(m)[s] \in Nat
    BY <1>1
  <2> QED
    BY <2>1, <2>2, <2>3
<1>4. IsFiniteSet(K) /\ Total(Shares(n)) =< Total(Shares(m)) + F * Cardinality(K)
  BY <1>1, <1>2, <1>3, TotalGrows
<1> QED
  BY <1>4, UsedIs

(* Nothing grows at all. *)
LEMMA UsedShrinks ==
    ASSUME NEW m, NEW n, Typed(m), Typed(n), IsFiniteSet(m.live), IsFiniteSet(n.live),
           \A s \in DOMAIN n.children :
              Owned(n, s) =< (IF s \in DOMAIN m.children THEN Owned(m, s) ELSE 0)
    PROVE  Used(n) =< Used(m)
<1>1. ASSUME NEW s \in DOMAIN n.children
      PROVE  Owned(n, s) =< (IF s \in DOMAIN m.children THEN Owned(m, s) ELSE 0)
                                + (IF s \in {} THEN 0 ELSE 0)
  <2>1. (IF s \in DOMAIN m.children THEN Owned(m, s) ELSE 0) \in Nat
    BY SharesTyped
  <2> QED
    BY <2>1
<1>2. Used(n) =< Used(m) + 0 * Cardinality({})
  BY <1>1, UsedGrows, 0 \in Nat, {} \in SUBSET Segments
<1>3. Cardinality({}) = 0 /\ Used(m) \in Nat /\ Used(n) \in Nat
  BY FS_EmptySet, SharesTyped
<1> QED
  BY <1>2, <1>3

(* Only one share changes. *)
LEMMA UsedOne ==
    ASSUME NEW m, NEW n, Typed(m), Typed(n), IsFiniteSet(m.live), IsFiniteSet(n.live),
           DOMAIN n.children = DOMAIN m.children, NEW k \in DOMAIN m.children,
           \A s \in DOMAIN m.children : s # k => Owned(n, s) = Owned(m, s)
    PROVE  Used(n) = Used(m) + Owned(n, k) - Owned(m, k)
<1>1. /\ Shares(m) \in [1..Top -> Nat] /\ Shares(n) \in [1..Top -> Nat]
      /\ k \in 1..Top /\ Shares(m)[k] = Owned(m, k) /\ Shares(n)[k] = Owned(n, k)
  BY SharesTyped
<1>2. \A s \in 1..Top : s # k => Shares(n)[s] = Shares(m)[s]
  BY DEF Shares
<1>3. Total(Shares(n)) = Total(Shares(m)) + Shares(n)[k] - Shares(m)[k]
  BY <1>1, <1>2, TotalOne
<1> QED
  BY <1>1, <1>3, UsedIs

-----------------------------------------------------------------------------
(* Arbitration.                                                            *)

(* What ArbitrateFlow may do: grant permits to children that wait for one. *)
Arbitrated(m, n) ==
    /\ IsModel(n) /\ DOMAIN n.children = DOMAIN m.children
    /\ \A s \in DOMAIN m.children :
         \/ n.children[s] = m.children[s]
         \/ /\ m.phase = "Open" /\ MayFlow(m, s)
            /\ n.children[s] = Granted(m.children[s])
    /\ n.phase = m.phase /\ n.inc = m.inc /\ n.epoch = m.epoch
    /\ n.layout = m.layout /\ n.assigned = m.assigned /\ n.history = m.history
    /\ n.completed = m.completed /\ n.pending = m.pending
    /\ n.nextGen = m.nextGen /\ n.live = m.live /\ n.nextSeq = m.nextSeq
    /\ n.pos = m.pos /\ n.ops = m.ops /\ n.nextOp = m.nextOp

Eligible(m) == {s \in DOMAIN m.children : m.phase = "Open" /\ MayFlow(m, s)}
Room(m) == (BudgetLimit - Used(m)) \div Frame
GrantSet(m) == {s \in Eligible(m) :
                  Cardinality({t \in Eligible(m) : Rank(m, t) =< Rank(m, s)})
                     =< Room(m)}

LEMMA ArbitrateUnfolds ==
    ASSUME NEW m
    PROVE  \/ GrantSet(m) = {} /\ ArbitrateFlow(m) = m
           \/ /\ GrantSet(m) # {}
              /\ \E k : ArbitrateFlow(m) =
                   PutGrants(m, [s \in DOMAIN m.children |->
                                   IF s \in GrantSet(m) THEN Granted(m.children[s])
                                   ELSE m.children[s]], k)
<1> DEFINE C == [s \in DOMAIN m.children |->
                   IF s \in GrantSet(m) THEN Granted(m.children[s]) ELSE m.children[s]]
           k == CHOOSE s \in GrantSet(m) :
                   \A t \in GrantSet(m) : Rank(m, t) =< Rank(m, s)
<1>1. ArbitrateFlow(m) = IF GrantSet(m) = {} THEN m
                         ELSE [m EXCEPT !.children = C, !.cursor = k]
  BY Zenon DEF ArbitrateFlow, GrantSet, Eligible, Room
<1> HIDE DEF k, C
<1>2. [m EXCEPT !.children = C, !.cursor = k] = PutGrants(m, C, k)
  BY Zenon DEF PutGrants
<1> QED
  BY <1>1, <1>2, Zenon DEF C

LEMMA ArbitrateIs ==
    ASSUME NEW m, IsModel(m)
    PROVE  Arbitrated(m, ArbitrateFlow(m))
<1> DEFINE n == ArbitrateFlow(m)
           C == [s \in DOMAIN m.children |->
                   IF s \in GrantSet(m) THEN Granted(m.children[s]) ELSE m.children[s]]
<1>1. CASE n = m
  <2> HIDE DEF n
  <2>1. Arbitrated(m, n)
    BY <1>1 DEF Arbitrated
  <2> QED
    BY <2>1 DEF n
<1>2. CASE \E k : n = PutGrants(m, C, k)
  <2>1. PICK k : n = PutGrants(m, C, k)
    BY <1>2
  <2>2. /\ DOMAIN C = DOMAIN m.children
        /\ \A s \in DOMAIN m.children :
             \/ C[s] = m.children[s]
             \/ m.phase = "Open" /\ MayFlow(m, s) /\ C[s] = Granted(m.children[s])
    BY DEF GrantSet, Eligible
  <2> HIDE DEF n, C
  <2>3. Arbitrated(m, n)
    BY <2>1, <2>2, PutGrantsIs DEF Arbitrated
  <2> QED
    BY <2>3 DEF n
<1> QED
  BY <1>1, <1>2, ArbitrateUnfolds

(* A bounded set of numbers has a greatest element. *)
LEMMA Greatest ==
    ASSUME NEW N \in Nat, NEW S \in SUBSET (0..N), S # {}
    PROVE  \E x \in S : \A y \in S : y =< x
<1> DEFINE M == {N - x : x \in S}
<1>1. M \subseteq Nat /\ M # {}
  <2>1. \A x \in S : N - x \in Nat
    OBVIOUS
  <2> QED
    BY <2>1
<1>2. OpToRel(<, Nat) = {ss \in Nat \X Nat : ss[1] < ss[2]}
  BY DEF OpToRel
<1>3. PICK z \in M : \A y \in M : ~ (<<y, z>> \in OpToRel(<, Nat))
  <2> HIDE DEF M
  <2> QED
    BY <1>1, NatLessThanWellFounded, WFMin
<1>4. PICK x \in S : z = N - x
  OBVIOUS
<1>5. ASSUME NEW y \in S PROVE y =< x
  <2>1. N - y \in M /\ N - y \in Nat /\ z \in Nat /\ x \in 0..N /\ y \in 0..N
    BY <1>1
  <2>2. ~ (<<N - y, z>> \in OpToRel(<, Nat))
    BY <1>3, <2>1
  <2>3. <<N - y, z>> \in Nat \X Nat /\ <<N - y, z>>[1] = N - y /\ <<N - y, z>>[2] = z
    BY <2>1
  <2>4. ~ (N - y < z)
    <3> DEFINE q == <<N - y, z>>
    <3>1. q \in Nat \X Nat /\ q[1] = N - y /\ q[2] = z /\ q \notin OpToRel(<, Nat)
      BY <2>2, <2>3
    <3> HIDE DEF q
    <3> QED
      BY <1>2, <3>1
  <2> QED
    BY <1>4, <2>1, <2>4
<1> QED
  BY <1>5

LEMMA RoomIs ==
    ASSUME NEW m, Typed(m), IsFiniteSet(m.live)
    PROVE  Room(m) \in Int /\ Frame * Room(m) =< BudgetLimit - Used(m)
<1>1. Used(m) \in Nat /\ BudgetLimit \in Nat /\ Frame \in Nat \ {0}
  BY SharesTyped, StreamAssumption
<1> DEFINE x == BudgetLimit - Used(m)
<1>2. x \in Int
  BY <1>1
<1> HIDE DEF x
<1>3. x \div Frame \in Int /\ Frame * (x \div Frame) =< x
  BY <1>1, <1>2
<1> QED
  BY <1>3 DEF Room, x

(* Grants fit into the room there is. *)
LEMMA GrantsFit ==
    ASSUME NEW m, Typed(m), IsFiniteSet(m.live), GrantSet(m) # {}
    PROVE  /\ GrantSet(m) \subseteq Segments
           /\ IsFiniteSet(GrantSet(m)) /\ Cardinality(GrantSet(m)) =< Room(m)
<1> DEFINE G == GrantSet(m)
           R == {Rank(m, t) : t \in G}
           Upto(x) == {t \in Eligible(m) : Rank(m, t) =< Rank(m, x)}
<1>1. G \subseteq Segments /\ Eligible(m) \subseteq Segments /\ G \subseteq Eligible(m)
  BY DEF GrantSet, Eligible, Typed
<1>2. ASSUME NEW t \in G PROVE Rank(m, t) \in 0..(2 * Top)
  <2>1. t \in 1..Top /\ Top \in Nat
    BY <1>1, TopIs
  <2>2. Rank(m, t) = t \/ Rank(m, t) = t + Top
    BY DEF Rank, Top
  <2> QED
    BY <2>1, <2>2
<1>3. R \in SUBSET (0..(2 * Top)) /\ R # {} /\ 2 * Top \in Nat
  BY <1>2, TopIs
<1>4. PICK r \in R : \A y \in R : y =< r
  <2> HIDE DEF R
  <2> QED
    BY <1>3, Greatest
<1>5. PICK x \in G : r = Rank(m, x)
  OBVIOUS
<1>6. G \in SUBSET Upto(x)
  BY <1>1, <1>4, <1>5
<1>7. Cardinality(Upto(x)) =< Room(m)
  BY <1>5 DEF GrantSet
<1>8. IsFiniteSet(Upto(x))
  <2>1. Upto(x) \in SUBSET Segments
    BY <1>1
  <2> HIDE DEF Upto
  <2> QED
    BY <2>1, TopIs, FS_Subset
<1>9. IsFiniteSet(G) /\ Cardinality(G) =< Cardinality(Upto(x))
  <2> HIDE DEF G, Upto
  <2> QED
    BY <1>6, <1>8, FS_Subset
<1>10. Cardinality(G) \in Nat /\ Cardinality(Upto(x)) \in Nat /\ Room(m) \in Int
  <2>1. Room(m) \in Int
    BY RoomIs
  <2>2. Cardinality(G) \in Nat
    BY <1>9, FS_CardinalityType
  <2>3. Cardinality(Upto(x)) \in Nat
    BY <1>8, FS_CardinalityType
  <2> QED
    BY <2>1, <2>2, <2>3
<1>11. Cardinality(G) =< Room(m)
  <2> HIDE DEF G, Upto
  <2> QED
    BY <1>7, <1>9, <1>10
<1> QED
  BY <1>1, <1>9, <1>11

LEMMA ArbitrateFits ==
    ASSUME NEW m, Typed(m), IsFiniteSet(m.live), Fits(m)
    PROVE  Fits(ArbitrateFlow(m))
<1> DEFINE n == ArbitrateFlow(m)
           G == GrantSet(m)
           C == [s \in DOMAIN m.children |->
                   IF s \in G THEN Granted(m.children[s]) ELSE m.children[s]]
<1>0. IsModel(m)
  BY DEF Typed
<1>1. CASE n = m
  BY <1>1
<1>2. CASE G # {} /\ \E k : n = PutGrants(m, C, k)
  <2>1. PICK k : n = PutGrants(m, C, k)
    BY <1>2
  <2>2. IsModel(n) /\ n.children = C /\ n.live = m.live
    <3> HIDE DEF n, C
    <3> QED
      BY <1>0, <2>1, PutGrantsIs
  <2>3. ASSUME NEW s \in DOMAIN m.children
        PROVE  /\ Good(C[s]) /\ C[s].gen = m.children[s].gen
               /\ Own(C[s]) = Own(m.children[s]) + (IF s \in G THEN Frame ELSE 0)
    <3>1. Good(m.children[s]) /\ Own(m.children[s]) \in Nat
      BY OwnIs DEF Typed, Good
    <3>2. CASE s \in G
      <4>1. m.children[s].phase = "OpenBlocked"
        BY <3>2 DEF GrantSet, Eligible, MayFlow
      <4>2. C[s] = Granted(m.children[s])
        BY <3>2
      <4> HIDE DEF C, G
      <4> QED
        BY <3>1, <3>2, <4>1, <4>2, GrantedIs DEF Moves
    <3>3. CASE s \notin G
      <4>1. C[s] = m.children[s]
        BY <3>3
      <4> HIDE DEF C, G
      <4> QED
        BY <3>1, <3>3, <4>1
    <3> QED
      BY <3>2, <3>3
  <2>4. DOMAIN C = DOMAIN m.children
    OBVIOUS
  <2> HIDE DEF n, C, G
  <2>5. Typed(n)
    BY <2>2, <2>3, <2>4 DEF Typed
  <2>6. \A s \in DOMAIN n.children : Leases(n, s) = Leases(m, s)
    BY <2>2, <2>3, <2>4 DEF Leases
  <2>7. ASSUME NEW s \in DOMAIN n.children
        PROVE  Owned(n, s) =< (IF s \in DOMAIN m.children THEN Owned(m, s) ELSE 0)
                                 + (IF s \in G THEN Frame ELSE 0)
    <3>1. Owned(n, s) = Own(C[s]) + Cardinality(Leases(m, s))
      BY <2>2, <2>6, OwnedIs
    <3>2. Owned(m, s) = Own(m.children[s]) + Cardinality(Leases(m, s))
      BY OwnedIs
    <3>3. Own(m.children[s]) \in Nat /\ Cardinality(Leases(m, s)) \in Nat
      BY <2>2, <2>4, OwnIs, LeasesFinite DEF Typed, Good
    <3>4. Own(C[s]) = Own(m.children[s]) + (IF s \in G THEN Frame ELSE 0)
      BY <2>2, <2>3, <2>4
    <3>5. s \in DOMAIN m.children /\ Frame \in Nat
      BY <2>2, <2>4, StreamAssumption
    <3> QED
      BY <3>1, <3>2, <3>3, <3>4, <3>5
  <2>8. /\ G \subseteq Segments /\ IsFiniteSet(G) /\ Cardinality(G) =< Room(m)
        /\ Cardinality(G) \in Nat
    BY <1>2, GrantsFit, FS_CardinalityType DEF G
  <2>9. Used(n) =< Used(m) + Frame * Cardinality(G)
    BY <2>2, <2>5, <2>7, <2>8, UsedGrows, StreamAssumption
  <2>10. Frame * Cardinality(G) =< Frame * Room(m) /\ Frame * Cardinality(G) \in Int
    <3>1. Frame \in Nat /\ Room(m) \in Int
      BY RoomIs, StreamAssumption
    <3> DEFINE a == Cardinality(G)
               b == Room(m)
    <3>2. a \in Nat /\ b \in Int /\ a =< b
      BY <2>8, <3>1
    <3> HIDE DEF a, b
    <3>3. Frame * a =< Frame * b /\ Frame * a \in Int
      BY ONLY <3>1, <3>2
    <3> QED
      BY <3>3 DEF a, b
  <2>11. Used(n) \in Nat /\ Used(m) \in Nat /\ BudgetLimit \in Nat
    BY <2>2, <2>5, SharesTyped, StreamAssumption
  <2>12. Frame * Room(m) =< BudgetLimit - Used(m) /\ Frame * Room(m) \in Int
    BY RoomIs, StreamAssumption
  <2>13. Used(n) =< BudgetLimit
    <3> DEFINE x == Frame * Cardinality(G)
               y == Frame * Room(m)
    <3>1. x =< y /\ y =< BudgetLimit - Used(m) /\ Used(n) =< Used(m) + x
          /\ x \in Int /\ y \in Int
      BY <2>9, <2>10, <2>12
    <3> HIDE DEF x, y
    <3> QED
      BY ONLY <3>1, <2>11
  <2> QED
    BY <2>13 DEF Fits, n
<1> QED
  BY <1>1, <1>2, ArbitrateUnfolds

LEMMA ArbitratedChild ==
    ASSUME NEW m, NEW n, Typed(m), Arbitrated(m, n), NEW s \in DOMAIN m.children
    PROVE  LET c == m.children[s]
               d == n.children[s]
           IN  /\ Good(d) /\ Moves(c, d) /\ ClosesEmpty(c, d)
               /\ d.deliveries = c.deliveries /\ d.acks = c.acks
               /\ d.txnAcks = c.txnAcks /\ (d.phase = "Closing" <=> c.phase = "Closing")
               /\ d = c \/ (/\ m.phase = "Open" /\ MayFlow(m, s) /\ d.phase = "Flowing"
                            /\ c.phase = "OpenBlocked" /\ c.flow = "none")
<1> DEFINE c == m.children[s]
           d == n.children[s]
<1>1. Good(c)
  BY DEF Typed
<1>2. d = c \/ (m.phase = "Open" /\ MayFlow(m, s) /\ d = Granted(c))
  BY DEF Arbitrated
<1>3. CASE d = c
  <2>1. Moves(c, d) /\ ClosesEmpty(c, d)
    BY <1>3 DEF Moves, ClosesEmpty
  <2> QED
    BY <1>1, <1>3, <2>1
<1>4. CASE m.phase = "Open" /\ MayFlow(m, s) /\ d = Granted(c)
  <2>1. c.phase = "OpenBlocked"
    BY <1>4 DEF MayFlow
  <2> HIDE DEF c, d
  <2>2. /\ Good(d) /\ Moves(c, d) /\ d.phase = "Flowing" /\ c.flow = "none"
        /\ d.deliveries = c.deliveries /\ d.acks = c.acks /\ d.txnAcks = c.txnAcks
    BY <1>1, <1>4, <2>1, GrantedIs
  <2>3. ClosesEmpty(c, d)
    BY <2>2 DEF ClosesEmpty
  <2> QED
    BY <1>4, <2>1, <2>2, <2>3 DEF c, d
<1> QED
  BY <1>2, <1>3, <1>4

(* Leases, generations and operations are all that the other parts see. *)
LEMMA SameLeases ==
    ASSUME NEW m, NEW n, n.live = m.live, NEW s,
           n.children[s].gen = m.children[s].gen
    PROVE  Leases(n, s) = Leases(m, s)
  BY DEF Leases

LEMMA ArbitratedSound ==
    ASSUME NEW m, NEW n, Sound(m), Arbitrated(m, n)
    PROVE  Sound(n)
<1>1. Typed(m) /\ Numbered(m) /\ Leased(m) /\ Counted(m) /\ Phased(m)
  BY DEF Sound
<1>2. /\ IsModel(n) /\ DOMAIN n.children = DOMAIN m.children
      /\ n.phase = m.phase /\ n.pending = m.pending /\ n.nextGen = m.nextGen
      /\ n.live = m.live /\ n.nextSeq = m.nextSeq /\ n.ops = m.ops
      /\ n.nextOp = m.nextOp
  BY DEF Arbitrated
<1>3. ASSUME NEW s \in DOMAIN m.children
      PROVE  LET c == m.children[s]
                 d == n.children[s]
             IN  /\ Good(d) /\ d.gen = c.gen /\ d.deliveries = c.deliveries
                 /\ d.acks = c.acks /\ d.txnAcks = c.txnAcks
                 /\ (d.phase = "Closing" <=> c.phase = "Closing")
  BY <1>1, ArbitratedChild DEF Moves
<1>4. Typed(n)
  BY <1>1, <1>2, <1>3 DEF Typed
<1>5. Numbered(n)
  BY <1>1, <1>2, <1>3 DEF Numbered
<1>6. \A s, g : Has(n, s, g) <=> Has(m, s, g)
  BY <1>2, <1>3 DEF Has
<1>7. Leased(n)
  <2>1. \A s \in DOMAIN n.children : Leases(n, s) = Leases(m, s)
    BY <1>2, <1>3, SameLeases
  <2> QED
    BY <1>1, <1>2, <1>3, <1>6, <2>1 DEF Leased
<1>8. Counted(n)
  <2>1. \A s : AcksOn(n, s) = AcksOn(m, s) /\ TxnAcksOn(n, s) = TxnAcksOn(m, s)
    BY <1>2 DEF AcksOn, TxnAcksOn
  <2>2. \A s, g : Has(n, s, g) /\ m.children[s].phase # "Closing"
                    => n.children[s].phase # "Closing"
    BY <1>2, <1>3 DEF Has
  <2> QED
    BY <1>1, <1>2, <1>3, <1>6, <2>1, <2>2 DEF Counted
<1>9. Phased(n)
  BY <1>1, <1>2, <1>3 DEF Phased
<1> QED
  BY <1>4, <1>5, <1>7, <1>8, <1>9 DEF Sound

LEMMA ArbitrateSound ==
    ASSUME NEW m, Sound(m), Fits(m)
    PROVE  /\ Sound(ArbitrateFlow(m)) /\ Fits(ArbitrateFlow(m))
           /\ Arbitrated(m, ArbitrateFlow(m))
<1>1. Typed(m) /\ IsModel(m) /\ IsFiniteSet(m.live)
  BY DEF Sound, Typed, Leased
<1>2. Arbitrated(m, ArbitrateFlow(m))
  BY <1>1, ArbitrateIs
<1> QED
  BY <1>1, <1>2, ArbitrateFits, ArbitratedSound

-----------------------------------------------------------------------------
(* Steps that leave the leases and the operations alone.                   *)

Reshaped(m, n) ==
    /\ IsModel(n) /\ DOMAIN n.children = DOMAIN m.children
    /\ n.live = m.live /\ n.nextSeq = m.nextSeq /\ n.nextGen = m.nextGen
    /\ n.ops = m.ops /\ n.nextOp = m.nextOp /\ n.phase = m.phase
    /\ n.phase # "Open" => n.pending = {}
    /\ \A s \in DOMAIN m.children :
         LET c == m.children[s]
             d == n.children[s]
         IN  /\ Good(d) /\ d.gen = c.gen /\ d.deliveries = c.deliveries
             /\ d.acks = c.acks /\ d.txnAcks = c.txnAcks
             /\ c.phase = "Closing" => d.phase = "Closing"
             /\ ClosesEmpty(c, d)

LEMMA NoOpsOn ==
    ASSUME NEW m, Counted(m), NEW s \in DOMAIN m.children,
           m.children[s].phase # "Closing",
           m.children[s].acks = 0, m.children[s].txnAcks = 0,
           NEW op \in m.ops, NEW c \in op.comps
    PROVE  c.seg # s
<1>1. /\ IsFiniteSet(m.ops) /\ Cardinality(AcksOn(m, s)) = 0
      /\ Cardinality(TxnAcksOn(m, s)) = 0
  BY DEF Counted
<1>2. AcksOn(m, s) \in SUBSET m.ops /\ TxnAcksOn(m, s) \in SUBSET m.ops
  BY DEF AcksOn, TxnAcksOn
<1>3. AcksOn(m, s) = {} /\ TxnAcksOn(m, s) = {}
  BY <1>1, <1>2, FS_Subset, FS_EmptySet
<1> QED
  BY <1>3 DEF AcksOn, TxnAcksOn

LEMMA ReshapedSound ==
    ASSUME NEW m, NEW n, Sound(m), Reshaped(m, n)
    PROVE  Sound(n)
<1>1. Typed(m) /\ Numbered(m) /\ Leased(m) /\ Counted(m) /\ Phased(m)
  BY DEF Sound
<1>2. /\ IsModel(n) /\ DOMAIN n.children = DOMAIN m.children
      /\ n.phase = m.phase /\ n.nextGen = m.nextGen
      /\ n.live = m.live /\ n.nextSeq = m.nextSeq /\ n.ops = m.ops
      /\ n.nextOp = m.nextOp /\ (n.phase # "Open" => n.pending = {})
  BY DEF Reshaped
<1>3. ASSUME NEW s \in DOMAIN m.children
      PROVE  LET c == m.children[s]
                 d == n.children[s]
             IN  /\ Good(d) /\ d.gen = c.gen /\ d.deliveries = c.deliveries
                 /\ d.acks = c.acks /\ d.txnAcks = c.txnAcks
                 /\ (c.phase = "Closing" => d.phase = "Closing")
                 /\ ClosesEmpty(c, d)
  BY DEF Reshaped
<1>4. Typed(n)
  BY <1>1, <1>2, <1>3 DEF Typed
<1>5. Numbered(n)
  BY <1>1, <1>2, <1>3 DEF Numbered
<1>6. \A s, g : Has(n, s, g) <=> Has(m, s, g)
  BY <1>2, <1>3 DEF Has
<1>7. Leased(n)
  <2>1. \A s \in DOMAIN n.children : Leases(n, s) = Leases(m, s)
    BY <1>2, <1>3, SameLeases
  <2> QED
    BY <1>1, <1>2, <1>3, <1>6, <2>1 DEF Leased
<1>8. Counted(n)
  <2>1. \A s : AcksOn(n, s) = AcksOn(m, s) /\ TxnAcksOn(n, s) = TxnAcksOn(m, s)
    BY <1>2 DEF AcksOn, TxnAcksOn
  <2>2. ASSUME NEW op \in m.ops, NEW c \in op.comps
        PROVE  Has(n, c.seg, c.gen) /\ n.children[c.seg].phase # "Closing"
    <3>1. Has(m, c.seg, c.gen) /\ m.children[c.seg].phase # "Closing"
      BY <1>1 DEF Counted
    <3>2. c.seg \in DOMAIN m.children
      BY <3>1 DEF Has
    <3>3. ClosesEmpty(m.children[c.seg], n.children[c.seg])
          /\ n.children[c.seg].acks = m.children[c.seg].acks
          /\ n.children[c.seg].txnAcks = m.children[c.seg].txnAcks
      BY <1>3, <3>2
    <3>4. n.children[c.seg].phase # "Closing"
      BY <1>1, <3>1, <3>2, <3>3, NoOpsOn DEF ClosesEmpty
    <3> QED
      BY <1>6, <3>1, <3>4
  <2> QED
    BY <1>1, <1>2, <1>3, <2>1, <2>2 DEF Counted
<1>9. Phased(n)
  BY <1>1, <1>2, <1>3 DEF Phased
<1> QED
  BY <1>4, <1>5, <1>7, <1>8, <1>9 DEF Sound

(* ... and no child's share grows. *)
LEMMA ReshapedFits ==
    ASSUME NEW m, NEW n, Sound(m), Fits(m), Reshaped(m, n),
           \A s \in DOMAIN m.children : Own(n.children[s]) =< Own(m.children[s])
    PROVE  Fits(n)
<1>1. Sound(n)
  BY ReshapedSound
<1>2. /\ Typed(m) /\ Typed(n) /\ IsFiniteSet(m.live) /\ IsFiniteSet(n.live)
      /\ DOMAIN n.children = DOMAIN m.children /\ n.live = m.live
  BY <1>1 DEF Sound, Leased, Reshaped
<1>3. ASSUME NEW s \in DOMAIN n.children
      PROVE  Owned(n, s) =< (IF s \in DOMAIN m.children THEN Owned(m, s) ELSE 0)
  <2>1. Leases(n, s) = Leases(m, s)
    BY <1>2, SameLeases DEF Reshaped
  <2>2. Cardinality(Leases(m, s)) \in Nat
    BY <1>2, LeasesFinite
  <2>3. Own(n.children[s]) \in Nat /\ Own(m.children[s]) \in Nat
    BY <1>2, OwnIs DEF Typed, Good
  <2>4. /\ Owned(n, s) = Own(n.children[s]) + Cardinality(Leases(n, s))
        /\ Owned(m, s) = Own(m.children[s]) + Cardinality(Leases(m, s))
    BY OwnedIs
  <2>5. Own(n.children[s]) =< Own(m.children[s])
    BY <1>2
  <2> QED
    BY <1>2, <2>1, <2>2, <2>3, <2>4, <2>5
<1>4. Used(n) =< Used(m)
  BY <1>2, <1>3, UsedShrinks
<1>5. Used(n) \in Nat /\ Used(m) \in Nat /\ BudgetLimit \in Nat
  BY <1>2, SharesTyped, StreamAssumption
<1> QED
  BY <1>4, <1>5 DEF Fits

-----------------------------------------------------------------------------
(* What a method does to the children, but for the segments X it is about. *)

Fresh(c) ==
    /\ c.phase = "Opening" /\ c.flow = "none" /\ c.retained = 0 /\ ~c.terminal

Evolves(m, n, X) ==
    /\ n.nextGen >= m.nextGen
    /\ \A s \in DOMAIN m.children \ X :
         /\ s \in DOMAIN n.children /\ Moves(m.children[s], n.children[s])
         /\ m.phase = "Open" /\ n.phase = "Open" =>
              ClosesEmpty(m.children[s], n.children[s])
    /\ \A s \in DOMAIN n.children \ (DOMAIN m.children \cup X) :
         /\ Fresh(n.children[s]) /\ n.children[s].gen >= m.nextGen
         /\ n.children[s].inc = n.inc

LEMMA EvolvesArbitrate ==
    ASSUME NEW m, NEW k, NEW n, NEW X, Evolves(m, k, X), Typed(k), Arbitrated(k, n)
    PROVE  Evolves(m, n, X)
<1>1. DOMAIN n.children = DOMAIN k.children /\ n.nextGen = k.nextGen /\ n.phase = k.phase
  BY DEF Arbitrated
<1>2. ASSUME NEW s \in DOMAIN m.children \ X
      PROVE  /\ s \in DOMAIN n.children /\ Moves(m.children[s], n.children[s])
             /\ m.phase = "Open" /\ n.phase = "Open" =>
                  ClosesEmpty(m.children[s], n.children[s])
  <2>1. /\ s \in DOMAIN k.children /\ Moves(m.children[s], k.children[s])
        /\ m.phase = "Open" /\ n.phase = "Open" =>
             ClosesEmpty(m.children[s], k.children[s])
    BY <1>1 DEF Evolves
  <2>2. /\ Moves(k.children[s], n.children[s])
        /\ n.children[s].acks = k.children[s].acks
        /\ n.children[s].txnAcks = k.children[s].txnAcks
        /\ (n.children[s].phase = "Closing" <=> k.children[s].phase = "Closing")
    BY <2>1, ArbitratedChild
  <2>3. Moves(m.children[s], n.children[s])
    BY <2>1, <2>2, MovesCompose
  <2>4. n.children[s].retained = k.children[s].retained
    BY <2>2 DEF Moves
  <2>5. m.phase = "Open" /\ n.phase = "Open" =>
           ClosesEmpty(m.children[s], n.children[s])
    BY <2>1, <2>2, <2>4 DEF ClosesEmpty
  <2> QED
    BY <1>1, <2>1, <2>3, <2>5
<1>3. ASSUME NEW s \in DOMAIN n.children \ (DOMAIN m.children \cup X)
      PROVE  /\ Fresh(n.children[s]) /\ n.children[s].gen >= m.nextGen
             /\ n.children[s].inc = n.inc
  <2>1. /\ Fresh(k.children[s]) /\ k.children[s].gen >= m.nextGen
        /\ s \in DOMAIN k.children /\ k.children[s].inc = n.inc
    BY <1>1 DEF Evolves, Arbitrated
  <2>2. n.children[s] = k.children[s]
    BY <2>1, ArbitratedChild DEF Fresh
  <2> QED
    BY <2>1, <2>2
<1>4. n.nextGen >= m.nextGen
  BY <1>1 DEF Evolves
<1> QED
  BY <1>2, <1>3, <1>4 DEF Evolves

(* Children that all move, and do not change in number. *)
LEMMA MovesEvolve ==
    ASSUME NEW m, NEW n, NEW X, IsModel(m), DOMAIN n.children = DOMAIN m.children,
           n.nextGen = m.nextGen,
           \A s \in DOMAIN m.children \ X :
             /\ Moves(m.children[s], n.children[s])
             /\ ClosesEmpty(m.children[s], n.children[s])
    PROVE  Evolves(m, n, X)
<1>1. m.nextGen \in Nat
  BY DEF IsModel
<1> QED
  BY <1>1 DEF Evolves

LEMMA StaysPut ==
    ASSUME NEW c
    PROVE  Moves(c, c) /\ ClosesEmpty(c, c) /\ Alike(c, c)
  BY DEF Moves, ClosesEmpty, Alike

-----------------------------------------------------------------------------
(* The methods, one by one.                                                *)

Ok(m) == Sound(m) /\ Fits(m)
Goes(m, n, X) == Ok(n) /\ Evolves(m, n, X)

LEMMA OkParts ==
    ASSUME NEW m, Ok(m)
    PROVE  /\ Sound(m) /\ Fits(m) /\ Typed(m) /\ Numbered(m) /\ Leased(m)
           /\ Counted(m) /\ Phased(m) /\ IsModel(m) /\ IsFiniteSet(m.live)
           /\ IsFiniteSet(m.ops) /\ m.nextGen \in Nat /\ m.nextSeq \in Nat
           /\ m.nextOp \in Nat /\ m.epoch \in Nat /\ m.inc \in Nat
           /\ m.phase \in ModelPhases /\ DOMAIN m.children \subseteq Segments
           /\ \A s \in DOMAIN m.children : Good(m.children[s])
  BY DEF Ok, Sound, Typed, Leased, Counted, IsModel

(* A method that ends in arbitrate_flow. *)
LEMMA ThenArbitrate ==
    ASSUME NEW m, NEW k, NEW X, Ok(k), Evolves(m, k, X)
    PROVE  Goes(m, ArbitrateFlow(k), X) /\ Arbitrated(k, ArbitrateFlow(k))
<1>1. Sound(k) /\ Fits(k) /\ Typed(k)
  BY OkParts
<1>2. /\ Sound(ArbitrateFlow(k)) /\ Fits(ArbitrateFlow(k))
      /\ Arbitrated(k, ArbitrateFlow(k))
  BY <1>1, ArbitrateSound
<1>3. Evolves(m, ArbitrateFlow(k), X)
  BY <1>1, <1>2, EvolvesArbitrate
<1> QED
  BY <1>2, <1>3 DEF Goes, Ok

(* A step that keeps every child as it is. *)
SameChildren(m, n) ==
    /\ IsModel(n) /\ n.children = m.children /\ n.live = m.live
    /\ n.nextSeq = m.nextSeq /\ n.nextGen = m.nextGen /\ n.ops = m.ops
    /\ n.nextOp = m.nextOp /\ n.phase = m.phase
    /\ n.phase # "Open" => n.pending = {}

LEMMA SameChildrenGoes ==
    ASSUME NEW m, NEW n, Ok(m), SameChildren(m, n)
    PROVE  Goes(m, n, {})
<1>1. Sound(m) /\ Fits(m) /\ IsModel(m) /\ Typed(m)
  BY OkParts
<1>2. Reshaped(m, n)
  <2>1. ASSUME NEW s \in DOMAIN m.children
        PROVE  Good(m.children[s]) /\ ClosesEmpty(m.children[s], m.children[s])
    BY <1>1, StaysPut DEF Typed
  <2> QED
    BY <2>1 DEF Reshaped, SameChildren
<1>3. \A s \in DOMAIN m.children : Own(n.children[s]) =< Own(m.children[s])
  <2>1. ASSUME NEW s \in DOMAIN m.children PROVE Own(m.children[s]) \in Nat
    BY <1>1, OwnIs DEF Typed, Good
  <2> QED
    BY <2>1 DEF SameChildren
<1>4. Sound(n) /\ Fits(n)
  BY <1>1, <1>2, <1>3, ReshapedSound, ReshapedFits
<1>5. Evolves(m, n, {})
  BY <1>1, StaysPut, MovesEvolve DEF SameChildren
<1> QED
  BY <1>4, <1>5 DEF Goes, Ok

(* A step that changes one child and neither its leases nor its operations. *)
OneChange(m, n, s, d) ==
    /\ IsModel(n) /\ DOMAIN n.children = DOMAIN m.children
    /\ n.children[s] = d
    /\ \A t \in DOMAIN m.children : t # s => n.children[t] = m.children[t]
    /\ n.live = m.live /\ n.nextSeq = m.nextSeq /\ n.nextGen = m.nextGen
    /\ n.ops = m.ops /\ n.nextOp = m.nextOp /\ n.phase = m.phase
    /\ n.phase # "Open" => n.pending = {}

LEMMA WithChildIs ==
    ASSUME NEW m, Ok(m), NEW s \in DOMAIN m.children, NEW d
    PROVE  LET n == WithChild(m, s, d)
           IN  /\ OneChange(m, n, s, d) /\ n.inc = m.inc /\ n.epoch = m.epoch
               /\ n.layout = m.layout /\ n.assigned = m.assigned
               /\ n.history = m.history /\ n.completed = m.completed
               /\ n.pending = m.pending /\ n.pos = m.pos
<1> DEFINE C == [m.children EXCEPT ![s] = d]
           n == WithChild(m, s, d)
<1>1. n = PutChildren(m, C)
  BY DEF WithChild, PutChildren
<1>2. /\ DOMAIN C = DOMAIN m.children /\ C[s] = d
      /\ \A t \in DOMAIN m.children : t # s => C[t] = m.children[t]
  OBVIOUS
<1>3. IsModel(m) /\ Phased(m)
  BY OkParts
<1> HIDE DEF C, n
<1>4. /\ IsModel(n) /\ n.children = C /\ n.phase = m.phase /\ n.inc = m.inc
      /\ n.epoch = m.epoch /\ n.layout = m.layout /\ n.assigned = m.assigned
      /\ n.history = m.history /\ n.completed = m.completed
      /\ n.pending = m.pending /\ n.nextGen = m.nextGen /\ n.live = m.live
      /\ n.nextSeq = m.nextSeq /\ n.pos = m.pos /\ n.ops = m.ops
      /\ n.nextOp = m.nextOp
  BY <1>1, <1>3, PutChildrenIs
<1>5. OneChange(m, n, s, d)
  BY <1>2, <1>3, <1>4 DEF OneChange, Phased
<1> QED
  BY <1>4, <1>5 DEF n

LEMMA OneChangeIs ==
    ASSUME NEW m, NEW n, Ok(m), NEW s \in DOMAIN m.children, NEW d,
           OneChange(m, n, s, d), Good(d), d.gen = m.children[s].gen,
           d.deliveries = m.children[s].deliveries, d.acks = m.children[s].acks,
           d.txnAcks = m.children[s].txnAcks,
           m.children[s].phase = "Closing" => d.phase = "Closing",
           ClosesEmpty(m.children[s], d)
    PROVE  /\ Sound(n) /\ Evolves(m, n, {s})
           /\ Used(n) = Used(m) + Own(d) - Own(m.children[s])
           /\ Own(d) =< Own(m.children[s]) => Fits(n)
<1>1. Sound(m) /\ Fits(m) /\ Typed(m) /\ IsModel(m) /\ IsFiniteSet(m.live)
  BY OkParts
<1>2. ASSUME NEW t \in DOMAIN m.children, t # s
      PROVE  n.children[t] = m.children[t] /\ Good(m.children[t])
             /\ ClosesEmpty(m.children[t], m.children[t])
             /\ Moves(m.children[t], m.children[t])
  <2>1. n.children[t] = m.children[t]
    BY <1>2 DEF OneChange
  <2>2. Good(m.children[t])
    BY <1>1 DEF Typed
  <2> QED
    BY <2>1, <2>2, StaysPut
<1>3. Reshaped(m, n)
  <2>1. ASSUME NEW t \in DOMAIN m.children
        PROVE  LET c == m.children[t]
                   e == n.children[t]
               IN  /\ Good(e) /\ e.gen = c.gen /\ e.deliveries = c.deliveries
                   /\ e.acks = c.acks /\ e.txnAcks = c.txnAcks
                   /\ c.phase = "Closing" => e.phase = "Closing"
                   /\ ClosesEmpty(c, e)
    <3>1. CASE t = s
      BY <3>1 DEF OneChange
    <3>2. CASE t # s
      BY <3>2, <1>2
    <3> QED
      BY <3>1, <3>2
  <2> QED
    BY <2>1 DEF Reshaped, OneChange
<1>4. Sound(n)
  BY <1>1, <1>3, ReshapedSound
<1>5. Evolves(m, n, {s})
  BY <1>1, <1>2, MovesEvolve DEF OneChange
<1>6. /\ Typed(n) /\ n.live = m.live /\ DOMAIN n.children = DOMAIN m.children
      /\ n.children[s] = d
  BY <1>4 DEF Sound, OneChange
<1>7. ASSUME NEW t \in DOMAIN m.children
      PROVE  Owned(n, t) = Own(n.children[t]) + Cardinality(Leases(m, t))
  <2>1. Leases(n, t) = Leases(m, t)
    BY <1>3, <1>6, SameLeases DEF Reshaped
  <2> QED
    BY <2>1, OwnedIs
<1>8. \A t \in DOMAIN m.children : t # s => Owned(n, t) = Owned(m, t)
  BY <1>2, <1>7, OwnedIs
<1>9. Used(n) = Used(m) + Owned(n, s) - Owned(m, s)
  BY <1>1, <1>6, <1>8, UsedOne
<1>10. /\ Owned(n, s) = Own(d) + Cardinality(Leases(m, s))
       /\ Owned(m, s) = Own(m.children[s]) + Cardinality(Leases(m, s))
  BY <1>6, <1>7, OwnedIs
<1>11. /\ Cardinality(Leases(m, s)) \in Nat /\ Own(d) \in Nat
       /\ Own(m.children[s]) \in Nat /\ Used(m) \in Nat
  BY <1>1, LeasesFinite, OwnIs, SharesTyped DEF Typed, Good
<1>12. Used(n) = Used(m) + Own(d) - Own(m.children[s])
  BY <1>9, <1>10, <1>11
<1>13. Own(d) =< Own(m.children[s]) => Fits(n)
  BY <1>1, <1>11, <1>12, StreamAssumption DEF Fits
<1> QED
  BY <1>4, <1>5, <1>12, <1>13

LEMMA CloseIfDrainedGoes ==
    ASSUME NEW m, Ok(m), NEW S
    PROVE  LET n == CloseIfDrained(m, S)
           IN  /\ Goes(m, n, {}) /\ DOMAIN n.children = DOMAIN m.children
               /\ n.phase = m.phase /\ n.inc = m.inc /\ n.epoch = m.epoch
               /\ n.layout = m.layout /\ n.assigned = m.assigned
               /\ n.history = m.history /\ n.completed = m.completed
               /\ n.pending = m.pending /\ n.nextGen = m.nextGen
               /\ n.live = m.live /\ n.nextSeq = m.nextSeq /\ n.pos = m.pos
               /\ n.ops = m.ops /\ n.nextOp = m.nextOp
               /\ \A s \in DOMAIN m.children :
                    /\ Alike(m.children[s], n.children[s])
                    /\ s \notin S => n.children[s] = m.children[s]
                    /\ n.children[s].flow = m.children[s].flow
                    /\ m.children[s].phase = "Opening"
                         => n.children[s].phase = "Opening"
<1> DEFINE C == [s \in DOMAIN m.children |->
                   IF s \in S THEN CloseDrained(m.children[s]) ELSE m.children[s]]
           n == CloseIfDrained(m, S)
<1>1. n = PutChildren(m, C)
  BY DEF CloseIfDrained, PutChildren
<1>2. Sound(m) /\ Fits(m) /\ Typed(m) /\ IsModel(m) /\ Phased(m)
  BY OkParts
<1>3. ASSUME NEW s \in DOMAIN m.children
      PROVE  /\ Good(C[s]) /\ Alike(m.children[s], C[s]) /\ Moves(m.children[s], C[s])
             /\ ClosesEmpty(m.children[s], C[s])
             /\ s \notin S => C[s] = m.children[s]
             /\ C[s].flow = m.children[s].flow
             /\ m.children[s].phase = "Opening" => C[s].phase = "Opening"
  <2>1. Good(m.children[s])
    BY <1>2 DEF Typed
  <2>2. CASE s \in S
    <3>1. C[s] = CloseDrained(m.children[s])
      BY <2>2
    <3>2. C[s].flow = m.children[s].flow
      <4>1. CASE C[s] = m.children[s]
        BY <4>1
      <4>2. CASE C[s] = [m.children[s] EXCEPT !.phase = "Closing"]
        <5>1. IsChild(m.children[s]) /\ "Closing" \in Phases
          BY <2>1 DEF Good, Phases
        <5> HIDE DEF C
        <5> QED
          BY <4>2, <5>1, SetPhase
      <4> QED
        BY <3>1, <4>1, <4>2 DEF CloseDrained
    <3> HIDE DEF C
    <3> QED
      BY <2>1, <2>2, <3>1, <3>2, CloseDrainedIs
  <2>3. CASE s \notin S
    <3>1. C[s] = m.children[s]
      BY <2>3
    <3> HIDE DEF C
    <3> QED
      BY <2>1, <3>1, StaysPut
  <2> QED
    BY <2>2, <2>3
<1>4. DOMAIN C = DOMAIN m.children
  OBVIOUS
<1> HIDE DEF C, n
<1>5. /\ IsModel(n) /\ n.children = C /\ n.phase = m.phase /\ n.inc = m.inc
      /\ n.epoch = m.epoch /\ n.layout = m.layout /\ n.assigned = m.assigned
      /\ n.history = m.history /\ n.completed = m.completed
      /\ n.pending = m.pending /\ n.nextGen = m.nextGen /\ n.live = m.live
      /\ n.nextSeq = m.nextSeq /\ n.pos = m.pos /\ n.ops = m.ops
      /\ n.nextOp = m.nextOp
  BY <1>1, <1>2, PutChildrenIs
<1>6. Reshaped(m, n)
  <2>1. n.phase # "Open" => n.pending = {}
    BY <1>2, <1>5 DEF Phased
  <2> QED
    BY <1>3, <1>4, <1>5, <2>1 DEF Reshaped, Alike, Moves
<1>7. \A s \in DOMAIN m.children : Own(n.children[s]) =< Own(m.children[s])
  <2>1. ASSUME NEW s \in DOMAIN m.children PROVE Own(m.children[s]) \in Nat
    BY <1>2, OwnIs DEF Typed, Good
  <2> QED
    BY <1>3, <1>5, <2>1 DEF Alike
<1>8. Ok(n)
  BY <1>2, <1>6, <1>7, ReshapedSound, ReshapedFits DEF Ok
<1>9. Evolves(m, n, {})
  BY <1>2, <1>3, <1>4, <1>5, MovesEvolve
<1> QED
  BY <1>3, <1>4, <1>5, <1>8, <1>9 DEF Goes, n

(* Fence: every child closes. *)
LEMMA FenceGoes ==
    ASSUME NEW m, Ok(m), NEW p \in ModelPhases,
           p = "Closing" => DOMAIN m.children # {},
           p = "Closed" => DOMAIN m.children = {}
    PROVE  LET n == Fence(m, p)
           IN  /\ Ok(n) /\ n.phase = p /\ DOMAIN n.children = DOMAIN m.children
               /\ n.nextGen = m.nextGen /\ n.live = m.live /\ n.inc = m.inc
               /\ n.epoch = m.epoch + 1 /\ n.ops = {} /\ n.pos = Nothing
               /\ n.layout = m.layout /\ n.nextSeq = m.nextSeq
               /\ n.nextOp = m.nextOp /\ n.history = m.history
               /\ n.completed = m.completed
               /\ n.pending = {} /\ n.assigned = NoAssignment
               /\ \A s \in DOMAIN m.children :
                    /\ Moves(m.children[s], n.children[s])
                    /\ n.children[s].phase = "Closing"
                    /\ Alike(m.children[s], n.children[s])
               /\ (m.phase = "Open" => p # "Open") => Evolves(m, n, {})
<1> DEFINE C == CloseAll(m)
           n == Fence(m, p)
<1>1. n = PutFence(m, p, m.epoch + 1, C)
  BY DEF Fence, PutFence
<1>2. /\ Sound(m) /\ Fits(m) /\ Typed(m) /\ Numbered(m) /\ Leased(m) /\ IsModel(m)
      /\ Phased(m) /\ m.epoch + 1 \in Nat /\ m.nextGen \in Nat /\ m.phase \in ModelPhases
      /\ IsFiniteSet(m.live)
  BY OkParts
<1>3. ASSUME NEW s \in DOMAIN m.children
      PROVE  /\ Good(C[s]) /\ Alike(m.children[s], C[s]) /\ Moves(m.children[s], C[s])
             /\ C[s].phase = "Closing"
  <2>1. Good(m.children[s])
    BY <1>2 DEF Typed
  <2>2. C[s] = [m.children[s] EXCEPT !.phase = "Closing"]
    BY DEF CloseAll
  <2> HIDE DEF C
  <2> QED
    BY <2>1, <2>2, ClosingIs
<1>4. DOMAIN C = DOMAIN m.children
  BY DEF CloseAll
<1> HIDE DEF C, n
<1>5. /\ IsModel(n) /\ n.children = C /\ n.phase = p /\ n.inc = m.inc
      /\ n.epoch = m.epoch + 1 /\ n.layout = m.layout /\ n.assigned = NoAssignment
      /\ n.history = m.history /\ n.completed = m.completed
      /\ n.pending = {} /\ n.nextGen = m.nextGen /\ n.live = m.live
      /\ n.nextSeq = m.nextSeq /\ n.pos = Nothing /\ n.ops = {}
      /\ n.nextOp = m.nextOp
  BY <1>1, <1>2, PutFenceIs
<1>6. Typed(n) /\ Numbered(n)
  BY <1>2, <1>3, <1>4, <1>5 DEF Typed, Numbered, Moves
<1>7. \A s, g : Has(n, s, g) <=> Has(m, s, g)
  BY <1>3, <1>4, <1>5 DEF Has, Moves
<1>8. \A s \in DOMAIN m.children : Leases(n, s) = Leases(m, s)
  BY <1>3, <1>5, SameLeases DEF Moves
<1>9. Leased(n)
  BY <1>2, <1>3, <1>4, <1>5, <1>7, <1>8 DEF Leased, Alike
<1>10. Counted(n)
  BY <1>3, <1>4, <1>5, FS_EmptySet DEF Counted
<1>11. Phased(n)
  BY <1>3, <1>4, <1>5 DEF Phased
<1>12. Fits(n)
  <2>1. ASSUME NEW s \in DOMAIN n.children
        PROVE  Owned(n, s) =< (IF s \in DOMAIN m.children THEN Owned(m, s) ELSE 0)
    <3>1. s \in DOMAIN m.children /\ Owned(m, s) \in Nat
      BY <1>2, <1>4, <1>5, SharesTyped
    <3>2. Own(n.children[s]) = Own(m.children[s]) /\ Leases(n, s) = Leases(m, s)
      BY <1>3, <1>5, <1>8, <3>1 DEF Alike
    <3>3. Owned(n, s) = Owned(m, s)
      BY <3>2, OwnedIs
    <3> QED
      BY <3>1, <3>3
  <2>2. Used(n) =< Used(m)
    BY <1>2, <1>5, <1>6, <2>1, UsedShrinks
  <2>3. Used(n) \in Nat /\ Used(m) \in Nat /\ BudgetLimit \in Nat
    BY <1>2, <1>5, <1>6, SharesTyped, StreamAssumption
  <2> QED
    BY <1>2, <2>2, <2>3 DEF Fits
<1>13. (m.phase = "Open" => p # "Open") => Evolves(m, n, {})
  BY <1>2, <1>3, <1>4, <1>5 DEF Evolves
<1>14. Ok(n)
  BY <1>6, <1>9, <1>10, <1>11, <1>12 DEF Ok, Sound
<1> QED
  BY <1>3, <1>4, <1>5, <1>13, <1>14 DEF n

LEMMA RequireResyncGoes ==
    ASSUME NEW m, Ok(m)
    PROVE  LET n == RequireResync(m)
           IN  /\ Goes(m, n, {}) /\ n.phase # "Open"
               /\ n.phase = IF m.phase = "Open" THEN "ResyncRequired" ELSE m.phase
               /\ DOMAIN n.children = DOMAIN m.children /\ n.nextGen = m.nextGen
               /\ \A s \in DOMAIN n.children : n.children[s].phase = "Closing"
               /\ n.ops = {} /\ n.nextOp = m.nextOp
<1> DEFINE n == RequireResync(m)
<1>0. m.phase \in ModelPhases /\ IsModel(m) /\ Phased(m)
  BY OkParts
<1>1. CASE m.phase = "Open"
  <2>1. n = Fence(m, "ResyncRequired") /\ "ResyncRequired" \in ModelPhases
    BY <1>1 DEF RequireResync, ModelPhases
  <2> HIDE DEF n
  <2>2. /\ Ok(n) /\ n.phase = "ResyncRequired" /\ Evolves(m, n, {}) /\ n.ops = {}
        /\ DOMAIN n.children = DOMAIN m.children /\ n.nextGen = m.nextGen
        /\ n.nextOp = m.nextOp
        /\ \A s \in DOMAIN n.children : n.children[s].phase = "Closing"
    BY <2>1, FenceGoes
  <2> QED
    BY <1>1, <2>2 DEF Goes, n
<1>2. CASE m.phase # "Open"
  <2>1. n = m
    BY <1>2 DEF RequireResync
  <2> HIDE DEF n
  <2>2. Evolves(m, n, {})
    BY <1>0, <2>1, StaysPut, MovesEvolve
  <2>3. m.ops = {} /\ \A s \in DOMAIN n.children : n.children[s].phase = "Closing"
    BY <1>0, <1>2, <2>1 DEF Phased
  <2> QED
    BY <1>2, <2>1, <2>2, <2>3 DEF Goes, n
<1> QED
  BY <1>1, <1>2

LEMMA CloseGoes ==
    ASSUME NEW m, Ok(m)
    PROVE  LET n == Close(m)
           IN  /\ Goes(m, n, {}) /\ n.phase \in {"Closing", "Closed"}
               /\ DOMAIN n.children = DOMAIN m.children /\ n.nextGen = m.nextGen
               /\ \A s \in DOMAIN n.children : n.children[s].phase = "Closing"
               /\ n.ops = {} /\ n.nextOp = m.nextOp
<1> DEFINE n == Close(m)
           p == IF DOMAIN m.children = {} THEN "Closed" ELSE "Closing"
<1>0. m.phase \in ModelPhases /\ IsModel(m) /\ Phased(m)
  BY OkParts
<1>1. CASE m.phase \notin {"Closing", "Closed"}
  <2>1. /\ n = Fence(m, p) /\ p \in ModelPhases
        /\ p = "Closing" => DOMAIN m.children # {}
        /\ p = "Closed" => DOMAIN m.children = {}
        /\ p \in {"Closing", "Closed"}
    BY <1>1 DEF Close, ModelPhases
  <2> HIDE DEF n, p
  <2>2. /\ Ok(n) /\ n.phase = p /\ Evolves(m, n, {}) /\ n.ops = {}
        /\ DOMAIN n.children = DOMAIN m.children /\ n.nextGen = m.nextGen
        /\ n.nextOp = m.nextOp
        /\ \A s \in DOMAIN n.children : n.children[s].phase = "Closing"
    BY <2>1, FenceGoes
  <2> QED
    BY <2>1, <2>2 DEF Goes, n
<1>2. CASE m.phase \in {"Closing", "Closed"}
  <2>1. n = m
    BY <1>2 DEF Close
  <2> HIDE DEF n
  <2>2. Evolves(m, n, {})
    BY <1>0, <2>1, StaysPut, MovesEvolve
  <2>3. m.ops = {} /\ \A s \in DOMAIN n.children : n.children[s].phase = "Closing"
    BY <1>0, <1>2, <2>1 DEF Phased
  <2> QED
    BY <1>2, <2>1, <2>2, <2>3 DEF Goes, n
<1> QED
  BY <1>1, <1>2

(* Callbacks about one child, in the order of the module. *)

LEMMA OpenBlockedIs ==
    ASSUME NEW c, Good(c), c.phase \in {"Opening", "Seeking"}
    PROVE  LET d == [c EXCEPT !.phase = "OpenBlocked"]
           IN  Good(d) /\ Alike(c, d) /\ d.gen = c.gen /\ d.phase = "OpenBlocked"
               /\ d.flow = c.flow /\ d.retained = c.retained /\ d.inc = c.inc
               /\ (d.terminal <=> c.terminal)
<1> DEFINE d == [c EXCEPT !.phase = "OpenBlocked"]
<1>1. IsChild(c) /\ Shaped(c) /\ "OpenBlocked" \in Phases
  BY DEF Good, Phases
<1>2. /\ IsChild(d) /\ d.gen = c.gen /\ d.phase = "OpenBlocked" /\ d.flow = c.flow
      /\ d.asm = c.asm /\ d.work = c.work /\ d.retained = c.retained
      /\ d.terminal = c.terminal /\ d.deliveries = c.deliveries
      /\ d.acks = c.acks /\ d.txnAcks = c.txnAcks /\ d.preTerm = c.preTerm
      /\ d.inc = c.inc
  BY <1>1, SetPhase
<1> HIDE DEF d
<1>3. Shaped(d)
  BY <1>1, <1>2 DEF Shaped
<1>4. Good(d) /\ Alike(c, d)
  BY <1>2, <1>3, StaysGood DEF Alike
<1> QED
  BY <1>2, <1>4 DEF d

(* A child that waits for a permit may get one. *)
Waiting(c, d) ==
    /\ d.gen = c.gen /\ d.retained = c.retained /\ (d.terminal <=> c.terminal)
    /\ d.phase \in {"OpenBlocked", "Flowing"}
    /\ d.phase = "OpenBlocked" => d.flow = c.flow

(* The other children are as they were, or may receive now. *)
OthersFlow(m, n, s) ==
    \A x \in DOMAIN m.children :
        x # s => /\ n.children[x].gen = m.children[x].gen
                 /\ n.children[x] = m.children[x] \/ n.children[x].phase = "Flowing"

LEMMA ChildOpenedGoes ==
    ASSUME NEW m, Ok(m), NEW s \in DOMAIN m.children,
           m.children[s].phase = "Opening"
    PROVE  LET n == ChildOpened(m, s)
           IN  /\ Goes(m, n, {s}) /\ n.phase = "Open" /\ s \in DOMAIN n.children
               /\ Waiting(m.children[s], n.children[s])
               /\ DOMAIN n.children = DOMAIN m.children /\ n.nextGen = m.nextGen
               /\ n.ops = m.ops /\ n.nextOp = m.nextOp
               /\ OthersFlow(m, n, s)
<1> DEFINE c == m.children[s]
           d == [c EXCEPT !.phase = "OpenBlocked"]
           k == WithChild(m, s, d)
           j == [k EXCEPT !.pending = m.pending \ {s}]
           n == ArbitrateFlow(j)
<1>0. ChildOpened(m, s) = n
  BY DEF ChildOpened
<1>1. Good(c) /\ Phased(m) /\ m.phase = "Open"
  BY OkParts DEF Phased
<1>2. /\ Good(d) /\ Alike(c, d) /\ d.gen = c.gen /\ d.phase = "OpenBlocked"
      /\ d.flow = c.flow /\ d.retained = c.retained /\ (d.terminal <=> c.terminal)
  BY <1>1, OpenBlockedIs
<1> HIDE DEF d
<1>3. OneChange(m, k, s, d)
  BY WithChildIs
<1>4. j = PutPending(k, m.pending \ {s})
  BY DEF PutPending
<1> HIDE DEF k, j
<1>5. OneChange(m, j, s, d)
  <2>1. IsModel(k)
    BY <1>3 DEF OneChange
  <2> QED
    BY <1>1, <1>3, <1>4, <2>1, PutPendingIs DEF OneChange
<1>6. Own(d) = Own(c) /\ Own(c) \in Nat /\ Own(d) =< Own(c)
  BY <1>1, <1>2, OwnIs DEF Alike, Good
<1>7. Ok(j) /\ Evolves(m, j, {s})
  <2>1. ClosesEmpty(c, d)
    BY <1>2 DEF ClosesEmpty
  <2> QED
    BY <1>2, <1>5, <1>6, <2>1, OneChangeIs DEF Alike, Ok
<1>8. Goes(m, n, {s}) /\ Arbitrated(j, n)
  BY <1>7, ThenArbitrate
<1> HIDE DEF n
<1>9. /\ s \in DOMAIN j.children /\ j.children[s] = d /\ Typed(j)
      /\ DOMAIN j.children = DOMAIN m.children /\ j.nextGen = m.nextGen
      /\ j.ops = m.ops /\ j.nextOp = m.nextOp /\ j.phase = "Open"
  BY <1>1, <1>5, <1>7, OkParts DEF OneChange
<1>10. /\ DOMAIN n.children = DOMAIN m.children /\ n.nextGen = m.nextGen
       /\ n.ops = m.ops /\ n.nextOp = m.nextOp /\ n.phase = "Open"
  BY <1>8, <1>9 DEF Arbitrated
<1>11. Waiting(c, n.children[s])
  <2>1. /\ Moves(d, n.children[s])
        /\ n.children[s] = d \/ n.children[s].phase = "Flowing"
    BY <1>8, <1>9, ArbitratedChild
  <2> QED
    BY <1>2, <2>1 DEF Waiting, Moves
<1>12. OthersFlow(m, n, s)
  <2>1. ASSUME NEW x \in DOMAIN m.children, x # s
        PROVE  /\ n.children[x].gen = m.children[x].gen
               /\ n.children[x] = m.children[x] \/ n.children[x].phase = "Flowing"
    <3>1. x \in DOMAIN j.children /\ j.children[x] = m.children[x]
      BY <1>5, <2>1 DEF OneChange
    <3> QED
      BY <1>8, <1>9, <3>1, ArbitratedChild DEF Moves
  <2> QED
    BY <2>1 DEF OthersFlow
<1> QED
  BY <1>0, <1>8, <1>10, <1>11, <1>12 DEF n

LEMMA ChildOpenBusyGoes ==
    ASSUME NEW m, Ok(m), NEW s, m.phase = "Open"
    PROVE  LET n == ChildOpenBusy(m, s)
           IN  /\ Goes(m, n, {}) /\ n.phase = "Open" /\ n.children = m.children
               /\ n.ops = m.ops /\ n.nextOp = m.nextOp
<1> DEFINE n == ChildOpenBusy(m, s)
<1>1. n = PutPending(m, m.pending \cup {s})
  BY DEF ChildOpenBusy, PutPending
<1>2. IsModel(m)
  BY OkParts
<1> HIDE DEF n
<1>3. SameChildren(m, n) /\ n.phase = "Open" /\ n.children = m.children
      /\ n.ops = m.ops /\ n.nextOp = m.nextOp
  BY <1>1, <1>2, PutPendingIs DEF SameChildren
<1> QED
  BY <1>3, SameChildrenGoes DEF n

(* Steps that add fresh children and keep the others' leases and operations. *)
Grown(m, n) ==
    /\ IsModel(n) /\ DOMAIN m.children \subseteq DOMAIN n.children
    /\ DOMAIN n.children \subseteq Segments
    /\ n.live = m.live /\ n.nextSeq = m.nextSeq /\ n.nextGen >= m.nextGen
    /\ n.ops = m.ops /\ n.nextOp = m.nextOp /\ n.phase = m.phase /\ n.phase = "Open"
    /\ \A s \in DOMAIN m.children :
         LET c == m.children[s]
             d == n.children[s]
         IN  Good(d) /\ Alike(c, d) /\ Moves(c, d) /\ ClosesEmpty(c, d)
    /\ \A s \in DOMAIN n.children \ DOMAIN m.children :
         LET d == n.children[s]
         IN  /\ Good(d) /\ Fresh(d) /\ Own(d) = 0 /\ d.deliveries = 0
             /\ d.acks = 0 /\ d.txnAcks = 0 /\ d.inc = n.inc
             /\ d.gen >= m.nextGen /\ d.gen < n.nextGen

LEMMA GrownGoes ==
    ASSUME NEW m, NEW n, Ok(m), Grown(m, n)
    PROVE  Goes(m, n, {})
<1> DEFINE D == DOMAIN m.children
           E == DOMAIN n.children
<1>1. /\ Typed(m) /\ Numbered(m) /\ Leased(m) /\ Counted(m) /\ Phased(m)
      /\ IsFiniteSet(m.live) /\ m.nextGen \in Nat /\ IsFiniteSet(m.ops) /\ Fits(m)
  BY OkParts
<1>2. /\ IsModel(n) /\ D \subseteq E /\ E \subseteq Segments /\ n.nextGen \in Nat
      /\ n.live = m.live /\ n.nextSeq = m.nextSeq /\ n.nextGen >= m.nextGen
      /\ n.ops = m.ops /\ n.nextOp = m.nextOp /\ n.phase = m.phase /\ n.phase = "Open"
  BY DEF Grown, IsModel
<1>3. ASSUME NEW s \in D
      PROVE  LET c == m.children[s]
                 d == n.children[s]
             IN  /\ Good(d) /\ Alike(c, d) /\ Moves(c, d) /\ ClosesEmpty(c, d)
                 /\ d.gen = c.gen
  BY DEF Grown, Moves
<1>4. ASSUME NEW s \in E \ D
      PROVE  LET d == n.children[s]
             IN  /\ Good(d) /\ Fresh(d) /\ Own(d) = 0 /\ d.deliveries = 0
                 /\ d.acks = 0 /\ d.txnAcks = 0 /\ d.gen \in Nat /\ d.inc = n.inc
                 /\ d.gen >= m.nextGen /\ d.gen < n.nextGen
  BY DEF Grown, Good, IsChild
<1>5. Typed(n)
  BY <1>2, <1>3, <1>4 DEF Typed
<1>6. Numbered(n)
  <2>1. ASSUME NEW s \in E PROVE n.children[s].gen >= 1 /\ n.children[s].gen < n.nextGen
    <3>1. CASE s \in D
      <4>1. m.children[s].gen \in Nat
        BY <1>1, <3>1 DEF Typed, Good, IsChild
      <4> QED
        BY <1>1, <1>2, <1>3, <3>1, <4>1 DEF Numbered
    <3>2. CASE s \notin D
      BY <1>1, <1>2, <1>4, <3>2 DEF Numbered
    <3> QED
      BY <3>1, <3>2
  <2> QED
    BY <1>1, <1>2, <2>1 DEF Numbered
<1>7. \A s, g : Has(m, s, g) => Has(n, s, g)
  BY <1>2, <1>3 DEF Has
<1>8. \A s \in D : Leases(n, s) = Leases(m, s)
  BY <1>2, <1>3, SameLeases
<1>9. ASSUME NEW s \in E \ D PROVE Leases(n, s) = {}
  BY <1>1, <1>2 DEF Leases, Leased, Has
<1>10. Leased(n)
  <2>1. ASSUME NEW s \in E
        PROVE  n.children[s].deliveries = Cardinality(Leases(n, s))
    <3>1. CASE s \in D
      BY <1>1, <1>3, <1>8, <3>1 DEF Leased, Alike
    <3>2. CASE s \notin D
      BY <1>4, <1>9, <3>2, FS_EmptySet
    <3> QED
      BY <3>1, <3>2
  <2> QED
    BY <1>1, <1>2, <1>7, <2>1 DEF Leased
<1>11. Counted(n)
  <2>1. \A s : AcksOn(n, s) = AcksOn(m, s) /\ TxnAcksOn(n, s) = TxnAcksOn(m, s)
    BY <1>2 DEF AcksOn, TxnAcksOn
  <2>2. ASSUME NEW op \in m.ops, NEW c \in op.comps
        PROVE  Has(n, c.seg, c.gen) /\ n.children[c.seg].phase # "Closing"
    <3>1. Has(m, c.seg, c.gen) /\ m.children[c.seg].phase # "Closing"
      BY <1>1 DEF Counted
    <3>2. c.seg \in D
      BY <3>1 DEF Has
    <3>3. /\ ClosesEmpty(m.children[c.seg], n.children[c.seg])
          /\ n.children[c.seg].acks = m.children[c.seg].acks
          /\ n.children[c.seg].txnAcks = m.children[c.seg].txnAcks
      BY <1>3, <3>2 DEF Alike
    <3>4. n.children[c.seg].phase # "Closing"
      BY <1>1, <3>1, <3>2, <3>3, NoOpsOn DEF ClosesEmpty
    <3> QED
      BY <1>7, <3>1, <3>4
  <2>3. ASSUME NEW s \in E, n.children[s].phase # "Closing"
        PROVE  /\ n.children[s].acks = Cardinality(AcksOn(n, s))
               /\ n.children[s].txnAcks = Cardinality(TxnAcksOn(n, s))
    <3>1. CASE s \in D
      <4>1. m.children[s].phase # "Closing"
        BY <1>3, <2>3, <3>1 DEF Moves
      <4> QED
        BY <1>1, <1>3, <2>1, <3>1, <4>1 DEF Counted, Alike
    <3>2. CASE s \notin D
      <4>1. AcksOn(n, s) = {} /\ TxnAcksOn(n, s) = {}
        BY <1>1, <1>2, <3>2 DEF AcksOn, TxnAcksOn, Counted, Has
      <4> QED
        BY <1>4, <3>2, <4>1, FS_EmptySet
    <3> QED
      BY <3>1, <3>2
  <2> QED
    BY <1>1, <1>2, <2>2, <2>3 DEF Counted
<1>12. Phased(n)
  BY <1>2 DEF Phased
<1>13. Fits(n)
  <2>1. ASSUME NEW s \in E
        PROVE  Owned(n, s) =< (IF s \in D THEN Owned(m, s) ELSE 0)
    <3>1. CASE s \in D
      <4>1. Owned(m, s) \in Nat
        BY <1>1, <3>1, SharesTyped
      <4>2. Own(n.children[s]) = Own(m.children[s])
        BY <1>3, <3>1 DEF Alike
      <4>3. Owned(n, s) = Owned(m, s)
        BY <1>8, <3>1, <4>2, OwnedIs
      <4> QED
        BY <3>1, <4>1, <4>3
    <3>2. CASE s \notin D
      <4>1. Owned(n, s) = 0 + 0
        BY <1>4, <1>9, <3>2, FS_EmptySet, OwnedIs
      <4> QED
        BY <3>2, <4>1
    <3> QED
      BY <3>1, <3>2
  <2>2. Used(n) =< Used(m)
    BY <1>1, <1>2, <1>5, <2>1, UsedShrinks
  <2>3. Used(n) \in Nat /\ Used(m) \in Nat /\ BudgetLimit \in Nat
    BY <1>1, <1>2, <1>5, SharesTyped, StreamAssumption
  <2> QED
    BY <1>1, <2>2, <2>3 DEF Fits
<1>14. Evolves(m, n, {})
  BY <1>2, <1>3, <1>4 DEF Evolves
<1> QED
  BY <1>5, <1>6, <1>10, <1>11, <1>12, <1>13, <1>14 DEF Goes, Ok, Sound

(* What a method that is not about operations leaves of them. *)
Quiet(m, n) == n.phase = m.phase /\ n.ops = m.ops /\ n.nextOp = m.nextOp

LEMMA ReconcileGoes ==
    ASSUME NEW m, Ok(m), m.phase = "Open", NEW a, DOMAIN a \subseteq Segments,
           NEW R
    PROVE  LET n == ReconcileAssignment(m, a, R)
           IN  Goes(m, n, {}) /\ Quiet(m, n)
<1> DEFINE before   == Before(m)
           retiring == {s \in DOMAIN before : ~SameIn(before, a, s)} \cup R
           bucketOnly == {s \in DOMAIN before \cap DOMAIN a : before[s] # a[s]}
           gained   == {s \in DOMAIN a :
                          s \notin Finished(m)
                            /\ (s \in R \/ ~SameIn(before, a, s))}
           opened   == gained \ DOMAIN m.children
           Less(s)  == {t \in opened : t < s}
           C == [s \in DOMAIN m.children \cup opened |->
                     IF s \in opened
                     THEN NewChild(m.inc, m.nextGen + Cardinality(Less(s)),
                                   a[s] # {})
                     ELSE IF s \in retiring
                     THEN Retire(m.children[s], s \in R \ bucketOnly)
                     ELSE m.children[s]]
           P == (m.pending \ retiring) \cup (gained \ opened)
           n == ReconcileAssignment(m, a, R)
           g == m.nextGen + Cardinality(opened)
<1>0. /\ IsModel(m) /\ Typed(m) /\ m.nextGen \in Nat
      /\ DOMAIN m.children \subseteq Segments
  BY OkParts
<1>1. n = IF m.assigned = Some(a) /\ R = {} THEN m
          ELSE PutAssigned(m, Some(a), P, m.completed \ opened,
                           m.history \cup opened, g, C)
  BY Zenon DEF ReconcileAssignment, PutAssigned
<1>2. CASE m.assigned = Some(a) /\ R = {}
  <2>1. n = m
    BY <1>1, <1>2
  <2>2. SameChildren(m, m)
    BY <1>0 DEF SameChildren
  <2> QED
    BY <2>1, <2>2, SameChildrenGoes DEF Quiet
<1>3. CASE ~(m.assigned = Some(a) /\ R = {})
  <2>1. /\ opened \in SUBSET Segments /\ opened \cap DOMAIN m.children = {}
        /\ IsFiniteSet(opened) /\ Cardinality(opened) \in Nat
    <3>1. opened \in SUBSET Segments /\ opened \cap DOMAIN m.children = {}
      OBVIOUS
    <3> HIDE DEF opened
    <3> QED
      BY <3>1, TopIs, FS_Subset, FS_CardinalityType
  <2>2. ASSUME NEW s \in opened
        PROVE  Cardinality(Less(s)) \in Nat /\ Cardinality(Less(s)) < Cardinality(opened)
    <3> HIDE DEF opened
    <3>1. Less(s) \in SUBSET opened /\ s \notin Less(s)
      BY <2>1, TopIs, StreamAssumption
    <3>2. Less(s) # opened
      BY <3>1
    <3>3. Less(s) \subseteq opened /\ Less(s) \in SUBSET opened
      BY <3>1
    <3> HIDE DEF Less
    <3>4. IsFiniteSet(Less(s)) /\ Cardinality(Less(s)) =< Cardinality(opened)
          /\ Cardinality(Less(s)) # Cardinality(opened)
      BY <2>1, <3>2, <3>3, FS_Subset
    <3>5. Cardinality(Less(s)) \in Nat
      BY <3>4, FS_CardinalityType
    <3> QED
      BY <2>1, <3>4, <3>5
  <2>3. ASSUME NEW s \in opened
        PROVE  /\ Good(C[s]) /\ Own(C[s]) = 0 /\ C[s].deliveries = 0
               /\ C[s].acks = 0 /\ C[s].txnAcks = 0 /\ Fresh(C[s]) /\ C[s].inc = m.inc
               /\ C[s].gen >= m.nextGen /\ C[s].gen < g
    <3> DEFINE k == m.nextGen + Cardinality(Less(s))
    <3>1. C[s] = NewChild(m.inc, k, a[s] # {})
      OBVIOUS
    <3>2. k \in Nat /\ k >= m.nextGen /\ k < g
      <4> HIDE DEF Less, opened
      <4> QED
        BY <1>0, <2>1, <2>2
    <3> HIDE DEF k, C, g
    <3> QED
      BY <3>1, <3>2, NewChildIs DEF Fresh
  <2>4. ASSUME NEW s \in DOMAIN m.children
        PROVE  /\ Good(C[s]) /\ Alike(m.children[s], C[s])
               /\ Moves(m.children[s], C[s]) /\ ClosesEmpty(m.children[s], C[s])
    <3>1. Good(m.children[s])
      BY <1>0 DEF Typed
    <3>2. CASE s \in retiring
      <4>1. C[s] = Retire(m.children[s], s \in R \ bucketOnly)
        BY <3>2
      <4> HIDE DEF C, bucketOnly
      <4> QED
        BY <3>1, <4>1, RetireIs
    <3>3. CASE s \notin retiring
      <4>1. C[s] = m.children[s]
        BY <3>3
      <4> HIDE DEF C
      <4> QED
        BY <3>1, <4>1, StaysPut
    <3> QED
      BY <3>2, <3>3
  <2>5. DOMAIN C = DOMAIN m.children \cup opened /\ g \in Nat /\ g >= m.nextGen
    <3>1. g \in Nat /\ g >= m.nextGen
      <4> HIDE DEF opened
      <4> QED
        BY <1>0, <2>1
    <3> QED
      BY <3>1
  <2>6. n = PutAssigned(m, Some(a), P, m.completed \ opened, m.history \cup opened, g, C)
    BY <1>1, <1>3
  <2> HIDE DEF n, C, P, opened, g
  <2>7. /\ IsModel(n) /\ n.phase = m.phase /\ n.children = C /\ n.nextGen = g
        /\ n.live = m.live /\ n.nextSeq = m.nextSeq /\ n.ops = m.ops
        /\ n.nextOp = m.nextOp /\ n.inc = m.inc
    BY <1>0, <2>5, <2>6, PutAssignedIs
  <2>8. Grown(m, n)
    BY <1>0, <2>1, <2>3, <2>4, <2>5, <2>7 DEF Grown
  <2> QED
    BY <2>7, <2>8, GrownGoes DEF n, Quiet
<1> QED
  BY <1>2, <1>3

LEMMA ApplyGoes ==
    ASSUME NEW m, Ok(m), m.phase = "Open", NEW l, NEW a, DOMAIN a \subseteq Segments
    PROVE  LET n == ApplyControlPlane(m, l, a)
           IN  Goes(m, n, {}) /\ Quiet(m, n)
<1> DEFINE R == {s \in DOMAIN m.children :
            /\ Descriptor(m.layout, s) # Descriptor(l, s)
            /\ ~ (/\ s \in Present(m.layout) /\ ~Sealed(m.layout, s)
                  /\ Sealed(l, s) /\ s \notin Layouts[l].placed)}
           k == PutLayout(m, l)
           j == ReconcileAssignment(k, a, R)
<1>1. ApplyControlPlane(m, l, a) = ArbitrateFlow(j)
  BY Zenon DEF ApplyControlPlane, PutLayout
<1>2. IsModel(m)
  BY OkParts
<1>3. SameChildren(m, k)
  <2> HIDE DEF k
  <2>1. k = PutLayout(m, l)
    BY DEF k
  <2> QED
    BY <1>2, <2>1, PutLayoutIs DEF SameChildren
<1> HIDE DEF k, R
<1>4. Ok(k) /\ k.phase = "Open" /\ k.children = m.children /\ k.nextGen = m.nextGen
  BY <1>3, SameChildrenGoes DEF Goes, SameChildren
<1>5. Goes(k, j, {}) /\ Quiet(k, j)
  BY <1>4, ReconcileGoes
<1> HIDE DEF j
<1>6. Ok(j) /\ Evolves(m, j, {})
  <2>1. k.phase = m.phase
    BY <1>3 DEF SameChildren
  <2> QED
    BY <1>4, <1>5, <2>1 DEF Goes, Evolves
<1>7. Goes(m, ArbitrateFlow(j), {}) /\ Arbitrated(j, ArbitrateFlow(j))
  BY <1>6, ThenArbitrate
<1> QED
  BY <1>1, <1>3, <1>5, <1>7 DEF Quiet, SameChildren, Arbitrated

LEMMA RejoinGoes ==
    ASSUME NEW m, Ok(m), NEW l, NEW a, DOMAIN a \subseteq Segments
    PROVE  LET n == ApplyReconnectBaseline(m, l, a)
           IN  /\ Ok(n) /\ (m.phase # "Open" => Evolves(m, n, {}))
               /\ n.phase = "Open" /\ n.ops = {} /\ n.nextOp = m.nextOp
               /\ \A s \in DOMAIN m.children :
                    s \in DOMAIN n.children /\ n.children[s].phase = "Closing"
<1> DEFINE f == Fence(m, "Open")
           k == PutInc(f, m.inc + 1)
           n == ApplyControlPlane(k, l, a)
<1>1. ApplyReconnectBaseline(m, l, a) = n
  BY Zenon DEF ApplyReconnectBaseline, PutInc
<1>2. /\ Ok(f) /\ f.phase = "Open" /\ DOMAIN f.children = DOMAIN m.children
      /\ f.nextGen = m.nextGen
      /\ f.ops = {} /\ f.nextOp = m.nextOp
      /\ \A s \in DOMAIN m.children : /\ Moves(m.children[s], f.children[s])
                                     /\ f.children[s].phase = "Closing"
  BY FenceGoes DEF ModelPhases
<1>3. m.inc + 1 \in Nat /\ IsModel(f) /\ IsModel(m) /\ m.nextGen \in Nat
  BY <1>2, OkParts
<1> HIDE DEF f
<1>4. SameChildren(f, k)
  <2>1. k = PutInc(f, m.inc + 1)
    BY DEF k
  <2>2. f.phase = "Open"
    BY <1>2
  <2> HIDE DEF k
  <2>3. /\ IsModel(k) /\ k.phase = f.phase /\ k.children = f.children
        /\ k.live = f.live /\ k.nextSeq = f.nextSeq /\ k.nextGen = f.nextGen
        /\ k.ops = f.ops /\ k.nextOp = f.nextOp
    BY <1>3, <2>1, PutIncIs
  <2> QED
    BY <2>2, <2>3 DEF SameChildren
<1> HIDE DEF k
<1>5. Ok(k) /\ k.phase = "Open" /\ k.children = f.children /\ k.nextGen = f.nextGen
  BY <1>2, <1>4, SameChildrenGoes DEF Goes, SameChildren
<1>6. Goes(k, n, {}) /\ Quiet(k, n)
  BY <1>5, ApplyGoes
<1> HIDE DEF n
<1>7. m.phase # "Open" => Evolves(m, n, {})
  <2>1. ASSUME NEW s \in DOMAIN m.children
        PROVE  s \in DOMAIN n.children /\ Moves(m.children[s], n.children[s])
    <3>1. s \in DOMAIN n.children /\ Moves(f.children[s], n.children[s])
      BY <1>2, <1>5, <1>6 DEF Goes, Evolves
    <3> QED
      BY <1>2, <3>1, MovesCompose
  <2> QED
    BY <1>2, <1>5, <1>6, <2>1 DEF Goes, Evolves
<1>8. \A s \in DOMAIN m.children :
         s \in DOMAIN n.children /\ n.children[s].phase = "Closing"
  BY <1>2, <1>5, <1>6 DEF Goes, Evolves, Moves
<1> QED
  BY <1>1, <1>2, <1>4, <1>5, <1>6, <1>7, <1>8 DEF Goes, Quiet, SameChildren, n

(* A sum of nothing. *)
LEMMA TotalZero ==
    ASSUME NEW w \in [1..Top -> Nat], \A s \in 1..Top : w[s] = 0
    PROVE  Total(w) = 0
<1>0. Top \in Nat /\ w \in [1..Top -> Int]
  BY TopIs
<1>1. PICK f : SumsOf(w, f)
  BY <1>0, TotalUnfolds
<1> DEFINE T == {n \in 0..Top : f[n] = 0}
<1>2. 0 \in T
  BY <1>0, <1>1 DEF SumsOf
<1>3. \A n \in 0..(Top - 1) : n \in T => n + 1 \in T
  <2> SUFFICES ASSUME NEW n \in 0..(Top - 1), n \in T PROVE n + 1 \in T
    OBVIOUS
  <2>1. n + 1 \in 1..Top /\ (n + 1) - 1 = n
    BY <1>0
  <2>2. f[n + 1] = f[n] + w[n + 1]
    BY <2>1, <1>1 DEF SumsOf
  <2> QED
    BY <2>1, <2>2
<1>4. 0..Top \subseteq T
  <2> HIDE DEF T
  <2> QED
    BY <1>0, <1>2, <1>3, Climb
<1> QED
  BY <1>0, <1>1, <1>4 DEF SumsOf

LEMMA InitModelIs == Ok(InitModel) /\ InitModel.phase = "Open" /\ InitModel.nextGen = 1
                     /\ DOMAIN InitModel.children = {} /\ InitModel.ops = {}
<1> DEFINE m == InitModel
<1>1. /\ m.phase = "Open" /\ m.inc = 1 /\ m.epoch = 0 /\ m.children = Nothing
      /\ m.nextGen = 1 /\ m.live = {} /\ m.nextSeq = 1 /\ m.ops = {}
      /\ m.nextOp = 1
  BY DEF InitModel
<1>2. DOMAIN m.children = {}
  BY <1>1 DEF Nothing
<1>3. IsModel(m)
  BY DEF InitModel, IsModel, ModelPhases
<1> HIDE DEF m
<1>4. Typed(m) /\ Numbered(m) /\ Phased(m)
  BY <1>1, <1>2, <1>3 DEF Typed, Numbered, Phased
<1>5. Leased(m) /\ Counted(m)
  BY <1>1, <1>2, FS_EmptySet DEF Leased, Counted
<1>6. Fits(m)
  <2>1. IsFiniteSet(m.live)
    BY <1>5 DEF Leased
  <2>2. Shares(m) \in [1..Top -> Nat] /\ \A s \in 1..Top : Shares(m)[s] = 0
    BY <1>2 DEF Shares
  <2>3. Total(Shares(m)) = 0
    BY <2>2, TotalZero
  <2> QED
    BY <2>3, UsedIs, StreamAssumption DEF Fits
<1> QED
  BY <1>1, <1>2, <1>4, <1>5, <1>6 DEF Ok, Sound, m

(* A child goes, and perhaps a new one comes in its place. *)
Replaced(m, n, s) ==
    /\ IsModel(n) /\ DOMAIN n.children \subseteq DOMAIN m.children
    /\ \A t \in DOMAIN m.children : t # s =>
         t \in DOMAIN n.children /\ n.children[t] = m.children[t]
    /\ n.live = {d \in m.live : d.seg # s} /\ n.nextSeq = m.nextSeq
    /\ n.nextGen >= m.nextGen /\ n.ops = m.ops /\ n.nextOp = m.nextOp
    /\ Phased(n)
    /\ s \in DOMAIN n.children =>
         LET d == n.children[s]
         IN  /\ Good(d) /\ Fresh(d) /\ Own(d) = 0 /\ d.deliveries = 0
             /\ d.acks = 0 /\ d.txnAcks = 0
             /\ d.gen >= m.nextGen /\ d.gen < n.nextGen

LEMMA ReplacedGoes ==
    ASSUME NEW m, NEW n, Ok(m), NEW s \in DOMAIN m.children,
           m.children[s].phase = "Closing", Replaced(m, n, s)
    PROVE  Goes(m, n, {s})
<1> DEFINE D == DOMAIN m.children
           E == DOMAIN n.children
<1>1. /\ Typed(m) /\ Numbered(m) /\ Leased(m) /\ Counted(m) /\ Phased(m)
      /\ IsFiniteSet(m.live) /\ m.nextGen \in Nat /\ IsFiniteSet(m.ops) /\ Fits(m)
      /\ D \subseteq Segments
  BY OkParts
<1>2. /\ IsModel(n) /\ E \subseteq D /\ n.nextGen \in Nat
      /\ n.live = {d \in m.live : d.seg # s} /\ n.nextSeq = m.nextSeq
      /\ n.nextGen >= m.nextGen /\ n.ops = m.ops /\ n.nextOp = m.nextOp /\ Phased(n)
  BY DEF Replaced, IsModel
<1>3. ASSUME NEW t \in D, t # s
      PROVE  t \in E /\ n.children[t] = m.children[t] /\ Good(m.children[t])
  BY <1>1, <1>3 DEF Replaced, Typed
<1>4. ASSUME s \in E
      PROVE  LET d == n.children[s]
             IN  /\ Good(d) /\ Fresh(d) /\ Own(d) = 0 /\ d.deliveries = 0
                 /\ d.acks = 0 /\ d.txnAcks = 0 /\ d.gen \in Nat
                 /\ d.gen >= m.nextGen /\ d.gen < n.nextGen
  BY <1>4 DEF Replaced, Good, IsChild
<1>5. Typed(n)
  BY <1>1, <1>2, <1>3, <1>4 DEF Typed
<1>6. Numbered(n)
  <2>1. ASSUME NEW t \in E PROVE n.children[t].gen >= 1 /\ n.children[t].gen < n.nextGen
    <3>1. CASE t # s
      <4>1. m.children[t].gen \in Nat /\ t \in D
        BY <1>1, <1>2 DEF Typed, Good, IsChild
      <4> QED
        BY <1>1, <1>2, <1>3, <3>1, <4>1 DEF Numbered
    <3>2. CASE t = s
      BY <1>1, <1>2, <1>4, <3>2 DEF Numbered
    <3> QED
      BY <3>1, <3>2
  <2> QED
    BY <1>1, <1>2, <2>1 DEF Numbered
<1>7. \A t, g : t # s /\ Has(m, t, g) => Has(n, t, g)
  BY <1>3 DEF Has
<1>8. ASSUME NEW t \in E, t # s PROVE Leases(n, t) = Leases(m, t)
  BY <1>2, <1>3, <1>8 DEF Leases
<1>9. Leases(n, s) = {}
  BY <1>2 DEF Leases
<1>10. Leased(n)
  <2>1. ASSUME NEW t \in E
        PROVE  n.children[t].deliveries = Cardinality(Leases(n, t))
    <3>1. CASE t # s
      BY <1>1, <1>2, <1>3, <1>8, <3>1 DEF Leased
    <3>2. CASE t = s
      BY <1>4, <1>9, <3>2, FS_EmptySet
    <3> QED
      BY <3>1, <3>2
  <2>2. IsFiniteSet(n.live)
    <3>1. n.live \in SUBSET m.live
      BY <1>2
    <3> QED
      BY <1>1, <3>1, FS_Subset
  <2> QED
    BY <1>1, <1>2, <1>7, <2>1, <2>2 DEF Leased
<1>11. Counted(n)
  <2>1. \A t : AcksOn(n, t) = AcksOn(m, t) /\ TxnAcksOn(n, t) = TxnAcksOn(m, t)
    BY <1>2 DEF AcksOn, TxnAcksOn
  <2>2. ASSUME NEW op \in m.ops, NEW c \in op.comps
        PROVE  c.seg # s /\ Has(n, c.seg, c.gen) /\ n.children[c.seg].phase # "Closing"
    <3>1. Has(m, c.seg, c.gen) /\ m.children[c.seg].phase # "Closing"
      BY <1>1 DEF Counted
    <3>2. c.seg \in D /\ c.seg # s
      BY <3>1 DEF Has
    <3> QED
      BY <1>3, <1>7, <3>1, <3>2
  <2>3. ASSUME NEW t \in E, n.children[t].phase # "Closing"
        PROVE  /\ n.children[t].acks = Cardinality(AcksOn(n, t))
               /\ n.children[t].txnAcks = Cardinality(TxnAcksOn(n, t))
    <3>1. CASE t # s
      BY <1>1, <1>2, <1>3, <2>1, <2>3, <3>1 DEF Counted
    <3>2. CASE t = s
      <4>1. AcksOn(n, t) = {} /\ TxnAcksOn(n, t) = {}
        BY <1>2, <2>2, <3>2 DEF AcksOn, TxnAcksOn
      <4> QED
        BY <1>4, <3>2, <4>1, FS_EmptySet
    <3> QED
      BY <3>1, <3>2
  <2> QED
    BY <1>1, <1>2, <2>2, <2>3 DEF Counted
<1>13. Fits(n)
  <2>1. ASSUME NEW t \in E
        PROVE  Owned(n, t) =< (IF t \in D THEN Owned(m, t) ELSE 0)
    <3>0. t \in D /\ Owned(m, t) \in Nat
      BY <1>1, <1>2, SharesTyped
    <3>1. CASE t # s
      <4>1. Owned(n, t) = Owned(m, t)
        BY <1>3, <1>8, <3>0, <3>1, OwnedIs
      <4> QED
        BY <3>0, <4>1
    <3>2. CASE t = s
      <4>1. Owned(n, t) = 0 + 0
        BY <1>4, <1>9, <3>2, FS_EmptySet, OwnedIs
      <4> QED
        BY <3>0, <4>1
    <3> QED
      BY <3>1, <3>2
  <2>2. Used(n) =< Used(m)
    BY <1>1, <1>5, <1>10, <2>1, UsedShrinks DEF Leased
  <2>3. Used(n) \in Nat /\ Used(m) \in Nat /\ BudgetLimit \in Nat
    BY <1>1, <1>5, <1>10, SharesTyped, StreamAssumption DEF Leased
  <2> QED
    BY <1>1, <2>2, <2>3 DEF Fits
<1>14. Evolves(m, n, {s})
  BY <1>2, <1>3, StaysPut DEF Evolves
<1> QED
  BY <1>2, <1>5, <1>6, <1>10, <1>11, <1>13, <1>14 DEF Goes, Ok, Sound

LEMMA ChildClosedGoes ==
    ASSUME NEW m, Ok(m), NEW s \in DOMAIN m.children,
           m.children[s].phase = "Closing"
    PROVE  LET n == ChildClosed(m, s)
           IN  /\ Goes(m, n, {s}) /\ n.ops = m.ops /\ n.nextOp = m.nextOp
               /\ n.phase = m.phase \/ (m.phase = "Closing" /\ n.phase = "Closed")
               /\ DOMAIN n.children \subseteq DOMAIN m.children
               /\ s \in DOMAIN n.children =>
                    /\ Fresh(n.children[s]) /\ n.children[s].gen >= m.nextGen
                    /\ n.children[s].inc = n.inc
               /\ n.inc = m.inc
<1> DEFINE reopen == m.phase = "Open" /\ s \notin Finished(m) /\ s \in m.pending
           L == {d \in m.live : d.seg # s}
           C == Without(m.children, s)
           F == NewChild(m.inc, m.nextGen, m.assigned.of[s] # {})
           B == [m.children EXCEPT ![s] = F]
           base == PutClosed(m, L, m.pending \ {s}, Without(m.pos, s), C)
           back == PutReopened(base, B, m.nextGen + 1, m.completed \ {s},
                               m.history \cup {s})
           k == IF ~reopen THEN base ELSE back
           n == ChildClosed(m, s)
           j == IF m.phase = "Closing" /\ DOMAIN k.children = {}
                THEN PutDone(k, "Closed") ELSE k
<1>1. n = IF m.phase = "Closing" /\ DOMAIN k.children = {} THEN PutDone(k, "Closed")
          ELSE IF Owned(m, s) = 0 THEN k ELSE ArbitrateFlow(k)
  BY Zenon DEF ChildClosed, PutClosed, PutReopened, PutDone
<1>2. /\ IsModel(m) /\ m.nextGen \in Nat /\ m.nextGen + 1 \in Nat /\ Phased(m)
      /\ m.phase \in ModelPhases
  BY OkParts
<1>3. /\ DOMAIN C = DOMAIN m.children \ {s}
      /\ \A t \in DOMAIN m.children : t # s => C[t] = m.children[t]
      /\ DOMAIN B = DOMAIN m.children /\ B[s] = F
      /\ \A t \in DOMAIN m.children : t # s => B[t] = m.children[t]
  BY DEF Without
<1>4. /\ Good(F) /\ Own(F) = 0 /\ F.inc = m.inc /\ F.gen = m.nextGen /\ F.phase = "Opening"
      /\ F.flow = "none" /\ ~F.terminal /\ F.deliveries = 0
      /\ F.acks = 0 /\ F.txnAcks = 0 /\ F.retained = 0
  BY <1>2, NewChildIs
<1>5. base = PutClosed(m, L, m.pending \ {s}, Without(m.pos, s), C)
  OBVIOUS
<1>6. back = PutReopened(base, B, m.nextGen + 1, m.completed \ {s}, m.history \cup {s})
  OBVIOUS
<1> HIDE DEF n, C, F, B, base, back
<1>7. /\ IsModel(base) /\ base.phase = m.phase /\ base.children = C
      /\ base.live = L /\ base.nextSeq = m.nextSeq /\ base.nextGen = m.nextGen
      /\ base.ops = m.ops /\ base.nextOp = m.nextOp
      /\ base.pending = m.pending \ {s} /\ base.inc = m.inc
  BY <1>2, <1>5, PutClosedIs
<1>8. /\ IsModel(back) /\ back.phase = m.phase /\ back.children = B
      /\ back.live = L /\ back.nextSeq = m.nextSeq /\ back.nextGen = m.nextGen + 1
      /\ back.ops = m.ops /\ back.nextOp = m.nextOp
      /\ back.pending = m.pending \ {s} /\ back.inc = m.inc
  BY <1>2, <1>6, <1>7, PutReopenedIs
<1>9. CASE reopen
  <2>1. k = back /\ m.phase = "Open"
    BY <1>9
  <2> HIDE DEF k
  <2>2. Phased(k)
    BY <1>8, <2>1 DEF Phased
  <2>3. F.gen >= m.nextGen /\ F.gen < m.nextGen + 1
    BY <1>2, <1>4
  <2>4. Replaced(m, k, s) /\ k.ops = m.ops /\ k.nextOp = m.nextOp
    BY <1>2, <1>3, <1>4, <1>8, <2>1, <2>2, <2>3 DEF Replaced, Fresh
  <2>5. Goes(m, k, {s})
    BY <2>4, ReplacedGoes
  <2>6. /\ Goes(m, ArbitrateFlow(k), {s}) /\ Arbitrated(k, ArbitrateFlow(k))
    BY <2>5, ThenArbitrate DEF Goes
  <2>7. /\ DOMAIN k.children = DOMAIN m.children /\ k.children[s] = F
        /\ k.phase = m.phase /\ k.inc = m.inc
    BY <1>3, <1>8, <2>1
  <2>8. n = k \/ n = ArbitrateFlow(k)
    BY <1>1, <2>1
  <2>9. Arbitrated(k, ArbitrateFlow(k)) => ArbitrateFlow(k).children[s] = F
    <3> DEFINE q == ArbitrateFlow(k)
    <3> HIDE DEF q
    <3>1. Typed(k)
      BY <2>5, OkParts DEF Goes
    <3>2. Arbitrated(k, q) => q.children[s] = F
      BY <1>4, <2>7, <3>1, ArbitratedChild
    <3> QED
      BY <3>2 DEF q
  <2>10. /\ Goes(m, n, {s}) /\ n.ops = m.ops /\ n.nextOp = m.nextOp
         /\ n.phase = m.phase /\ DOMAIN n.children = DOMAIN m.children
         /\ n.children[s] = F /\ n.inc = m.inc
    BY <2>4, <2>5, <2>6, <2>7, <2>8, <2>9 DEF Arbitrated
  <2> QED
    <3>1. /\ n.children[s].gen >= m.nextGen /\ Fresh(n.children[s])
          /\ n.children[s].inc = n.inc /\ n.inc = m.inc
      BY <1>2, <1>4, <2>10 DEF Fresh
    <3>2. /\ Goes(m, n, {s}) /\ n.ops = m.ops /\ n.nextOp = m.nextOp
          /\ n.phase = m.phase \/ (m.phase = "Closing" /\ n.phase = "Closed")
          /\ DOMAIN n.children \subseteq DOMAIN m.children
      BY <2>10
    <3> QED
      BY <3>1, <3>2, Zenon DEF n
<1>10. CASE ~reopen /\ m.phase = "Closing" /\ DOMAIN C = {}
  <2> DEFINE q == PutDone(base, "Closed")
  <2>1. n = q
    BY <1>1, <1>7, <1>10
  <2>2. /\ IsModel(q) /\ q.phase = "Closed" /\ q.children = C
        /\ q.live = L /\ q.nextSeq = m.nextSeq /\ q.nextGen = m.nextGen
        /\ q.ops = m.ops /\ q.nextOp = m.nextOp /\ q.pending = m.pending \ {s}
        /\ q.inc = m.inc
    <3>1. "Closed" \in ModelPhases
      BY DEF ModelPhases
    <3> QED
      BY <1>7, <3>1, PutDoneIs
  <2> HIDE DEF q
  <2>3. Phased(q)
    BY <1>2, <1>10, <2>2 DEF Phased
  <2>4. Replaced(m, q, s)
    BY <1>2, <1>3, <1>10, <2>2, <2>3 DEF Replaced
  <2> QED
    BY <1>3, <1>10, <2>1, <2>2, <2>4, ReplacedGoes DEF n
<1>11. CASE ~reopen /\ ~(m.phase = "Closing" /\ DOMAIN C = {})
  <2>1. k = base
    BY <1>11
  <2>2. n = k \/ n = ArbitrateFlow(k)
    BY <1>1, <1>7, <1>11, <2>1
  <2> HIDE DEF k
  <2>3. Phased(k)
    BY <1>2, <1>3, <1>7, <1>11, <2>1 DEF Phased
  <2>4. Replaced(m, k, s)
    BY <1>2, <1>3, <1>7, <2>1, <2>3 DEF Replaced
  <2>5. Goes(m, k, {s})
    BY <2>4, ReplacedGoes
  <2>6. /\ Goes(m, ArbitrateFlow(k), {s}) /\ Arbitrated(k, ArbitrateFlow(k))
    BY <2>5, ThenArbitrate DEF Goes
  <2>7. /\ Goes(m, n, {s}) /\ n.ops = m.ops /\ n.nextOp = m.nextOp
        /\ n.phase = m.phase /\ DOMAIN n.children = DOMAIN m.children \ {s}
        /\ n.inc = m.inc
    BY <1>3, <1>7, <2>1, <2>2, <2>5, <2>6 DEF Arbitrated
  <2> QED
    <3>1. /\ Goes(m, n, {s}) /\ n.ops = m.ops /\ n.nextOp = m.nextOp
          /\ n.phase = m.phase \/ (m.phase = "Closing" /\ n.phase = "Closed")
          /\ DOMAIN n.children \subseteq DOMAIN m.children
          /\ s \notin DOMAIN n.children /\ n.inc = m.inc
      BY <2>7
    <3> QED
      BY <3>1, Zenon DEF n
<1> QED
  BY <1>9, <1>10, <1>11

LEMMA SeekingIs ==
    ASSUME NEW c, Good(c), c.asm = 0, c.work = 0, c.retained = 0
    PROVE  LET d == Seeks(c)
           IN  /\ Good(d) /\ Own(d) =< Own(c) /\ d.gen = c.gen
               /\ d.phase = "Seeking" /\ d.flow = "none" /\ ~d.terminal
               /\ d.retained = 0 /\ d.deliveries = c.deliveries
               /\ d.acks = c.acks /\ d.txnAcks = c.txnAcks /\ d.inc = c.inc
<1> DEFINE d == Seeks(c)
<1>1. IsChild(c)
  BY DEF Good
<1>2. /\ IsChild(d) /\ d.inc = c.inc /\ d.gen = c.gen
      /\ d.phase = "Seeking" /\ d.flow = "none" /\ d.asm = c.asm
      /\ d.work = c.work /\ d.retained = c.retained
      /\ d.terminal = FALSE /\ d.deliveries = c.deliveries
      /\ d.acks = c.acks /\ d.txnAcks = c.txnAcks /\ d.preTerm = 0
  BY <1>1, SetSeeking
<1> HIDE DEF d
<1>3. Shaped(d) /\ Balanced(d)
  BY <1>2, PermitIs DEF Shaped, Balanced
<1>4. Own(d) =< Own(c)
  BY <1>1, <1>2, OwnIs
<1> QED
  BY <1>2, <1>3, <1>4 DEF d, Good

LEMMA BeginSeekGoes ==
    ASSUME NEW m, Ok(m), CanSeek(m)
    PROVE  LET n == BeginSeek(m)
           IN  /\ Ok(n) /\ Quiet(m, n) /\ n.phase = "Open" /\ n.nextGen = m.nextGen
               /\ DOMAIN n.children = DOMAIN m.children
               /\ \A s \in DOMAIN m.children :
                    /\ n.children[s].gen = m.children[s].gen
                    /\ n.children[s].phase = "Seeking" /\ n.children[s].flow = "none"
                    /\ n.children[s].retained = 0 /\ ~n.children[s].terminal
                    /\ m.children[s].phase \in {"OpenBlocked", "Flowing", "Terminal"}
                    /\ m.children[s].retained = 0
<1> DEFINE C == [s \in DOMAIN m.children |-> Seeks(m.children[s])]
           X == m.completed \ DOMAIN m.children
           n == BeginSeek(m)
<1>1. n = PutSeek(m, m.epoch + 1, X, C)
  BY Zenon DEF BeginSeek, PutSeek, Seeks
<1>2. /\ IsModel(m) /\ m.epoch + 1 \in Nat /\ Sound(m) /\ Fits(m) /\ Typed(m)
      /\ IsFiniteSet(m.live)
  BY OkParts
<1>3. ASSUME NEW s \in DOMAIN m.children
      PROVE  LET c == m.children[s]
                 d == C[s]
             IN  /\ Good(d) /\ Own(d) =< Own(c) /\ d.gen = c.gen
                 /\ d.phase = "Seeking" /\ d.flow = "none" /\ ~d.terminal
                 /\ d.retained = 0 /\ d.deliveries = c.deliveries
                 /\ d.acks = c.acks /\ d.txnAcks = c.txnAcks
                 /\ c.phase \in {"OpenBlocked", "Flowing", "Terminal"}
                 /\ c.retained = 0
  <2> DEFINE c == m.children[s]
  <2>1. Good(c) /\ IsChild(c)
    BY <1>2 DEF Typed, Good
  <2>2. /\ Owned(m, s) = Frame * PermitCount(c)
        /\ c.phase \in {"OpenBlocked", "Flowing", "Terminal"}
    BY DEF CanSeek
  <2>3. Cardinality(Leases(m, s)) \in Nat
    BY <1>2, LeasesFinite
  <2>4. c.asm = 0 /\ c.work = 0 /\ c.retained = 0
    <3> DEFINE x == Frame * PermitCount(c)
               y == Cardinality(Leases(m, s))
    <3>1. x \in Nat
      BY PermitIs, StreamAssumption
    <3>2. x = x + c.asm + c.work + c.retained + y
      BY <2>2 DEF Owned
    <3>3. c.asm \in Nat /\ c.work \in Nat /\ c.retained \in Nat /\ y \in Nat
      BY <2>1, <2>3, OwnIs
    <3> HIDE DEF x, y
    <3> QED
      BY SMTT(40), <3>1, <3>2, <3>3
  <2>5. C[s] = Seeks(c)
    OBVIOUS
  <2> HIDE DEF c, C
  <2>6. LET d == C[s]
        IN  /\ Good(d) /\ Own(d) =< Own(c) /\ d.gen = c.gen
            /\ d.phase = "Seeking" /\ d.flow = "none" /\ ~d.terminal
            /\ d.retained = 0 /\ d.deliveries = c.deliveries
            /\ d.acks = c.acks /\ d.txnAcks = c.txnAcks
    BY <2>1, <2>4, <2>5, SeekingIs
  <2> QED
    BY <2>2, <2>4, <2>6 DEF c
<1>4. DOMAIN C = DOMAIN m.children
  OBVIOUS
<1>5. m.phase = "Open"
  BY DEF CanSeek
<1> HIDE DEF C, n
<1>6. /\ IsModel(n) /\ n.phase = m.phase /\ n.children = C /\ n.nextGen = m.nextGen
      /\ n.live = m.live /\ n.nextSeq = m.nextSeq /\ n.ops = m.ops
      /\ n.nextOp = m.nextOp
  BY <1>1, <1>2, PutSeekIs
<1>7. Reshaped(m, n)
  BY <1>3, <1>4, <1>5, <1>6 DEF Reshaped, ClosesEmpty
<1>8. Sound(n) /\ Fits(n)
  BY <1>2, <1>3, <1>6, <1>7, ReshapedSound, ReshapedFits
<1> QED
  BY <1>3, <1>4, <1>5, <1>6, <1>8 DEF n, Ok, Quiet

ClosesNobody(m, n) ==
    \A s \in DOMAIN m.children :
        n.children[s].phase = "Closing" => m.children[s].phase = "Closing"

LEMMA SeekCompletedGoes ==
    ASSUME NEW m, Ok(m), NEW s \in DOMAIN m.children, m.phase = "Open",
           m.children[s].phase = "Seeking"
    PROVE  LET n == SeekCompleted(m, s)
           IN  /\ Goes(m, n, {s}) /\ Quiet(m, n) /\ n.nextGen = m.nextGen
               /\ DOMAIN n.children = DOMAIN m.children /\ ClosesNobody(m, n)
               /\ Waiting(m.children[s], n.children[s])
<1> DEFINE c == m.children[s]
           d == [c EXCEPT !.phase = "OpenBlocked"]
           k == WithChild(m, s, d)
           q == ArbitrateFlow(k)
           n == SeekCompleted(m, s)
<1>0. n = k \/ n = q
  BY DEF SeekCompleted
<1>1. Good(c)
  BY OkParts
<1>2. /\ Good(d) /\ Alike(c, d) /\ d.gen = c.gen /\ d.phase = "OpenBlocked"
      /\ d.flow = c.flow /\ d.retained = c.retained /\ (d.terminal <=> c.terminal)
  BY <1>1, OpenBlockedIs
<1> HIDE DEF d
<1>3. OneChange(m, k, s, d)
  BY WithChildIs
<1> HIDE DEF k
<1>6. Own(d) = Own(c) /\ Own(c) \in Nat /\ Own(d) =< Own(c)
  BY <1>1, <1>2, OwnIs DEF Alike, Good
<1>7. Ok(k) /\ Evolves(m, k, {s})
  <2>1. ClosesEmpty(c, d)
    BY <1>2 DEF ClosesEmpty
  <2> QED
    BY <1>2, <1>3, <1>6, <2>1, OneChangeIs DEF Alike, Ok
<1>8. Goes(m, q, {s}) /\ Arbitrated(k, q)
  BY <1>7, ThenArbitrate
<1> HIDE DEF n, q
<1>9. /\ s \in DOMAIN k.children /\ k.children[s] = d /\ Typed(k)
      /\ DOMAIN k.children = DOMAIN m.children /\ k.nextGen = m.nextGen
      /\ k.ops = m.ops /\ k.nextOp = m.nextOp /\ k.phase = "Open"
  BY <1>3, <1>7, OkParts DEF OneChange
<1>10. /\ DOMAIN q.children = DOMAIN m.children /\ q.nextGen = m.nextGen
       /\ q.ops = m.ops /\ q.nextOp = m.nextOp /\ q.phase = "Open"
  BY <1>8, <1>9 DEF Arbitrated
<1>11. Waiting(c, q.children[s]) /\ Waiting(c, k.children[s])
  <2>1. /\ Moves(d, q.children[s])
        /\ q.children[s] = d \/ q.children[s].phase = "Flowing"
    BY <1>8, <1>9, ArbitratedChild
  <2> QED
    BY <1>2, <1>9, <2>1 DEF Waiting, Moves
<1>12. ClosesNobody(m, k) /\ ClosesNobody(m, q)
  <2>1. \A t \in DOMAIN m.children : k.children[t].phase = "Closing" =>
                                        m.children[t].phase = "Closing"
    BY <1>2, <1>3 DEF OneChange
  <2>2. \A t \in DOMAIN m.children : q.children[t].phase = "Closing" =>
                                        k.children[t].phase = "Closing"
    BY <1>8, <1>9, ArbitratedChild
  <2> QED
    BY <2>1, <2>2 DEF ClosesNobody
<1> QED
  BY <1>0, <1>7, <1>8, <1>9, <1>10, <1>11, <1>12 DEF n, Goes, Quiet

LEMMA OneMoves ==
    ASSUME NEW m, NEW n, NEW s, Evolves(m, n, {s}), s \in DOMAIN n.children,
           s \in DOMAIN m.children,
           Moves(m.children[s], n.children[s]), ClosesEmpty(m.children[s], n.children[s])
    PROVE  Evolves(m, n, {})
  BY DEF Evolves

(* Arrivals. *)
LEMMA ReserveWorkGoes ==
    ASSUME NEW m, Ok(m), NEW s \in DOMAIN m.children, Used(m) < BudgetLimit,
           m.children[s].phase # "Opening"
    PROVE  LET n == ReserveWork(m, s)
           IN  /\ Goes(m, n, {}) /\ Quiet(m, n) /\ n.nextGen = m.nextGen
               /\ DOMAIN n.children = DOMAIN m.children
               /\ n.epoch = m.epoch /\ n.live = m.live
               /\ \A t \in DOMAIN m.children :
                    /\ n.children[t].phase = m.children[t].phase
                    /\ n.children[t].flow = m.children[t].flow
<1> DEFINE c == m.children[s]
           d == Works(c)
           n == ReserveWork(m, s)
<1>0. n = WithChild(m, s, d)
  BY Zenon DEF ReserveWork, Works
<1>1. Good(c) /\ IsChild(c) /\ Shaped(c) /\ Balanced(c) /\ c.preTerm \in Int
  BY OkParts DEF Good, IsChild
<1>2. /\ IsChild(d) /\ d.inc = c.inc /\ d.gen = c.gen
      /\ d.phase = c.phase /\ d.flow = c.flow /\ d.asm = c.asm
      /\ d.work = c.work + 1 /\ d.retained = c.retained
      /\ d.terminal = c.terminal /\ d.deliveries = c.deliveries
      /\ d.acks = c.acks /\ d.txnAcks = c.txnAcks
      /\ d.preTerm = c.preTerm + 1
  BY <1>1, SetWork
<1> HIDE DEF d, c
<1>3. Shaped(d)
  BY <1>1, <1>2 DEF Shaped, c
<1>4. PermitCount(d) = PermitCount(c) /\ PermitCount(c) \in {0, 1}
  BY <1>2, PermitIs DEF PermitCount
<1>5. c.asm \in Nat /\ c.work \in Nat /\ c.retained \in Nat
  BY <1>1, OwnIs
<1>6. Balanced(d)
  BY <1>1, <1>2, <1>4, <1>5 DEF Balanced
<1>7. Good(d) /\ Own(d) = Own(c) + 1
  <2>1. CASE c.flow = "none"
    <3>1. Own(d) = d.asm + d.work + d.retained /\ Own(c) = c.asm + c.work + c.retained
      BY <1>1, <1>2, <2>1, OwnIs
    <3> QED
      BY <1>2, <1>3, <1>5, <1>6, <3>1 DEF Good
  <2>2. CASE c.flow # "none"
    <3>1. /\ Own(d) = Frame + d.asm + d.work + d.retained
          /\ Own(c) = Frame + c.asm + c.work + c.retained
      BY <1>1, <1>2, <2>2, OwnIs
    <3> QED
      BY <1>2, <1>3, <1>5, <1>6, <3>1, StreamAssumption DEF Good
  <2> QED
    BY <2>1, <2>2
<1>8. Moves(c, d) /\ ClosesEmpty(c, d)
  BY <1>1, <1>2 DEF Moves, ClosesEmpty, c
<1> HIDE DEF n
<1>9. OneChange(m, n, s, d) /\ n.epoch = m.epoch
  BY <1>0, WithChildIs
<1>10. Sound(n) /\ Evolves(m, n, {s}) /\ Used(n) = Used(m) + Own(d) - Own(c)
  BY SMTT(40), <1>2, <1>7, <1>8, <1>9, OneChangeIs DEF c
<1>11. Used(m) \in Nat /\ BudgetLimit \in Nat /\ Own(c) \in Nat
  BY <1>1, OkParts, SharesTyped, StreamAssumption, OwnIs
<1>12. Fits(n)
  BY <1>7, <1>10, <1>11 DEF Fits
<1>13. Evolves(m, n, {})
  BY <1>8, <1>9, <1>10, OneMoves DEF OneChange, c
<1> QED
  BY <1>2, <1>9, <1>10, <1>12, <1>13 DEF n, Goes, Ok, Quiet, OneChange, c

LEMMA BufferChunkGoes ==
    ASSUME NEW m, Ok(m), NEW s, NEW g, CanBufferChunk(m, s, g)
    PROVE  LET n == BufferChunk(m, s)
           IN  /\ Goes(m, n, {}) /\ Quiet(m, n) /\ n.nextGen = m.nextGen
               /\ DOMAIN n.children = DOMAIN m.children
               /\ n.epoch = m.epoch /\ n.live = m.live
               /\ \A t \in DOMAIN m.children :
                    /\ n.children[t].phase = m.children[t].phase
                    /\ (n.children[t].flow = "none" <=> m.children[t].flow = "none")
<1> DEFINE c == m.children[s]
           p == IF c.asm = 0 THEN c.preTerm + 1 ELSE c.preTerm
           d == Chunks(c, p)
           n == BufferChunk(m, s)
<1>0. n = WithChild(m, s, d)
  BY Zenon DEF BufferChunk, Chunks
<1>1. /\ s \in DOMAIN m.children /\ c.phase \in {"Flowing", "Draining"}
      /\ c.flow # "none"
      /\ Used(m) - (IF c.asm = 0 THEN 0 ELSE 1) + 1 =< BudgetLimit
  BY DEF CanBufferChunk, Receiving, Has
<1>2. Good(c) /\ IsChild(c) /\ Shaped(c) /\ Balanced(c) /\ c.preTerm \in Int
  BY <1>1, OkParts DEF Good, IsChild
<1>3. p \in Int /\ c.asm \in {0, 1}
  BY <1>2 DEF IsChild
<1> HIDE DEF c
<1>4. /\ IsChild(d) /\ d.inc = c.inc /\ d.gen = c.gen
      /\ d.phase = c.phase /\ d.flow = "chunk" /\ d.asm = 1
      /\ d.work = c.work /\ d.retained = c.retained
      /\ d.terminal = c.terminal /\ d.deliveries = c.deliveries
      /\ d.acks = c.acks /\ d.txnAcks = c.txnAcks /\ d.preTerm = p
  <2> HIDE DEF p
  <2> QED
    BY <1>2, <1>3, SetChunk
<1> HIDE DEF d
<1>5. Shaped(d)
  BY <1>1, <1>2, <1>4 DEF Shaped
<1>6. PermitCount(d) = 1 /\ PermitCount(c) = 1
  BY <1>1, <1>4, PermitIs
<1>7. c.asm \in Nat /\ c.work \in Nat /\ c.retained \in Nat
  BY <1>2, OwnIs
<1>8. Balanced(d)
  BY <1>2, <1>3, <1>4, <1>6, <1>7 DEF Balanced
<1>9. Good(d) /\ Own(d) = Own(c) + (1 - c.asm) /\ Own(c) \in Nat
  <2>1. Own(d) = Frame + 1 + c.work + c.retained
    BY <1>4, OwnIs
  <2>2. Own(c) = Frame + c.asm + c.work + c.retained
    BY <1>1, <1>2, OwnIs
  <2> QED
    BY <1>2, <1>4, <1>5, <1>7, <1>8, <2>1, <2>2, StreamAssumption DEF Good
<1>10. Moves(c, d) /\ ClosesEmpty(c, d)
  BY <1>1, <1>2, <1>4 DEF Moves, ClosesEmpty
<1> HIDE DEF n
<1>11. OneChange(m, n, s, d) /\ n.epoch = m.epoch
  BY <1>0, <1>1, WithChildIs
<1>12. Sound(n) /\ Evolves(m, n, {s}) /\ Used(n) = Used(m) + Own(d) - Own(c)
  BY <1>1, <1>4, <1>9, <1>10, <1>11, OneChangeIs DEF c
<1>13. Used(m) \in Nat /\ BudgetLimit \in Nat
  BY OkParts, SharesTyped, StreamAssumption
<1>14. Fits(n)
  BY <1>1, <1>3, <1>9, <1>12, <1>13 DEF Fits
<1>15. Evolves(m, n, {})
  BY <1>1, <1>10, <1>11, <1>12, OneMoves DEF OneChange, c
<1> QED
  BY <1>1, <1>4, <1>11, <1>12, <1>14, <1>15 DEF n, Goes, Ok, Quiet, OneChange, c

(* What an arrival makes of its child: retained goes up by r. *)
Landed(c, d, r) ==
    /\ Good(d) /\ d.gen = c.gen /\ d.flow = "none" /\ d.retained = c.retained + r
    /\ (d.terminal <=> c.terminal) /\ d.deliveries = c.deliveries
    /\ d.acks = c.acks /\ d.txnAcks = c.txnAcks /\ Own(d) =< Own(c)
    /\ d.phase = AfterArrival(c)

LEMMA ArrivesIs ==
    ASSUME NEW c, Good(c), c.phase \in {"Flowing", "Draining"}, c.flow # "none"
    PROVE  Landed(c, Arrives(c, c.preTerm - (1 + c.asm + c.work) + 1, AfterArrival(c)), 1)
<1> DEFINE p == c.preTerm - (1 + c.asm + c.work) + 1
           q == AfterArrival(c)
           d == Arrives(c, p, q)
<1>1. IsChild(c) /\ Shaped(c) /\ Balanced(c) /\ c.preTerm \in Int
  BY DEF Good, IsChild
<1>2. c.asm \in Nat /\ c.work \in Nat /\ c.retained \in Nat
  BY <1>1, OwnIs
<1>3. p \in Int /\ q \in {"OpenBlocked", "Draining"} /\ q \in Phases
      /\ (q = "OpenBlocked" <=> c.phase = "Flowing")
  BY <1>1, <1>2 DEF AfterArrival, Phases
<1>4. p = c.preTerm - (1 + c.asm + c.work) + 1
  OBVIOUS
<1> HIDE DEF p, q
<1>5. /\ IsChild(d) /\ d.gen = c.gen /\ d.phase = q
      /\ d.flow = "none" /\ d.asm = 0 /\ d.work = 0
      /\ d.retained = c.retained + 1 /\ d.terminal = c.terminal
      /\ d.deliveries = c.deliveries /\ d.acks = c.acks
      /\ d.txnAcks = c.txnAcks /\ d.preTerm = p
  BY <1>1, <1>3, SetArrived
<1> HIDE DEF d
<1>6. Shaped(d)
  BY <1>1, <1>3, <1>5 DEF Shaped
<1>7. PermitCount(d) = 0 /\ PermitCount(c) = 1
  BY <1>5, PermitIs
<1>8. Balanced(d)
  BY <1>1, <1>2, <1>4, <1>5, <1>7 DEF Balanced
<1>9. Own(d) =< Own(c)
  <2>1. Own(d) = 0 + 0 + (c.retained + 1)
    BY <1>5, OwnIs
  <2>2. Own(c) = Frame + c.asm + c.work + c.retained
    BY <1>1, OwnIs
  <2> QED
    BY <1>2, <2>1, <2>2, StreamAssumption
<1>10. Landed(c, d, 1)
  BY <1>5, <1>6, <1>8, <1>9 DEF Landed, Good, q
<1> QED
  BY <1>10 DEF d, p, q

LEMMA LandedGoes ==
    ASSUME NEW m, Ok(m), m.phase = "Open", NEW s \in DOMAIN m.children, NEW d, NEW r \in {0, 1},
           m.children[s].phase \in {"Flowing", "Draining"},
           Landed(m.children[s], d, r)
    PROVE  LET n == WithChild(m, s, d)
           IN  /\ Goes(m, n, {s}) /\ OneChange(m, n, s, d) /\ n.epoch = m.epoch
<1> DEFINE c == m.children[s]
           n == WithChild(m, s, d)
<1>1. OneChange(m, n, s, d) /\ n.epoch = m.epoch
  BY WithChildIs
<1> HIDE DEF n
<1>2. ClosesEmpty(c, d)
  BY DEF ClosesEmpty, Landed, AfterArrival
<1>3. Sound(n) /\ Evolves(m, n, {s}) /\ Fits(n)
  BY <1>1, <1>2, OneChangeIs DEF Landed
<1> QED
  BY <1>1, <1>3 DEF n, Goes, Ok

LEMMA ArrivedGoes ==
    ASSUME NEW m, Ok(m), NEW s, NEW g, Receiving(m, s, g)
    PROVE  LET n == Arrived(m, s)
           IN  /\ Goes(m, n, {s}) /\ OneChange(m, n, s, n.children[s])
               /\ Landed(m.children[s], n.children[s], 1) /\ n.epoch = m.epoch
<1> DEFINE c == m.children[s]
           d == Arrives(c, c.preTerm - (1 + c.asm + c.work) + 1, AfterArrival(c))
           n == Arrived(m, s)
<1>1. n = WithChild(m, s, d)
  BY Zenon DEF Arrived, Arrives
<1>2. /\ s \in DOMAIN m.children /\ c.phase \in {"Flowing", "Draining"}
      /\ c.flow # "none" /\ m.phase = "Open"
  BY DEF Receiving, Has
<1>3. Good(c)
  BY <1>2, OkParts
<1>4. Landed(c, d, 1)
  <2> HIDE DEF c
  <2> QED
    BY <1>2, <1>3, ArrivesIs
<1> HIDE DEF d, n
<1>5. Goes(m, n, {s}) /\ OneChange(m, n, s, d) /\ n.epoch = m.epoch
  BY <1>1, <1>2, <1>4, LandedGoes
<1>6. n.children[s] = d
  BY <1>5 DEF OneChange
<1> QED
  BY <1>4, <1>5, <1>6 DEF n

LEMMA DiscardedGoes ==
    ASSUME NEW m, Ok(m), NEW s, NEW g, Receiving(m, s, g), Masked # {}
    PROVE  LET n == Discarded(m, s)
           IN  /\ Goes(m, n, {s}) /\ OneChange(m, n, s, n.children[s])
               /\ Landed(m.children[s], n.children[s], 0) /\ n.epoch = m.epoch
<1> DEFINE c == m.children[s]
           b == Arrived(m, s).children[s]
           d == [b EXCEPT !.retained = c.retained]
           n == Discarded(m, s)
<1>1. n = WithChild(m, s, d)
  BY Zenon DEF Discarded
<1>2. /\ s \in DOMAIN m.children /\ c.phase \in {"Flowing", "Draining"}
      /\ c.flow # "none" /\ m.phase = "Open"
  BY DEF Receiving, Has
<1>3. Good(c) /\ IsChild(c) /\ c.retained \in Nat
  BY <1>2, OkParts DEF Good, IsChild
<1>4. Landed(c, b, 1)
  BY ArrivedGoes
<1> HIDE DEF b, n
<1>5. Good(b) /\ IsChild(b) /\ Shaped(b) /\ Balanced(b) /\ b.preTerm \in Int
  BY <1>4 DEF Landed, Good, IsChild
<1>6. /\ IsChild(d) /\ d.gen = b.gen
      /\ d.phase = b.phase /\ d.flow = b.flow /\ d.asm = b.asm
      /\ d.work = b.work /\ d.retained = c.retained
      /\ d.terminal = b.terminal /\ d.deliveries = b.deliveries
      /\ d.acks = b.acks /\ d.txnAcks = b.txnAcks
      /\ d.preTerm = b.preTerm
  <2> DEFINE r == c.retained
  <2>1. r \in Nat
    BY <1>3
  <2> HIDE DEF r
  <2>2. LET e == [b EXCEPT !.retained = r]
        IN  /\ IsChild(e) /\ e.gen = b.gen
            /\ e.phase = b.phase /\ e.flow = b.flow /\ e.asm = b.asm
            /\ e.work = b.work /\ e.retained = r
            /\ e.terminal = b.terminal /\ e.deliveries = b.deliveries
            /\ e.acks = b.acks /\ e.txnAcks = b.txnAcks
            /\ e.preTerm = b.preTerm
    BY <1>5, <2>1, SetRetained
  <2> QED
    BY <2>2 DEF r
<1> HIDE DEF d
<1>7. b.retained = c.retained + 1 /\ b.flow = "none"
  BY <1>4 DEF Landed
<1>8. PermitCount(d) = 0 /\ PermitCount(b) = 0
  BY <1>6, <1>7, PermitIs
<1>9. b.asm \in Nat /\ b.work \in Nat
  BY <1>5, OwnIs
<1>10. Balanced(d)
  BY <1>3, <1>5, <1>6, <1>7, <1>8, <1>9 DEF Balanced
<1>11. b.phase \in {"OpenBlocked", "Draining"}
  BY <1>2, <1>4 DEF Landed, AfterArrival
<1>12. Shaped(d)
  BY <1>5, <1>6, <1>11 DEF Shaped
<1>13. Own(d) =< Own(c)
  <2>1. Own(b) = b.asm + b.work + b.retained /\ Own(d) = b.asm + b.work + c.retained
    BY <1>5, <1>6, <1>7, OwnIs
  <2>2. Own(b) =< Own(c) /\ Own(c) \in Nat
    BY <1>3, <1>4, OwnIs DEF Landed
  <2> QED
    BY <1>3, <1>7, <1>9, <2>1, <2>2
<1>14. Landed(c, d, 0)
  BY <1>3, <1>4, <1>6, <1>7, <1>10, <1>12, <1>13 DEF Landed, Good
<1>15. Goes(m, n, {s}) /\ OneChange(m, n, s, d) /\ n.epoch = m.epoch
  BY <1>1, <1>2, <1>14, LandedGoes
<1>16. n.children[s] = d
  BY <1>15 DEF OneChange
<1> QED
  BY <1>14, <1>15, <1>16 DEF n, c

(* Deliveries. *)
LEMMA IssuedIs ==
    ASSUME NEW c, Good(c), c.retained > 0, NEW g, NEW f
    PROVE  LET d == Issues(c, g, f)
           IN  /\ Good(d) /\ Own(d) = Own(c) - 1 /\ d.gen = c.gen /\ d.phase = c.phase
               /\ d.flow = c.flow /\ d.retained = c.retained - 1
               /\ (d.terminal <=> c.terminal) /\ d.deliveries = c.deliveries + 1
               /\ d.acks = c.acks /\ d.txnAcks = c.txnAcks /\ d.inc = c.inc
<1> DEFINE d == Issues(c, g, f)
<1>1. IsChild(c) /\ Shaped(c) /\ Balanced(c) /\ c.preTerm \in Int
  BY DEF Good, IsChild
<1>2. c.asm \in Nat /\ c.work \in Nat /\ c.retained \in Nat
  BY <1>1, OwnIs
<1>3. /\ IsChild(d) /\ d.gen = c.gen /\ d.inc = c.inc
      /\ d.phase = c.phase /\ d.flow = c.flow /\ d.asm = c.asm
      /\ d.work = c.work /\ d.retained = c.retained - 1
      /\ d.terminal = c.terminal /\ d.deliveries = c.deliveries + 1
      /\ d.acks = c.acks /\ d.txnAcks = c.txnAcks
      /\ d.preTerm = c.preTerm - 1
  BY <1>1, SetIssued
<1> HIDE DEF d
<1>4. Shaped(d)
  BY <1>1, <1>2, <1>3 DEF Shaped
<1>5. PermitCount(d) = PermitCount(c) /\ PermitCount(c) \in {0, 1}
  BY <1>3, PermitIs DEF PermitCount
<1>6. Balanced(d)
  BY <1>1, <1>2, <1>3, <1>5 DEF Balanced
<1>7. Own(d) = Own(c) - 1
  <2>1. CASE c.flow = "none"
    <3>1. Own(d) = d.asm + d.work + d.retained /\ Own(c) = c.asm + c.work + c.retained
      BY <1>1, <1>3, <2>1, OwnIs
    <3> QED
      BY <1>2, <1>3, <3>1
  <2>2. CASE c.flow # "none"
    <3>1. /\ Own(d) = Frame + d.asm + d.work + d.retained
          /\ Own(c) = Frame + c.asm + c.work + c.retained
      BY <1>1, <1>3, <2>2, OwnIs
    <3> QED
      BY <1>2, <1>3, <3>1, StreamAssumption
  <2> QED
    BY <2>1, <2>2
<1> QED
  BY <1>3, <1>4, <1>6, <1>7 DEF d, Good

Issuing(m, n, s) ==
    /\ Goes(m, n, {s}) /\ Quiet(m, n) /\ n.nextGen = m.nextGen
    /\ DOMAIN n.children = DOMAIN m.children /\ n.epoch = m.epoch
    /\ n.inc = m.inc /\ s \in DOMAIN m.children
    /\ \A t \in DOMAIN m.children : t # s => n.children[t] = m.children[t]
    /\ n.children[s].gen = m.children[s].gen /\ n.children[s].inc = m.children[s].inc
    /\ n.children[s].phase = m.children[s].phase
    /\ n.children[s].flow = m.children[s].flow
    /\ n.children[s].retained = m.children[s].retained - 1
    /\ (n.children[s].terminal <=> m.children[s].terminal)
    /\ n.children[s].acks = m.children[s].acks
    /\ n.children[s].txnAcks = m.children[s].txnAcks
    /\ m.children[s].retained > 0

LEMMA IssueGoes ==
    ASSUME NEW m, Ok(m), NEW s, NEW g, CanIssue(m, s, g), NEW id
    PROVE  Issuing(m, IssueDelivery(m, s, id), s)
<1> DEFINE c == m.children[s]
           again == s \in DOMAIN m.pos /\ m.pos[s] >= id
           d == Issues(c, c.ackGen + (IF again THEN 1 ELSE 0),
                       IF again THEN 0 ELSE c.confirmed)
           lease == [seq |-> m.nextSeq, seg |-> s, gen |-> c.gen, id |-> id]
           k == WithChild(m, s, d)
           L == m.live \cup {lease}
           n == IssueDelivery(m, s, id)
<1>1. n = PutIssued(k, PosAfter(m, s, id), m.nextSeq + 1, L)
  BY Zenon DEF IssueDelivery, PutIssued, Issues
<1>2. s \in DOMAIN m.children /\ c.retained > 0 /\ m.phase = "Open"
  BY DEF CanIssue, Has
<1>3. /\ Typed(m) /\ Numbered(m) /\ Leased(m) /\ Counted(m) /\ Phased(m)
      /\ IsFiniteSet(m.live) /\ m.nextSeq \in Nat /\ m.nextSeq + 1 \in Nat /\ Fits(m)
      /\ IsModel(m) /\ m.nextGen \in Nat
  BY OkParts
<1>4. Good(c) /\ IsChild(c)
  BY <1>2, OkParts DEF Good
<1>5. /\ Good(d) /\ Own(d) = Own(c) - 1 /\ d.gen = c.gen /\ d.phase = c.phase
      /\ d.flow = c.flow /\ d.retained = c.retained - 1
      /\ (d.terminal <=> c.terminal) /\ d.deliveries = c.deliveries + 1
      /\ d.acks = c.acks /\ d.txnAcks = c.txnAcks /\ d.inc = c.inc
  <2> HIDE DEF again, c
  <2> QED
    BY <1>2, <1>4, IssuedIs
<1>6. /\ lease.seq = m.nextSeq /\ lease.seg = s /\ lease.gen = c.gen
  OBVIOUS
<1> HIDE DEF d, lease
<1>7. /\ OneChange(m, k, s, d) /\ k.epoch = m.epoch /\ k.inc = m.inc
  BY <1>2, WithChildIs
<1> HIDE DEF k, n
<1>8. /\ IsModel(n) /\ n.phase = m.phase /\ n.inc = m.inc /\ n.epoch = m.epoch
      /\ n.children = k.children /\ n.nextGen = m.nextGen /\ n.live = L
      /\ n.nextSeq = m.nextSeq + 1 /\ n.ops = m.ops /\ n.nextOp = m.nextOp
  BY <1>1, <1>3, <1>7, PutIssuedIs DEF OneChange
<1>9. /\ DOMAIN n.children = DOMAIN m.children /\ n.children[s] = d
      /\ \A t \in DOMAIN m.children : t # s => n.children[t] = m.children[t]
  BY <1>7, <1>8 DEF OneChange
<1>10. Typed(n)
  BY <1>3, <1>5, <1>8, <1>9 DEF Typed
<1>11. Numbered(n)
  BY <1>3, <1>5, <1>8, <1>9 DEF Numbered
<1>12. \A t, h : Has(n, t, h) <=> Has(m, t, h)
  BY <1>5, <1>9 DEF Has
<1>13. IsFiniteSet(L) /\ lease \notin m.live
  <2>1. lease \notin m.live
    BY <1>3, <1>6 DEF Leased
  <2> QED
    BY <1>3, <2>1, FS_AddElement
<1>14. ASSUME NEW t \in DOMAIN m.children, t # s PROVE Leases(n, t) = Leases(m, t)
  BY <1>6, <1>8, <1>9, <1>14 DEF Leases
<1>15. /\ Leases(n, s) = Leases(m, s) \cup {lease}
       /\ Cardinality(Leases(n, s)) = Cardinality(Leases(m, s)) + 1
       /\ Cardinality(Leases(m, s)) \in Nat
  <2>1. Leases(n, s) = Leases(m, s) \cup {lease}
    BY <1>5, <1>6, <1>8, <1>9 DEF Leases
  <2>2. lease \notin Leases(m, s)
    BY <1>13 DEF Leases
  <2>3. IsFiniteSet(Leases(m, s)) /\ Cardinality(Leases(m, s)) \in Nat
    BY <1>3, LeasesFinite
  <2> QED
    BY <2>1, <2>2, <2>3, FS_AddElement
<1>16. Leased(n)
  <2>1. ASSUME NEW t \in DOMAIN m.children
        PROVE  n.children[t].deliveries = Cardinality(Leases(n, t))
    <3>1. CASE t = s
      BY <1>2, <1>3, <1>5, <1>9, <1>15, <3>1 DEF Leased
    <3>2. CASE t # s
      BY <1>3, <1>9, <1>14, <3>2 DEF Leased
    <3> QED
      BY <3>1, <3>2
  <2>2. ASSUME NEW e \in L
        PROVE  e.seq \in Nat /\ e.seq < m.nextSeq + 1 /\ Has(n, e.seg, e.gen)
    <3>1. CASE e \in m.live
      BY <1>3, <1>12, <3>1 DEF Leased
    <3>2. CASE e = lease
      BY <1>2, <1>3, <1>6, <1>12, <3>2 DEF Has
    <3> QED
      BY <3>1, <3>2
  <2> HIDE DEF L
  <2> QED
    BY <1>8, <1>9, <1>13, <2>1, <2>2 DEF Leased
<1>17. Counted(n)
  <2>1. \A t : AcksOn(n, t) = AcksOn(m, t) /\ TxnAcksOn(n, t) = TxnAcksOn(m, t)
    BY <1>8 DEF AcksOn, TxnAcksOn
  <2>2. \A t \in DOMAIN m.children :
           /\ n.children[t].phase = m.children[t].phase
           /\ n.children[t].acks = m.children[t].acks
           /\ n.children[t].txnAcks = m.children[t].txnAcks
    BY <1>5, <1>9
  <2>3. ASSUME NEW op \in m.ops, NEW e \in op.comps
        PROVE  Has(n, e.seg, e.gen) /\ n.children[e.seg].phase # "Closing"
    <3>1. Has(m, e.seg, e.gen) /\ m.children[e.seg].phase # "Closing"
      BY <1>3 DEF Counted
    <3>2. e.seg \in DOMAIN m.children
      BY <3>1 DEF Has
    <3> QED
      BY <1>12, <2>2, <3>1, <3>2
  <2> QED
    BY <1>3, <1>8, <1>9, <2>1, <2>2, <2>3 DEF Counted
<1>18. Phased(n)
  BY <1>2, <1>8 DEF Phased
<1>19. Fits(n)
  <2>1. ASSUME NEW t \in DOMAIN n.children
        PROVE  Owned(n, t) =< (IF t \in DOMAIN m.children THEN Owned(m, t) ELSE 0)
    <3>1. t \in DOMAIN m.children /\ Owned(m, t) \in Nat
      BY <1>3, <1>9, SharesTyped
    <3>2. CASE t # s
      <4>1. Owned(n, t) = Owned(m, t)
        BY <1>9, <1>14, <3>1, <3>2, OwnedIs
      <4> QED
        BY <3>1, <4>1
    <3>3. CASE t = s
      <4>1. /\ Owned(n, s) = Own(d) + Cardinality(Leases(n, s))
            /\ Owned(m, s) = Own(c) + Cardinality(Leases(m, s))
        BY <1>9, OwnedIs
      <4>2. Own(c) \in Nat
        BY <1>4, OwnIs
      <4> QED
        BY <1>5, <1>15, <3>1, <3>3, <4>1, <4>2
    <3> QED
      BY <3>2, <3>3
  <2>2. Used(n) =< Used(m)
    BY <1>3, <1>8, <1>10, <1>13, <2>1, UsedShrinks
  <2>3. Used(n) \in Nat /\ Used(m) \in Nat /\ BudgetLimit \in Nat
    BY <1>3, <1>8, <1>10, <1>13, SharesTyped, StreamAssumption
  <2> QED
    BY <1>3, <2>2, <2>3 DEF Fits
<1>20. Evolves(m, n, {s})
  BY <1>3, <1>8, <1>9, StaysPut, MovesEvolve
<1> QED
  BY <1>2, <1>5, <1>8, <1>9, <1>10, <1>11, <1>16, <1>17, <1>18, <1>19, <1>20
     DEF n, c, Goes, Ok, Sound, Quiet, Issuing

(* Leases are given back. *)
Gone(m, D) == {d \in m.live : d.seq \in D}
GoneOf(m, D, s) == {d \in Gone(m, D) : d.seg = s}
Delivered(c, k) == [c EXCEPT !.deliveries = k]

Unleased(m, D) ==
    PutLive(m, m.live \ Gone(m, D),
            [s \in DOMAIN m.children |->
               Delivered(m.children[s],
                         m.children[s].deliveries - Cardinality(GoneOf(m, D, s)))])

(* What a step that only settles says of a child. *)
Rests(c, d) ==
    /\ Good(d) /\ Moves(c, d) /\ ClosesEmpty(c, d)
    /\ d.acks = c.acks /\ d.txnAcks = c.txnAcks
    /\ c.phase = "Opening" => d.phase = "Opening"

Resting(m, n) ==
    /\ DOMAIN n.children = DOMAIN m.children /\ n.nextGen = m.nextGen
    /\ n.phase = m.phase /\ n.epoch = m.epoch /\ n.inc = m.inc
    /\ n.ops = m.ops /\ n.nextOp = m.nextOp
    /\ \A s \in DOMAIN m.children : Rests(m.children[s], n.children[s])

LEMMA RestsCompose ==
    ASSUME NEW c, NEW d, NEW e, Rests(c, d), Rests(d, e)
    PROVE  Rests(c, e)
<1>1. Moves(c, e)
  BY MovesCompose DEF Rests
<1>2. e.retained = d.retained
  BY DEF Rests, Moves
<1>3. ClosesEmpty(c, e)
  BY <1>2 DEF Rests, ClosesEmpty
<1> QED
  BY <1>1, <1>3 DEF Rests

LEMMA UnleasedGoes ==
    ASSUME NEW m, Ok(m), NEW D
    PROVE  LET n == Unleased(m, D)
           IN  /\ Ok(n) /\ Evolves(m, n, {}) /\ Resting(m, n)
               /\ \A s \in DOMAIN m.children :
                     /\ n.children[s].phase = m.children[s].phase
                     /\ n.children[s].flow = m.children[s].flow
<1> DEFINE G == Gone(m, D)
           Of(s) == GoneOf(m, D, s)
           C == [s \in DOMAIN m.children |->
                   Delivered(m.children[s],
                             m.children[s].deliveries - Cardinality(Of(s)))]
           n == Unleased(m, D)
<1>1. n = PutLive(m, m.live \ G, C)
  BY DEF Unleased
<1>2. /\ Typed(m) /\ Numbered(m) /\ Leased(m) /\ Counted(m) /\ Phased(m)
      /\ IsFiniteSet(m.live) /\ Fits(m) /\ IsModel(m) /\ m.nextGen \in Nat
  BY OkParts
<1>3. ASSUME NEW s \in DOMAIN m.children
      PROVE  /\ Of(s) \in SUBSET Leases(m, s)
             /\ {d \in m.live \ G : d.seg = s /\ d.gen = m.children[s].gen}
                   = Leases(m, s) \ Of(s)
             /\ Cardinality(Of(s)) \in Nat /\ Cardinality(Leases(m, s)) \in Nat
             /\ Cardinality(Leases(m, s) \ Of(s)) =
                  Cardinality(Leases(m, s)) - Cardinality(Of(s))
             /\ Cardinality(Of(s)) =< Cardinality(Leases(m, s))
  <2>1. Of(s) \in SUBSET Leases(m, s)
    BY <1>2 DEF Gone, GoneOf, Leases, Leased, Has
  <2>2. {d \in m.live \ G : d.seg = s /\ d.gen = m.children[s].gen}
           = Leases(m, s) \ Of(s)
    BY DEF Gone, GoneOf, Leases
  <2>3. IsFiniteSet(Leases(m, s)) /\ Cardinality(Leases(m, s)) \in Nat
    BY <1>2, LeasesFinite
  <2> HIDE DEF Of
  <2>4. IsFiniteSet(Of(s)) /\ Cardinality(Of(s)) =< Cardinality(Leases(m, s))
    BY <2>1, <2>3, FS_Subset
  <2>5. Cardinality(Of(s)) \in Nat
    BY <2>4, FS_CardinalityType
  <2>6. Leases(m, s) \cap Of(s) = Of(s)
    BY <2>1
  <2>7. Cardinality(Leases(m, s) \ Of(s)) = Cardinality(Leases(m, s)) - Cardinality(Of(s))
    BY SMTT(40), <2>3, <2>4, <2>6, FS_Difference
  <2> QED
    BY <2>1, <2>2, <2>3, <2>4, <2>5, <2>7 DEF Of
<1>4. ASSUME NEW s \in DOMAIN m.children
      PROVE  LET c == m.children[s]
                 d == C[s]
             IN  /\ Good(d) /\ Own(d) = Own(c) /\ d.gen = c.gen /\ d.phase = c.phase
                 /\ d.inc = c.inc
                 /\ d.flow = c.flow /\ d.retained = c.retained
                 /\ (d.terminal <=> c.terminal) /\ d.acks = c.acks
                 /\ d.txnAcks = c.txnAcks
                 /\ d.deliveries = Cardinality(Leases(m, s) \ Of(s))
                 /\ Cardinality(Leases(m, s) \ Of(s)) =< Cardinality(Leases(m, s))
  <2> DEFINE c == m.children[s]
             k == c.deliveries - Cardinality(Of(s))
             d == C[s]
  <2>1. d = [c EXCEPT !.deliveries = k]
    BY DEF Delivered
  <2>2. Good(c) /\ IsChild(c) /\ Shaped(c) /\ c.deliveries = Cardinality(Leases(m, s))
    BY <1>2 DEF Typed, Good, Leased
  <2>3. /\ k \in Int /\ k = Cardinality(Leases(m, s) \ Of(s))
        /\ k \in Nat /\ k =< c.deliveries
    <3> DEFINE x == Cardinality(Of(s))
               y == Cardinality(Leases(m, s))
               z == Cardinality(Leases(m, s) \ Of(s))
    <3>1. x \in Nat /\ y \in Nat /\ z = y - x /\ x =< y /\ c.deliveries = y
      BY <1>3, <2>2
    <3>2. k = c.deliveries - x
      OBVIOUS
    <3> HIDE DEF x, y, z, k
    <3>3. k \in Int /\ k = z /\ k \in Nat /\ k =< c.deliveries
      BY <3>1, <3>2
    <3> QED
      BY <3>3 DEF z
  <2> HIDE DEF d, k, c
  <2>4. /\ IsChild(d) /\ d.inc = c.inc /\ d.gen = c.gen
        /\ d.phase = c.phase /\ d.flow = c.flow /\ d.asm = c.asm
        /\ d.work = c.work /\ d.retained = c.retained
        /\ d.terminal = c.terminal /\ d.deliveries = k
        /\ d.acks = c.acks /\ d.txnAcks = c.txnAcks
        /\ d.preTerm = c.preTerm
    BY <2>1, <2>2, <2>3, SetDeliveries
  <2>5. Shaped(d)
    BY <2>2, <2>3, <2>4 DEF Shaped
  <2>6. Good(d) /\ Own(d) = Own(c)
    BY <2>2, <2>4, <2>5, StaysGood
  <2>7. Cardinality(Leases(m, s) \ Of(s)) =< Cardinality(Leases(m, s))
    BY <2>2, <2>3
  <2> QED
    BY <2>3, <2>4, <2>6, <2>7 DEF d, c
<1>5. DOMAIN C = DOMAIN m.children
  OBVIOUS
<1> HIDE DEF C, n, Of
<1>6. /\ IsModel(n) /\ n.phase = m.phase /\ n.inc = m.inc /\ n.epoch = m.epoch
      /\ n.children = C /\ n.nextGen = m.nextGen /\ n.live = m.live \ G
      /\ n.nextSeq = m.nextSeq /\ n.ops = m.ops /\ n.nextOp = m.nextOp
      /\ n.pending = m.pending
  BY <1>1, <1>2, PutLiveIs
<1>20. ASSUME NEW s \in DOMAIN m.children
       PROVE  /\ n.children[s].phase = m.children[s].phase
              /\ n.children[s].acks = m.children[s].acks
              /\ n.children[s].txnAcks = m.children[s].txnAcks
  BY <1>4, <1>6
<1>21. DOMAIN n.children = DOMAIN m.children
  BY <1>5, <1>6
<1>7. Typed(n)
  BY <1>2, <1>4, <1>5, <1>6 DEF Typed
<1>8. Numbered(n)
  BY <1>2, <1>4, <1>5, <1>6 DEF Numbered
<1>9. \A t, h : Has(n, t, h) <=> Has(m, t, h)
  BY <1>4, <1>5, <1>6 DEF Has
<1>10. ASSUME NEW s \in DOMAIN m.children PROVE Leases(n, s) = Leases(m, s) \ Of(s)
  BY <1>3, <1>4, <1>6 DEF Leases
<1>11. IsFiniteSet(n.live)
  <2>1. n.live \in SUBSET m.live
    BY <1>6
  <2> QED
    BY <1>2, <2>1, FS_Subset
<1>12. Leased(n)
  <2>1. \A s \in DOMAIN n.children :
           n.children[s].deliveries = Cardinality(Leases(n, s))
    BY <1>4, <1>5, <1>6, <1>10
  <2>2. \A d \in n.live : d \in m.live
    BY <1>6
  <2> QED
    BY <1>2, <1>6, <1>9, <1>11, <2>1, <2>2 DEF Leased
<1>13. Counted(n)
  <2>1. \A t : AcksOn(n, t) = AcksOn(m, t) /\ TxnAcksOn(n, t) = TxnAcksOn(m, t)
    BY <1>6 DEF AcksOn, TxnAcksOn
  <2>3. ASSUME NEW op \in m.ops, NEW e \in op.comps
        PROVE  Has(n, e.seg, e.gen) /\ n.children[e.seg].phase # "Closing"
    <3>1. Has(m, e.seg, e.gen) /\ m.children[e.seg].phase # "Closing"
      BY <1>2 DEF Counted
    <3>2. e.seg \in DOMAIN m.children
      BY <3>1 DEF Has
    <3> QED
      BY <1>4, <1>6, <1>9, <3>1, <3>2
  <2> QED
    BY <1>2, <1>6, <1>20, <1>21, <2>1, <2>3 DEF Counted
<1>14. Phased(n)
  BY <1>2, <1>6, <1>20, <1>21 DEF Phased
<1>15. Fits(n)
  <2>1. ASSUME NEW t \in DOMAIN n.children
        PROVE  Owned(n, t) =< (IF t \in DOMAIN m.children THEN Owned(m, t) ELSE 0)
    <3>1. t \in DOMAIN m.children /\ Owned(m, t) \in Nat
      BY <1>2, <1>5, <1>6, SharesTyped
    <3>2. /\ Owned(n, t) = Own(m.children[t]) + Cardinality(Leases(n, t))
          /\ Owned(m, t) = Own(m.children[t]) + Cardinality(Leases(m, t))
      BY <1>4, <1>6, <3>1, OwnedIs
    <3>3. Own(m.children[t]) \in Nat
      BY <1>2, <3>1, OwnIs DEF Typed, Good
    <3>4. Leases(n, t) = Leases(m, t) \ Of(t)
      BY <1>10, <3>1
    <3>5. /\ Cardinality(Leases(m, t) \ Of(t)) =< Cardinality(Leases(m, t))
          /\ Cardinality(Leases(m, t)) \in Nat /\ Cardinality(Of(t)) \in Nat
          /\ Cardinality(Leases(m, t) \ Of(t)) =
               Cardinality(Leases(m, t)) - Cardinality(Of(t))
      BY <1>3, <1>4, <3>1
    <3> QED
      BY <3>1, <3>2, <3>3, <3>4, <3>5
  <2>2. Used(n) =< Used(m)
    BY <1>2, <1>7, <1>11, <2>1, UsedShrinks
  <2>3. Used(n) \in Nat /\ Used(m) \in Nat /\ BudgetLimit \in Nat
    BY <1>2, <1>7, <1>11, SharesTyped, StreamAssumption
  <2> QED
    BY <1>2, <2>2, <2>3 DEF Fits
<1>16. \A s \in DOMAIN m.children : Rests(m.children[s], n.children[s])
  BY <1>4, <1>6 DEF Rests, Moves, ClosesEmpty
<1>17. Evolves(m, n, {}) /\ Resting(m, n)
  BY <1>2, <1>5, <1>6, <1>16, MovesEvolve DEF Rests, Resting
<1>18. Ok(n)
  BY <1>7, <1>8, <1>12, <1>13, <1>14, <1>15 DEF Ok, Sound
<1>19. \A s \in DOMAIN m.children : /\ n.children[s].phase = m.children[s].phase
                                    /\ n.children[s].flow = m.children[s].flow
  BY <1>4, <1>6
<1> QED
  BY <1>17, <1>18, <1>19 DEF n

LEMMA RestingCompose ==
    ASSUME NEW m, NEW k, NEW n, Resting(m, k), Resting(k, n)
    PROVE  Resting(m, n)
<1>1. ASSUME NEW s \in DOMAIN m.children PROVE Rests(m.children[s], n.children[s])
  <2>1. Rests(m.children[s], k.children[s]) /\ Rests(k.children[s], n.children[s])
    BY DEF Resting
  <2> QED
    BY <2>1, RestsCompose
<1> QED
  BY <1>1 DEF Resting

LEMMA RestingSame ==
    ASSUME NEW m, Ok(m)
    PROVE  Resting(m, m)
<1>1. \A s \in DOMAIN m.children : Rests(m.children[s], m.children[s])
  BY OkParts, StaysPut DEF Rests
<1> QED
  BY <1>1 DEF Resting

(* A step, and then one that only settles. *)
LEMMA EvolvesRest ==
    ASSUME NEW m, NEW k, NEW n, NEW X, Evolves(m, k, X), Resting(k, n),
           DOMAIN k.children \subseteq DOMAIN m.children \cup X
    PROVE  Evolves(m, n, X)
<1>1. ASSUME NEW s \in DOMAIN m.children \ X
      PROVE  /\ s \in DOMAIN n.children /\ Moves(m.children[s], n.children[s])
             /\ m.phase = "Open" /\ n.phase = "Open" =>
                  ClosesEmpty(m.children[s], n.children[s])
  <2>1. /\ s \in DOMAIN k.children /\ Moves(m.children[s], k.children[s])
        /\ m.phase = "Open" /\ k.phase = "Open" =>
             ClosesEmpty(m.children[s], k.children[s])
    BY DEF Evolves
  <2>2. Rests(k.children[s], n.children[s]) /\ s \in DOMAIN n.children /\ n.phase = k.phase
    BY <2>1 DEF Resting
  <2>3. Moves(m.children[s], n.children[s])
    BY <2>1, <2>2, MovesCompose DEF Rests
  <2>4. n.children[s].retained = k.children[s].retained
    BY <2>2 DEF Rests, Moves
  <2>5. m.phase = "Open" /\ n.phase = "Open" => ClosesEmpty(m.children[s], n.children[s])
    BY <2>1, <2>2, <2>4 DEF Rests, ClosesEmpty
  <2> QED
    BY <2>2, <2>3, <2>5
<1>2. n.nextGen >= m.nextGen
  BY DEF Evolves, Resting
<1>3. DOMAIN n.children \ (DOMAIN m.children \cup X) = {}
  BY DEF Resting
<1> QED
  BY <1>1, <1>2, <1>3 DEF Evolves

LEMMA CloseRests ==
    ASSUME NEW m, Ok(m), NEW S
    PROVE  Ok(CloseIfDrained(m, S)) /\ Resting(m, CloseIfDrained(m, S))
<1> DEFINE n == CloseIfDrained(m, S)
<1>1. /\ Goes(m, n, {}) /\ DOMAIN n.children = DOMAIN m.children
      /\ n.phase = m.phase /\ n.inc = m.inc /\ n.epoch = m.epoch
      /\ n.nextGen = m.nextGen /\ n.ops = m.ops /\ n.nextOp = m.nextOp
      /\ \A s \in DOMAIN m.children :
           /\ Alike(m.children[s], n.children[s])
           /\ m.children[s].phase = "Opening" => n.children[s].phase = "Opening"
  BY CloseIfDrainedGoes
<1> HIDE DEF n
<1>2. Ok(n)
  BY <1>1 DEF Goes
<1>3. ASSUME NEW s \in DOMAIN m.children PROVE Rests(m.children[s], n.children[s])
  <2>1. Good(n.children[s])
    BY <1>1, <1>2, OkParts
  <2>2. Moves(m.children[s], n.children[s])
    BY <1>1 DEF Goes, Evolves
  <2>3. ClosesEmpty(m.children[s], n.children[s])
    <3>1. CASE m.phase = "Open"
      BY <1>1, <3>1 DEF Goes, Evolves
    <3>2. CASE m.phase # "Open"
      BY <3>2, OkParts DEF Phased, ClosesEmpty
    <3> QED
      BY <3>1, <3>2
  <2> QED
    BY <1>1, <2>1, <2>2, <2>3 DEF Rests, Alike
<1> QED
  BY <1>1, <1>2, <1>3 DEF Resting, n

LEMMA ArbitrateRests ==
    ASSUME NEW m, Ok(m)
    PROVE  Ok(ArbitrateFlow(m)) /\ Resting(m, ArbitrateFlow(m))
<1> DEFINE n == ArbitrateFlow(m)
<1>1. Typed(m)
  BY OkParts
<1>2. Ok(n) /\ Arbitrated(m, n)
  BY OkParts, ArbitrateSound DEF Ok
<1> HIDE DEF n
<1>3. \A s \in DOMAIN m.children : Rests(m.children[s], n.children[s])
  BY <1>1, <1>2, ArbitratedChild DEF Rests
<1> QED
  BY <1>2, <1>3 DEF Resting, Arbitrated, n

LEMMA ResolveGoes ==
    ASSUME NEW m, Ok(m), NEW D
    PROVE  Ok(ResolveLeases(m, D)) /\ Resting(m, ResolveLeases(m, D))
<1> DEFINE k == Unleased(m, D)
           S == {d.seg : d \in Gone(m, D)}
           j == CloseIfDrained(k, S)
           n == ArbitrateFlow(j)
<1>1. ResolveLeases(m, D) = IF Gone(m, D) = {} THEN m ELSE n
  BY Zenon DEF ResolveLeases, Gone, GoneOf, Unleased, PutLive, Delivered
<1>2. Ok(k) /\ Resting(m, k)
  BY UnleasedGoes
<1> HIDE DEF k, S
<1>3. Ok(j) /\ Resting(k, j)
  BY <1>2, CloseRests
<1> HIDE DEF j
<1>4. Ok(n) /\ Resting(j, n)
  BY <1>3, ArbitrateRests
<1> HIDE DEF n
<1>5. Resting(m, n)
  BY <1>2, <1>3, <1>4, RestingCompose
<1> QED
  BY <1>1, <1>4, <1>5, RestingSame

LEMMA EndsIs ==
    ASSUME NEW c, Good(c), c.phase # "Opening", NEW p,
           p = IF c.phase \in {"Draining", "Closing"} THEN c.phase ELSE "Terminal"
    PROVE  LET d == Ends(c, c.preTerm - PermitCount(c), p)
           IN  /\ Good(d) /\ Own(d) =< Own(c) /\ d.gen = c.gen /\ d.phase = p
               /\ d.flow = "none" /\ d.retained = c.retained /\ d.terminal
               /\ d.deliveries = c.deliveries /\ d.acks = c.acks
               /\ d.txnAcks = c.txnAcks
<1> DEFINE q == c.preTerm - PermitCount(c)
           d == Ends(c, q, p)
<1>1. IsChild(c) /\ Shaped(c) /\ Balanced(c) /\ c.preTerm \in Int
  BY DEF Good, IsChild
<1>2. c.asm \in Nat /\ c.work \in Nat /\ c.retained \in Nat
  BY <1>1, OwnIs
<1>3. p \in Phases /\ p \in {"Draining", "Closing", "Terminal"}
  BY DEF Phases
<1>4. PermitCount(c) \in {0, 1} /\ q \in Int /\ q = c.preTerm - PermitCount(c)
  BY <1>1, PermitIs
<1> HIDE DEF q
<1>5. /\ IsChild(d) /\ d.gen = c.gen /\ d.phase = p
      /\ d.flow = "none" /\ d.asm = c.asm /\ d.work = c.work
      /\ d.retained = c.retained /\ d.terminal
      /\ d.deliveries = c.deliveries /\ d.acks = c.acks
      /\ d.txnAcks = c.txnAcks /\ d.preTerm = q
  BY <1>1, <1>3, <1>4, SetTerminal
<1> HIDE DEF d
<1>6. Shaped(d)
  BY <1>3, <1>5 DEF Shaped
<1>7. PermitCount(d) = 0
  BY <1>5, PermitIs
<1>8. Balanced(d)
  BY <1>1, <1>2, <1>4, <1>5, <1>7 DEF Balanced
<1>9. Own(d) =< Own(c)
  <2>1. Own(d) = c.asm + c.work + c.retained
    BY <1>5, OwnIs
  <2>2. Own(c) = c.asm + c.work + c.retained \/ Own(c) = Frame + c.asm + c.work + c.retained
    BY <1>1, OwnIs
  <2> QED
    BY <1>2, <2>1, <2>2, StreamAssumption
<1> QED
  BY <1>5, <1>6, <1>8, <1>9 DEF d, q, Good

LEMMA ObserveTerminalGoes ==
    ASSUME NEW m, Ok(m), NEW s \in DOMAIN m.children, m.children[s].phase # "Opening"
    PROVE  LET n == ObserveTerminal(m, s)
           IN  /\ Goes(m, n, {s}) /\ Quiet(m, n) /\ n.nextGen = m.nextGen
               /\ n.epoch = m.epoch /\ n.inc = m.inc
               /\ DOMAIN n.children = DOMAIN m.children
               /\ LET c == m.children[s]
                      d == n.children[s]
                  IN  /\ d.gen = c.gen /\ d.flow = "none" /\ d.terminal
                      /\ d.retained = c.retained
                      /\ d.phase \in {"Terminal", "Draining", "Closing"}
                      /\ c.phase = "Closing" => d.phase = "Closing"
                      /\ ClosesEmpty(c, d)
<1> DEFINE c == m.children[s]
           p == IF c.phase \in {"Draining", "Closing"} THEN c.phase ELSE "Terminal"
           d == Ends(c, c.preTerm - PermitCount(c), p)
           k == WithChild(m, s, d)
           j == CloseIfDrained(k, {s})
           n == ArbitrateFlow(j)
<1>0. ObserveTerminal(m, s) = n
  BY Zenon DEF ObserveTerminal, Ends
<1>1. Good(c)
  BY OkParts
<1>2. /\ Good(d) /\ Own(d) =< Own(c) /\ d.gen = c.gen /\ d.phase = p
      /\ d.flow = "none" /\ d.retained = c.retained /\ d.terminal
      /\ d.deliveries = c.deliveries /\ d.acks = c.acks
      /\ d.txnAcks = c.txnAcks
  <2>1. p = IF c.phase \in {"Draining", "Closing"} THEN c.phase ELSE "Terminal"
    OBVIOUS
  <2> HIDE DEF p
  <2> QED
    BY <1>1, <2>1, EndsIs
<1> HIDE DEF d
<1>3. /\ OneChange(m, k, s, d) /\ k.epoch = m.epoch /\ k.inc = m.inc
  BY WithChildIs
<1> HIDE DEF k
<1>4. (c.phase = "Closing" => d.phase = "Closing") /\ (d.phase = "Closing" => c.phase = "Closing")
  BY <1>2
<1>5. ClosesEmpty(c, d)
  BY <1>4 DEF ClosesEmpty
<1>6. Ok(k) /\ Evolves(m, k, {s})
  BY <1>2, <1>3, <1>4, <1>5, OneChangeIs DEF Ok
<1>7. Ok(j) /\ Resting(k, j) /\ j.children[s].flow = k.children[s].flow
  <2>1. k.children[s] = d /\ s \in DOMAIN k.children
    BY <1>3 DEF OneChange
  <2> QED
    BY <1>6, <2>1, CloseRests, CloseIfDrainedGoes
<1> HIDE DEF j
<1>8. Ok(n) /\ Resting(j, n) /\ Arbitrated(j, n)
  BY <1>7, ArbitrateRests, ArbitrateSound DEF Ok
<1> HIDE DEF n
<1>9. Resting(k, n)
  BY <1>7, <1>8, RestingCompose
<1>10. /\ DOMAIN k.children = DOMAIN m.children /\ k.children[s] = d
       /\ k.phase = m.phase /\ k.nextGen = m.nextGen /\ k.ops = m.ops
       /\ k.nextOp = m.nextOp
  BY <1>3 DEF OneChange
<1>11. Evolves(m, n, {s})
  BY <1>6, <1>9, <1>10, EvolvesRest
<1>12. Rests(d, n.children[s]) /\ Rests(d, j.children[s]) /\ s \in DOMAIN j.children
  BY <1>7, <1>9, <1>10 DEF Resting
<1>13. j.children[s].terminal /\ Good(j.children[s]) /\ j.children[s].flow = "none"
  BY <1>2, <1>7, <1>10, <1>12 DEF Rests, Moves
<1>14. j.children[s].phase \in {"Terminal", "Draining", "Closing"}
  BY <1>13 DEF Good, Shaped
<1>15. n.children[s] = j.children[s]
  BY <1>7, <1>8, <1>12, <1>14, OkParts, ArbitratedChild
<1>16. ClosesEmpty(c, n.children[s])
  <2>1. ClosesEmpty(d, n.children[s])
    BY <1>12 DEF Rests
  <2> QED
    BY <1>4, <2>1 DEF ClosesEmpty
<1>17. /\ n.children[s].gen = c.gen /\ n.children[s].retained = c.retained
       /\ (c.phase = "Closing" => n.children[s].phase = "Closing")
  BY <1>2, <1>4, <1>12 DEF Rests, Moves
<1> QED
  BY <1>0, <1>3, <1>8, <1>9, <1>10, <1>11, <1>13, <1>14, <1>15, <1>16, <1>17
     DEF n, Goes, Quiet, Resting

LEMMA CompleteGoes ==
    ASSUME NEW m, Ok(m), NEW s
    PROVE  Ok(CompleteSegment(m, s)) /\ Resting(m, CompleteSegment(m, s))
<1> DEFINE k == PutCompleted(m, m.completed \cup {s})
           n == CompleteSegment(m, s)
<1>1. n = ArbitrateFlow(k)
  BY Zenon DEF CompleteSegment, PutCompleted
<1>2. IsModel(m) /\ Phased(m)
  BY OkParts
<1>3. k = PutCompleted(m, m.completed \cup {s})
  OBVIOUS
<1> HIDE DEF k, n
<1>4. SameChildren(m, k) /\ k.epoch = m.epoch /\ k.inc = m.inc
  BY <1>2, <1>3, PutCompletedIs DEF SameChildren, Phased
<1>5. Ok(k)
  BY <1>4, SameChildrenGoes DEF Goes
<1>6. Resting(m, k)
  BY <1>4, RestingSame DEF Resting, SameChildren
<1>7. Ok(n) /\ Resting(k, n)
  BY <1>1, <1>5, ArbitrateRests
<1> QED
  BY <1>6, <1>7, RestingCompose DEF n

-----------------------------------------------------------------------------
(* Admitted operations.                                                    *)

On(op, s) == \E c \in op.comps : c.seg = s

(* One operation more, or, read backwards, one less. *)
LEMMA OneMoreOp ==
    ASSUME NEW m, NEW n, NEW op, IsFiniteSet(m.ops), op \notin m.ops,
           n.ops = m.ops \cup {op}, NEW s
    PROVE  /\ IsFiniteSet(n.ops)
           /\ Cardinality(AcksOn(m, s)) \in Nat /\ Cardinality(TxnAcksOn(m, s)) \in Nat
           /\ ~On(op, s) =>
                AcksOn(n, s) = AcksOn(m, s) /\ TxnAcksOn(n, s) = TxnAcksOn(m, s)
<1>1. IsFiniteSet(n.ops)
  BY FS_AddElement
<1>2. AcksOn(m, s) \in SUBSET m.ops /\ TxnAcksOn(m, s) \in SUBSET m.ops
  BY DEF AcksOn, TxnAcksOn
<1>3. /\ IsFiniteSet(AcksOn(m, s)) /\ IsFiniteSet(TxnAcksOn(m, s))
      /\ Cardinality(AcksOn(m, s)) \in Nat /\ Cardinality(TxnAcksOn(m, s)) \in Nat
      /\ op \notin AcksOn(m, s) /\ op \notin TxnAcksOn(m, s)
  BY <1>2, FS_Subset, FS_CardinalityType
<1>6. ~On(op, s) =>
        AcksOn(n, s) = AcksOn(m, s) /\ TxnAcksOn(n, s) = TxnAcksOn(m, s)
  BY DEF AcksOn, TxnAcksOn, On
<1> QED
  BY <1>1, <1>3, <1>6

LEMMA OnePlainOp ==
    ASSUME NEW m, NEW n, NEW op, IsFiniteSet(m.ops), op \notin m.ops,
           n.ops = m.ops \cup {op}, NEW s, On(op, s), ~op.txn
    PROVE  /\ Cardinality(AcksOn(n, s)) = Cardinality(AcksOn(m, s)) + 1
           /\ TxnAcksOn(n, s) = TxnAcksOn(m, s)
<1>1. AcksOn(m, s) \in SUBSET m.ops /\ TxnAcksOn(m, s) \in SUBSET m.ops
  BY DEF AcksOn, TxnAcksOn
<1>2. IsFiniteSet(AcksOn(m, s)) /\ op \notin AcksOn(m, s)
  BY <1>1, FS_Subset
<1>3. AcksOn(n, s) = AcksOn(m, s) \cup {op} /\ TxnAcksOn(n, s) = TxnAcksOn(m, s)
  BY DEF AcksOn, TxnAcksOn, On
<1> QED
  BY <1>2, <1>3, FS_AddElement

LEMMA OneTxnOp ==
    ASSUME NEW m, NEW n, NEW op, IsFiniteSet(m.ops), op \notin m.ops,
           n.ops = m.ops \cup {op}, NEW s, On(op, s), op.txn
    PROVE  /\ Cardinality(TxnAcksOn(n, s)) = Cardinality(TxnAcksOn(m, s)) + 1
           /\ AcksOn(n, s) = AcksOn(m, s)
<1>1. TxnAcksOn(m, s) \in SUBSET m.ops /\ AcksOn(m, s) \in SUBSET m.ops
  BY DEF TxnAcksOn, AcksOn
<1>2. IsFiniteSet(TxnAcksOn(m, s)) /\ op \notin TxnAcksOn(m, s)
  BY <1>1, FS_Subset
<1>3. TxnAcksOn(n, s) = TxnAcksOn(m, s) \cup {op} /\ AcksOn(n, s) = AcksOn(m, s)
  BY DEF TxnAcksOn, AcksOn, On
<1> QED
  BY <1>2, <1>3, FS_AddElement

(* What only its counters of operations tell from another child. *)
Twins(c, d) ==
    /\ Good(d) /\ Own(d) = Own(c) /\ d.inc = c.inc /\ d.gen = c.gen
    /\ d.phase = c.phase /\ d.flow = c.flow /\ d.retained = c.retained
    /\ d.terminal = c.terminal /\ d.deliveries = c.deliveries

LEMMA TwinsMove ==
    ASSUME NEW c, NEW d, Twins(c, d)
    PROVE  Moves(c, d) /\ ClosesEmpty(c, d)
  BY DEF Twins, Moves, ClosesEmpty

LEMMA BumpedIs ==
    ASSUME NEW c, Good(c), c.phase # "Opening", NEW txn, NEW k \in Int
    PROVE  LET d == Bumped(c, txn, k)
           IN  /\ Twins(c, d)
               /\ txn => d.acks = c.acks /\ d.txnAcks = c.txnAcks + k
               /\ ~txn => d.acks = c.acks + k /\ d.txnAcks = c.txnAcks
<1>1. IsChild(c) /\ Shaped(c) /\ c.acks \in Int /\ c.txnAcks \in Int
  BY DEF Good, IsChild
<1>2. CASE txn
  <2> DEFINE x == c.txnAcks + k
             d == [c EXCEPT !.txnAcks = x]
  <2>1. Bumped(c, txn, k) = d
    BY <1>2 DEF Bumped
  <2>2. x \in Int /\ x = c.txnAcks + k
    BY <1>1
  <2> HIDE DEF x
  <2>3. /\ IsChild(d) /\ d.inc = c.inc /\ d.gen = c.gen
        /\ d.phase = c.phase /\ d.flow = c.flow /\ d.asm = c.asm
        /\ d.work = c.work /\ d.retained = c.retained
        /\ d.terminal = c.terminal /\ d.deliveries = c.deliveries
        /\ d.acks = c.acks /\ d.txnAcks = x /\ d.preTerm = c.preTerm
    BY <1>1, <2>2, SetTxnAcks
  <2> HIDE DEF d
  <2>4. Shaped(d)
    BY <1>1, <2>3 DEF Shaped
  <2>5. Good(d) /\ Own(d) = Own(c)
    BY <2>3, <2>4, StaysGood
  <2>6. Twins(c, d)
    BY <2>3, <2>5 DEF Twins
  <2> QED
    BY <1>2, <2>1, <2>2, <2>3, <2>6
<1>3. CASE ~txn
  <2> DEFINE x == c.acks + k
             d == [c EXCEPT !.acks = x]
  <2>1. Bumped(c, txn, k) = d
    BY <1>3 DEF Bumped
  <2>2. x \in Int /\ x = c.acks + k
    BY <1>1
  <2> HIDE DEF x
  <2>3. /\ IsChild(d) /\ d.inc = c.inc /\ d.gen = c.gen
        /\ d.phase = c.phase /\ d.flow = c.flow /\ d.asm = c.asm
        /\ d.work = c.work /\ d.retained = c.retained
        /\ d.terminal = c.terminal /\ d.deliveries = c.deliveries
        /\ d.acks = x /\ d.txnAcks = c.txnAcks /\ d.preTerm = c.preTerm
    BY <1>1, <2>2, SetAcks
  <2> HIDE DEF d
  <2>4. Shaped(d)
    BY <1>1, <2>3 DEF Shaped
  <2>5. Good(d) /\ Own(d) = Own(c)
    BY <2>3, <2>4, StaysGood
  <2>6. Twins(c, d)
    BY <2>3, <2>5 DEF Twins
  <2> QED
    BY <1>3, <2>1, <2>2, <2>3, <2>6
<1> QED
  BY <1>2, <1>3

(* A step that changes no more than the operations and their counters. *)
LEMMA OpsGoes ==
    ASSUME NEW m, NEW n, Ok(m), m.phase = "Open", IsModel(n), n.phase = m.phase,
           DOMAIN n.children = DOMAIN m.children, n.live = m.live,
           n.nextSeq = m.nextSeq, n.nextGen = m.nextGen, Counted(n),
           \A s \in DOMAIN m.children : Twins(m.children[s], n.children[s])
    PROVE  Goes(m, n, {})
<1>1. /\ Typed(m) /\ Numbered(m) /\ Leased(m) /\ Counted(m) /\ Phased(m)
      /\ IsFiniteSet(m.live) /\ Fits(m) /\ IsModel(m) /\ m.nextGen \in Nat
  BY OkParts
<1>2. Typed(n)
  BY <1>1 DEF Typed, Twins
<1>3. Numbered(n)
  BY <1>1 DEF Numbered, Twins
<1>4. \A s, g : Has(n, s, g) <=> Has(m, s, g)
  BY DEF Has, Twins
<1>5. \A s \in DOMAIN m.children : Leases(n, s) = Leases(m, s)
  BY DEF Leases, Twins
<1>6. Leased(n)
  BY <1>1, <1>4, <1>5 DEF Leased, Twins
<1>7. Phased(n)
  BY <1>1 DEF Phased
<1>8. Fits(n)
  <2>1. ASSUME NEW s \in DOMAIN n.children
        PROVE  Owned(n, s) =< (IF s \in DOMAIN m.children THEN Owned(m, s) ELSE 0)
    <3>1. s \in DOMAIN m.children /\ Owned(m, s) \in Nat
      BY <1>1, SharesTyped
    <3>2. Own(n.children[s]) = Own(m.children[s])
      BY <3>1 DEF Twins
    <3>3. Owned(n, s) = Owned(m, s)
      BY <1>5, <3>1, <3>2, OwnedIs
    <3> QED
      BY <3>1, <3>3
  <2>2. Used(n) =< Used(m)
    BY <1>1, <1>2, <2>1, UsedShrinks
  <2>3. Used(n) \in Nat /\ Used(m) \in Nat /\ BudgetLimit \in Nat
    BY <1>1, <1>2, SharesTyped, StreamAssumption
  <2> QED
    BY <1>1, <2>2, <2>3 DEF Fits
<1>9. Evolves(m, n, {})
  BY <1>1, TwinsMove, MovesEvolve
<1> QED
  BY <1>2, <1>3, <1>6, <1>7, <1>8, <1>9 DEF Goes, Ok, Sound

BumpedChildren(m, comps, txn, k) ==
    [s \in DOMAIN m.children |->
        IF \E c \in comps : c.seg = s THEN Bumped(m.children[s], txn, k)
        ELSE m.children[s]]

LEMMA BumpedChildrenAre ==
    ASSUME NEW m, Ok(m), NEW comps, NEW txn, NEW k \in Int,
           \A c \in comps : /\ c.seg \in DOMAIN m.children
                            /\ m.children[c.seg].phase # "Opening"
    PROVE  LET C == BumpedChildren(m, comps, txn, k)
           IN  /\ DOMAIN C = DOMAIN m.children
               /\ \A s \in DOMAIN m.children :
                    /\ Twins(m.children[s], C[s])
                    /\ (\E c \in comps : c.seg = s) =>
                         /\ txn => /\ C[s].acks = m.children[s].acks
                                   /\ C[s].txnAcks = m.children[s].txnAcks + k
                         /\ ~txn => /\ C[s].acks = m.children[s].acks + k
                                    /\ C[s].txnAcks = m.children[s].txnAcks
                    /\ ~(\E c \in comps : c.seg = s) => C[s] = m.children[s]
<1> DEFINE C == BumpedChildren(m, comps, txn, k)
<1>1. DOMAIN C = DOMAIN m.children
  BY DEF BumpedChildren
<1>2. ASSUME NEW s \in DOMAIN m.children
      PROVE  /\ Twins(m.children[s], C[s])
             /\ (\E c \in comps : c.seg = s) =>
                  /\ txn => /\ C[s].acks = m.children[s].acks
                            /\ C[s].txnAcks = m.children[s].txnAcks + k
                  /\ ~txn => /\ C[s].acks = m.children[s].acks + k
                             /\ C[s].txnAcks = m.children[s].txnAcks
             /\ ~(\E c \in comps : c.seg = s) => C[s] = m.children[s]
  <2>1. Good(m.children[s])
    BY OkParts
  <2>2. CASE \E c \in comps : c.seg = s
    <3>1. C[s] = Bumped(m.children[s], txn, k) /\ m.children[s].phase # "Opening"
      BY <2>2 DEF BumpedChildren
    <3> HIDE DEF C
    <3> QED
      BY <2>1, <2>2, <3>1, BumpedIs
  <2>3. CASE ~(\E c \in comps : c.seg = s)
    <3>1. C[s] = m.children[s]
      BY <2>3 DEF BumpedChildren
    <3> HIDE DEF C
    <3> QED
      BY <2>1, <2>3, <3>1 DEF Twins
  <2> QED
    BY <2>2, <2>3
<1> QED
  BY <1>1, <1>2

AdmittedOp(m, comps, leases, txn) ==
    [id |-> m.nextOp, txn |-> txn, comps |-> comps, leases |-> leases]

LEMMA AdmitGoes ==
    ASSUME NEW m, Ok(m), m.phase = "Open", NEW comps, NEW leases, NEW txn \in BOOLEAN,
           \A c \in comps : /\ Has(m, c.seg, c.gen)
                            /\ m.children[c.seg].phase \notin {"Opening", "Closing"}
    PROVE  LET n  == Admit(m, comps, leases, txn)
               op == AdmittedOp(m, comps, leases, txn)
           IN  /\ Goes(m, n, {}) /\ n.phase = m.phase /\ n.epoch = m.epoch
               /\ n.inc = m.inc /\ n.nextGen = m.nextGen
               /\ n.ops = m.ops \cup {op} /\ op \notin m.ops /\ n.nextOp = m.nextOp + 1
               /\ \A o \in n.ops : o.id = m.nextOp => o = op
               /\ DOMAIN n.children = DOMAIN m.children
               /\ \A s \in DOMAIN m.children : Twins(m.children[s], n.children[s])
<1> DEFINE op == AdmittedOp(m, comps, leases, txn)
           C == BumpedChildren(m, comps, txn, 1)
           k == PutChildren(m, C)
           O == m.ops \cup {op}
           n == Admit(m, comps, leases, txn)
<1>1. n = PutAdmitted(k, O, m.nextOp + 1)
  BY Zenon DEF Admit, Bump, PutAdmitted, PutChildren, BumpedChildren, AdmittedOp
<1>2. /\ Counted(m) /\ IsModel(m) /\ IsFiniteSet(m.ops) /\ m.nextOp \in Nat
      /\ Typed(m)
  BY OkParts
<1>3. op.id = m.nextOp /\ (op.txn <=> txn) /\ op.comps = comps
  BY DEF AdmittedOp
<1> HIDE DEF op
<1>4. op \notin m.ops /\ \A o \in m.ops : o.id # m.nextOp
  BY <1>2, <1>3 DEF Counted
<1>5. /\ DOMAIN C = DOMAIN m.children
      /\ \A s \in DOMAIN m.children :
           /\ Twins(m.children[s], C[s])
           /\ (\E c \in comps : c.seg = s) =>
                /\ txn => /\ C[s].acks = m.children[s].acks
                          /\ C[s].txnAcks = m.children[s].txnAcks + 1
                /\ ~txn => /\ C[s].acks = m.children[s].acks + 1
                           /\ C[s].txnAcks = m.children[s].txnAcks
           /\ ~(\E c \in comps : c.seg = s) => C[s] = m.children[s]
  <2>1. \A c \in comps : /\ c.seg \in DOMAIN m.children
                         /\ m.children[c.seg].phase # "Opening"
    BY DEF Has
  <2> QED
    BY <2>1, BumpedChildrenAre
<1>6. /\ IsModel(k) /\ k.children = C /\ k.phase = m.phase /\ k.inc = m.inc
      /\ k.epoch = m.epoch /\ k.live = m.live /\ k.nextSeq = m.nextSeq
      /\ k.nextGen = m.nextGen
  BY <1>2, PutChildrenIs
<1> HIDE DEF C, k
<1>7. /\ IsModel(n) /\ n.children = C /\ n.phase = m.phase /\ n.inc = m.inc
      /\ n.epoch = m.epoch /\ n.live = m.live /\ n.nextSeq = m.nextSeq
      /\ n.nextGen = m.nextGen /\ n.ops = O /\ n.nextOp = m.nextOp + 1
  <2>1. m.nextOp + 1 \in Nat
    BY <1>2
  <2> HIDE DEF O, n
  <2> QED
    BY <1>1, <1>6, <2>1, PutAdmittedIs
<1> HIDE DEF n
<1>8. n.ops = m.ops \cup {op}
  BY <1>7
<1>9. ASSUME NEW s \in DOMAIN n.children, n.children[s].phase # "Closing"
      PROVE  /\ n.children[s].acks = Cardinality(AcksOn(n, s))
             /\ n.children[s].txnAcks = Cardinality(TxnAcksOn(n, s))
  <2>1. s \in DOMAIN m.children /\ n.children[s] = C[s]
    BY <1>5, <1>7
  <2>2. m.children[s].phase # "Closing"
    BY <1>5, <1>9, <2>1 DEF Twins
  <2>3. /\ m.children[s].acks = Cardinality(AcksOn(m, s))
        /\ m.children[s].txnAcks = Cardinality(TxnAcksOn(m, s))
    BY <1>2, <2>1, <2>2 DEF Counted
  <2>4. On(op, s) <=> \E c \in comps : c.seg = s
    BY <1>3 DEF On
  <2>5. CASE On(op, s) /\ txn
    <3>1. /\ Cardinality(TxnAcksOn(n, s)) = Cardinality(TxnAcksOn(m, s)) + 1
          /\ AcksOn(n, s) = AcksOn(m, s)
      BY <1>2, <1>3, <1>4, <1>8, <2>5, OneTxnOp
    <3>2. C[s].acks = m.children[s].acks /\ C[s].txnAcks = m.children[s].txnAcks + 1
      BY <1>5, <2>1, <2>4, <2>5
    <3> QED
      BY <2>1, <2>3, <3>1, <3>2
  <2>6. CASE On(op, s) /\ ~txn
    <3>1. /\ Cardinality(AcksOn(n, s)) = Cardinality(AcksOn(m, s)) + 1
          /\ TxnAcksOn(n, s) = TxnAcksOn(m, s)
      <4>1. On(op, s) /\ ~op.txn
        BY <1>3, <2>6
      <4> QED
        BY <1>2, <1>4, <1>8, <4>1, OnePlainOp
    <3>2. C[s].acks = m.children[s].acks + 1 /\ C[s].txnAcks = m.children[s].txnAcks
      BY <1>5, <2>1, <2>4, <2>6
    <3> QED
      BY <2>1, <2>3, <3>1, <3>2
  <2>7. CASE ~On(op, s)
    <3>1. AcksOn(n, s) = AcksOn(m, s) /\ TxnAcksOn(n, s) = TxnAcksOn(m, s)
      BY SMTT(40), <1>2, <1>3, <1>4, <1>8, <2>7, OneMoreOp
    <3>2. C[s] = m.children[s]
      BY <1>5, <2>1, <2>4, <2>7
    <3> QED
      BY <2>1, <2>3, <3>1, <3>2
  <2> QED
    BY <2>5, <2>6, <2>7
<1>10. Counted(n)
  <2>1. ASSUME NEW o \in n.ops
        PROVE  o.id \in Nat /\ o.id < n.nextOp
    BY <1>2, <1>3, <1>7, <1>8 DEF Counted
  <2>2. ASSUME NEW o \in n.ops, NEW c \in o.comps
        PROVE  Has(n, c.seg, c.gen) /\ n.children[c.seg].phase # "Closing"
    <3>1. Has(m, c.seg, c.gen) /\ m.children[c.seg].phase # "Closing"
      BY <1>2, <1>3, <1>8 DEF Counted
    <3> QED
      BY <1>5, <1>7, <3>1 DEF Has, Twins
  <2>3. IsFiniteSet(n.ops)
    BY <1>2, <1>4, <1>8, OneMoreOp
  <2> QED
    BY <1>9, <2>1, <2>2, <2>3 DEF Counted
<1>11. \A s \in DOMAIN m.children : Twins(m.children[s], n.children[s])
  BY <1>5, <1>7
<1>12. DOMAIN n.children = DOMAIN m.children
  BY <1>5, <1>7
<1>13. Goes(m, n, {})
  BY <1>7, <1>10, <1>11, <1>12, OpsGoes
<1> QED
  BY <1>4, <1>7, <1>8, <1>11, <1>12, <1>13 DEF n, op

(* Nobody's phase changes. *)
SamePhases(m, n) ==
    \A s \in DOMAIN m.children : n.children[s].phase = m.children[s].phase

(* An operation leaves the counters it was on. *)
LEMMA UnbumpGoes ==
    ASSUME NEW m, Ok(m), NEW op, CanSettle(m, op)
    PROVE  LET n == PutOps(PutChildren(m, BumpedChildren(m, op.comps, op.txn, -1)),
                           m.ops \ {op})
           IN  /\ Goes(m, n, {}) /\ n.phase = m.phase /\ n.epoch = m.epoch
               /\ n.inc = m.inc /\ n.nextGen = m.nextGen
               /\ n.ops = m.ops \ {op} /\ n.nextOp = m.nextOp
               /\ DOMAIN n.children = DOMAIN m.children
               /\ SamePhases(m, n) /\ n.live = m.live
<1> DEFINE C == BumpedChildren(m, op.comps, op.txn, -1)
           k == PutChildren(m, C)
           n == PutOps(k, m.ops \ {op})
<1>1. /\ op \in m.ops /\ m.phase = "Open" /\ Counted(m) /\ IsModel(m)
      /\ IsFiniteSet(m.ops) /\ m.nextOp \in Nat /\ Typed(m)
  BY OkParts DEF CanSettle
<1>2. ASSUME NEW c \in op.comps
      PROVE  /\ c.seg \in DOMAIN m.children
             /\ m.children[c.seg].phase # "Opening"
  <2>1. Has(m, c.seg, c.gen) /\ m.children[c.seg].phase # "Closing"
    BY <1>1 DEF Counted
  <2>2. c.seg \in DOMAIN m.children /\ Good(m.children[c.seg])
    BY <1>1, <2>1 DEF Has, Typed
  <2>3. ASSUME m.children[c.seg].phase = "Opening" PROVE FALSE
    <3>1. m.children[c.seg].acks = 0 /\ m.children[c.seg].txnAcks = 0
      BY <2>2, <2>3 DEF Good, Shaped
    <3> QED
      BY <1>1, <2>1, <2>2, <3>1, NoOpsOn
  <2> QED
    BY <2>2, <2>3
<1>3. /\ DOMAIN C = DOMAIN m.children
      /\ \A s \in DOMAIN m.children :
           /\ Twins(m.children[s], C[s])
           /\ (\E c \in op.comps : c.seg = s) =>
                /\ op.txn => /\ C[s].acks = m.children[s].acks
                             /\ C[s].txnAcks = m.children[s].txnAcks + (-1)
                /\ ~op.txn => /\ C[s].acks = m.children[s].acks + (-1)
                              /\ C[s].txnAcks = m.children[s].txnAcks
           /\ ~(\E c \in op.comps : c.seg = s) => C[s] = m.children[s]
  <2>1. -1 \in Int
    OBVIOUS
  <2> QED
    BY <1>2, <2>1, BumpedChildrenAre
<1>4. /\ IsModel(k) /\ k.children = C /\ k.phase = m.phase /\ k.inc = m.inc
      /\ k.epoch = m.epoch /\ k.live = m.live /\ k.nextSeq = m.nextSeq
      /\ k.nextGen = m.nextGen /\ k.nextOp = m.nextOp
  BY <1>1, PutChildrenIs
<1> HIDE DEF C, k
<1>5. /\ IsModel(n) /\ n.children = C /\ n.phase = m.phase /\ n.inc = m.inc
      /\ n.epoch = m.epoch /\ n.live = m.live /\ n.nextSeq = m.nextSeq
      /\ n.nextGen = m.nextGen /\ n.ops = m.ops \ {op} /\ n.nextOp = m.nextOp
  BY <1>4, PutOpsIs
<1> HIDE DEF n
<1>6. /\ op \notin n.ops /\ m.ops = n.ops \cup {op} /\ IsFiniteSet(n.ops)
  BY <1>1, <1>5, FS_Subset
<1>7. ASSUME NEW s \in DOMAIN n.children, n.children[s].phase # "Closing"
      PROVE  /\ n.children[s].acks = Cardinality(AcksOn(n, s))
             /\ n.children[s].txnAcks = Cardinality(TxnAcksOn(n, s))
  <2>1. s \in DOMAIN m.children /\ n.children[s] = C[s]
    BY <1>3, <1>5
  <2>2. m.children[s].phase # "Closing"
    BY <1>3, <1>7, <2>1 DEF Twins
  <2>3. /\ m.children[s].acks = Cardinality(AcksOn(m, s))
        /\ m.children[s].txnAcks = Cardinality(TxnAcksOn(m, s))
    BY <1>1, <2>1, <2>2 DEF Counted
  <2>4. On(op, s) <=> \E c \in op.comps : c.seg = s
    BY DEF On
  <2>8. Cardinality(AcksOn(n, s)) \in Nat /\ Cardinality(TxnAcksOn(n, s)) \in Nat
    BY <1>6, OneMoreOp
  <2>5. CASE On(op, s) /\ op.txn
    <3>1. /\ Cardinality(TxnAcksOn(m, s)) = Cardinality(TxnAcksOn(n, s)) + 1
          /\ AcksOn(n, s) = AcksOn(m, s)
      BY <1>6, <2>5, OneTxnOp
    <3>2. C[s].acks = m.children[s].acks /\ C[s].txnAcks = m.children[s].txnAcks + (-1)
      BY <1>3, <2>1, <2>4, <2>5
    <3> QED
      BY <2>1, <2>3, <2>8, <3>1, <3>2
  <2>6. CASE On(op, s) /\ ~op.txn
    <3>1. /\ Cardinality(AcksOn(m, s)) = Cardinality(AcksOn(n, s)) + 1
          /\ TxnAcksOn(n, s) = TxnAcksOn(m, s)
      BY <1>6, <2>6, OnePlainOp
    <3>2. C[s].acks = m.children[s].acks + (-1) /\ C[s].txnAcks = m.children[s].txnAcks
      BY <1>3, <2>1, <2>4, <2>6
    <3> QED
      BY <2>1, <2>3, <2>8, <3>1, <3>2
  <2>7. CASE ~On(op, s)
    <3>1. AcksOn(n, s) = AcksOn(m, s) /\ TxnAcksOn(n, s) = TxnAcksOn(m, s)
      BY <1>6, <2>7, OneMoreOp
    <3>2. C[s] = m.children[s]
      BY <1>3, <2>1, <2>4, <2>7
    <3> QED
      BY <2>1, <2>3, <3>1, <3>2
  <2> QED
    BY <2>5, <2>6, <2>7
<1>8. Counted(n)
  <2>1. ASSUME NEW o \in n.ops
        PROVE  o.id \in Nat /\ o.id < n.nextOp
    BY <1>1, <1>5, <1>6 DEF Counted
  <2>2. ASSUME NEW o \in n.ops, NEW c \in o.comps
        PROVE  Has(n, c.seg, c.gen) /\ n.children[c.seg].phase # "Closing"
    <3>1. Has(m, c.seg, c.gen) /\ m.children[c.seg].phase # "Closing"
      BY <1>1, <1>6 DEF Counted
    <3> QED
      BY <1>3, <1>5, <3>1 DEF Has, Twins
  <2> QED
    BY <1>6, <1>7, <2>1, <2>2 DEF Counted
<1>9. \A s \in DOMAIN m.children : Twins(m.children[s], n.children[s])
  BY <1>3, <1>5
<1>10. DOMAIN n.children = DOMAIN m.children
  BY <1>3, <1>5
<1>11. Goes(m, n, {})
  BY <1>1, <1>5, <1>8, <1>9, <1>10, OpsGoes
<1> QED
  BY <1>5, <1>9, <1>10, <1>11 DEF n, k, C, Twins, SamePhases

(* Positions are noted as confirmed. *)
LEMMA NotedGoes ==
    ASSUME NEW m, Ok(m), NEW C, DOMAIN C = DOMAIN m.children,
           \A s \in DOMAIN m.children :
              \E x : C[s] = [m.children[s] EXCEPT !.confirmed = x]
    PROVE  LET n == PutChildren(m, C)
           IN  Ok(n) /\ Resting(m, n)
<1> DEFINE n == PutChildren(m, C)
<1>1. IsModel(m) /\ Phased(m) /\ Sound(m) /\ Fits(m)
  BY OkParts
<1>2. /\ IsModel(n) /\ n.children = C /\ n.phase = m.phase /\ n.inc = m.inc
      /\ n.epoch = m.epoch /\ n.live = m.live /\ n.nextSeq = m.nextSeq
      /\ n.nextGen = m.nextGen /\ n.ops = m.ops /\ n.nextOp = m.nextOp
      /\ n.pending = m.pending
  BY <1>1, PutChildrenIs
<1> HIDE DEF n
<1>3. ASSUME NEW s \in DOMAIN m.children
      PROVE  /\ Good(C[s]) /\ Own(C[s]) = Own(m.children[s])
             /\ Rests(m.children[s], C[s]) /\ C[s].gen = m.children[s].gen
             /\ C[s].deliveries = m.children[s].deliveries
             /\ C[s].phase = m.children[s].phase
  <2> DEFINE c == m.children[s]
  <2>1. Good(c) /\ IsChild(c) /\ Shaped(c)
    BY OkParts DEF Good
  <2>2. PICK x : C[s] = [c EXCEPT !.confirmed = x]
    OBVIOUS
  <2> DEFINE d == [c EXCEPT !.confirmed = x]
  <2> HIDE DEF c
  <2>3. /\ IsChild(d) /\ d.inc = c.inc /\ d.gen = c.gen
        /\ d.phase = c.phase /\ d.flow = c.flow /\ d.asm = c.asm
        /\ d.work = c.work /\ d.retained = c.retained
        /\ d.terminal = c.terminal /\ d.deliveries = c.deliveries
        /\ d.acks = c.acks /\ d.txnAcks = c.txnAcks
        /\ d.preTerm = c.preTerm
    BY <2>1, SetConfirmed
  <2>4. C[s] = d
    BY <2>2
  <2> HIDE DEF d
  <2>5. Shaped(d)
    BY <2>1, <2>3 DEF Shaped
  <2>6. Good(d) /\ Own(d) = Own(c)
    BY <2>1, <2>3, <2>5, StaysGood
  <2>7. Rests(c, d)
    BY <2>3, <2>6 DEF Rests, Moves, ClosesEmpty
  <2> QED
    BY <2>3, <2>4, <2>6, <2>7 DEF c
<1>4. Reshaped(m, n)
  BY <1>1, <1>2, <1>3 DEF Reshaped, Rests, Phased
<1>5. \A s \in DOMAIN m.children : Own(n.children[s]) =< Own(m.children[s])
  <2>1. \A s \in DOMAIN m.children : Own(m.children[s]) \in Nat
    BY OkParts, OwnIs DEF Good
  <2> QED
    BY <1>2, <1>3, <2>1
<1>6. Ok(n)
  BY <1>1, <1>4, <1>5, ReshapedSound, ReshapedFits DEF Ok
<1> QED
  BY <1>2, <1>3, <1>6 DEF n, Resting

LEMMA SettleGoes ==
    ASSUME NEW m, Ok(m), NEW op, CanSettle(m, op), NEW S
    PROVE  LET n == Settle(m, op, S)
           IN  /\ Goes(m, n, {}) /\ n.phase = m.phase /\ n.epoch = m.epoch
               /\ n.inc = m.inc /\ n.nextGen = m.nextGen
               /\ n.ops = m.ops \ {op} /\ n.nextOp = m.nextOp
               /\ DOMAIN n.children = DOMAIN m.children
               /\ \A s \in DOMAIN m.children :
                    m.children[s].phase = "Opening" => n.children[s].phase = "Opening"
<1> DEFINE k == PutOps(PutChildren(m, BumpedChildren(m, op.comps, op.txn, -1)),
                       m.ops \ {op})
           j == CloseIfDrained(k, {c.seg : c \in op.comps})
           up(s) == {c.upTo : c \in {x \in op.comps :
                       x.seg = s /\ s \in S /\ ~op.txn
                         /\ x.ackGen = j.children[s].ackGen}}
           C == [s \in DOMAIN j.children |->
                   [j.children[s] EXCEPT
                      !.confirmed = Max(up(s) \cup {j.children[s].confirmed})]]
           i == PutChildren(j, C)
           D == {q \in op.leases : \E d \in m.live : d.seq = q /\ d.seg \in S}
           n == Settle(m, op, S)
<1>1. n = ResolveLeases(i, D)
  BY Zenon DEF Settle, Bump, PutChildren, PutOps, BumpedChildren
<1>2. /\ Goes(m, k, {}) /\ k.phase = m.phase /\ k.epoch = m.epoch
      /\ k.inc = m.inc /\ k.nextGen = m.nextGen
      /\ k.ops = m.ops \ {op} /\ k.nextOp = m.nextOp
      /\ DOMAIN k.children = DOMAIN m.children
      /\ SamePhases(m, k)
  BY UnbumpGoes
<1> HIDE DEF k
<1>3. Ok(j) /\ Resting(k, j)
  BY <1>2, CloseRests DEF Goes
<1> HIDE DEF j
<1>4. DOMAIN C = DOMAIN j.children /\ \A s \in DOMAIN j.children :
         \E x : C[s] = [j.children[s] EXCEPT !.confirmed = x]
  OBVIOUS
<1> HIDE DEF C
<1>5. Ok(i) /\ Resting(j, i)
  BY <1>3, <1>4, NotedGoes
<1> HIDE DEF i, D, n
<1>6. Ok(n) /\ Resting(i, n)
  BY <1>1, <1>5, ResolveGoes
<1>7. Resting(k, n)
  BY <1>3, <1>5, <1>6, RestingCompose
<1>8. Evolves(m, n, {})
  BY <1>2, <1>7, EvolvesRest DEF Goes
<1> QED
  BY <1>2, <1>6, <1>7, <1>8 DEF n, Resting, Rests, Goes, SamePhases

-----------------------------------------------------------------------------
(* The loops of the runtime.                                               *)

IsSeq(q) == \E S : q \in Seq(S)

LEMMA IsSeqLen ==
    ASSUME NEW q, IsSeq(q)
    PROVE  Len(q) \in Nat /\ DOMAIN q = 1..Len(q)
  BY DEF IsSeq

(* reserve_batch, one delivery after the other. *)
LEMMA IssuedUnfolds ==
    ASSUME NEW k \in Nat
    PROVE  \E f : /\ Issued(k) = f[k] /\ f[0] = [ok |-> TRUE, m |-> model, toks |-> <<>>]
                  /\ \A i \in 1..k : f[i] = Reserve(f[i - 1], queue[i])
<1> DEFINE a == [ok |-> TRUE, m |-> model, toks |-> <<>>]
           F(i, p) == Reserve(p, queue[i])
           Recurs(g, n) == g = [i \in 0..n |-> IF i = 0 THEN a ELSE F(i, g[i - 1])]
           T == {n \in 0..k : \E g : Recurs(g, n)}
<1>1. k \in Nat
  OBVIOUS
<1>2. 0 \in T
  <2> DEFINE g == [i \in 0..0 |-> a]
  <2>1. \A i \in 0..0 : i = 0
    OBVIOUS
  <2> HIDE DEF a, F
  <2>2. Recurs(g, 0)
    BY <2>1
  <2>3. 0 \in 0..k
    BY <1>1
  <2> HIDE DEF Recurs, g
  <2> QED
    BY <2>2, <2>3
<1>3. ASSUME NEW n \in 0..(k - 1), n \in T PROVE n + 1 \in T
  <2>1. PICK g : Recurs(g, n)
    BY <1>3
  <2> DEFINE h == [i \in 0..(n + 1) |-> IF i = n + 1 THEN F(n + 1, g[n]) ELSE g[i]]
  <2> HIDE DEF a, F
  <2>2. ASSUME NEW i \in 0..(n + 1) PROVE h[i] = IF i = 0 THEN a ELSE F(i, h[i - 1])
    <3>1. CASE i = 0
      <4>1. 0 \in 0..n /\ 0 # n + 1
        BY <1>1
      <4>2. g[0] = a
        BY <2>1, <4>1
      <4>3. h[i] = g[0]
        BY <3>1, <4>1
      <4> QED
        BY <3>1, <4>2, <4>3
    <3>2. CASE i = n + 1
      <4>1. i - 1 = n /\ n \in 0..(n + 1) /\ n # n + 1 /\ i # 0
        BY <1>1, <3>2
      <4>2. h[n] = g[n] /\ h[i] = F(n + 1, g[n])
        BY <3>2, <4>1
      <4> HIDE DEF h
      <4> QED
        BY <3>2, <4>1, <4>2
    <3>3. CASE i \in 1..n
      <4>1. /\ i - 1 \in 0..(n + 1) /\ i - 1 # n + 1 /\ i # 0 /\ i # n + 1
            /\ i \in 0..n
        BY <1>1, <3>3
      <4>2. h[i - 1] = g[i - 1] /\ h[i] = g[i]
        BY <4>1
      <4>3. g[i] = F(i, g[i - 1])
        BY <2>1, <4>1
      <4> HIDE DEF h
      <4> QED
        BY <4>1, <4>2, <4>3
    <3> QED
      BY <1>1, <3>1, <3>2, <3>3
  <2>3. Recurs(h, n + 1)
    <3>1. h = [i \in 0..(n + 1) |-> h[i]]
      OBVIOUS
    <3> HIDE DEF h
    <3> QED
      BY <2>2, <3>1
  <2>4. n + 1 \in 0..k
    BY <1>1
  <2> QED
    BY <2>3, <2>4
<1>4. \E g : Recurs(g, k)
  <2>1. 0..k \subseteq T
    <3> HIDE DEF T
    <3> QED
      BY <1>1, <1>2, <1>3, Climb
  <2>2. k \in 0..k
    BY <1>1
  <2> HIDE DEF Recurs
  <2> QED
    BY <2>1, <2>2
<1> DEFINE c == CHOOSE g : Recurs(g, k)
<1>5. Recurs(c, k)
  <2> HIDE DEF Recurs
  <2> QED
    BY <1>4, Zenon
<1>6. Issued(k) = c[k]
  BY Zenon DEF Issued
<1> HIDE DEF c
<1>7. c[0] = a /\ \A i \in 1..k : c[i] = F(i, c[i - 1])
  <2> HIDE DEF a, F
  <2>1. \A i \in 0..k : c[i] = IF i = 0 THEN a ELSE F(i, c[i - 1])
    BY <1>5
  <2>2. 0 \in 0..k /\ \A i \in 1..k : i \in 0..k /\ i # 0
    BY <1>1
  <2> QED
    BY <2>1, <2>2
<1> QED
  BY <1>6, <1>7

(* The outcome of a transaction, one authority after the other. *)
LEMMA SettledUnfolds ==
    ASSUME NEW x, NEW committed, IsSeq(parked)
    PROVE  \E f : /\ SettledInOrder(x, committed) = f[Len(parked)] /\ f[0] = [ok |-> TRUE, m |-> model]
                  /\ \A i \in 1..Len(parked) : f[i] = SettleOne(f[i - 1], parked[i], x, committed)
<1> DEFINE a == [ok |-> TRUE, m |-> model]
           F(i, p) == SettleOne(p, parked[i], x, committed)
           Recurs(g, n) == g = [i \in 0..n |-> IF i = 0 THEN a ELSE F(i, g[i - 1])]
           T == {n \in 0..Len(parked) : \E g : Recurs(g, n)}
<1>1. Len(parked) \in Nat
  BY IsSeqLen
<1>2. 0 \in T
  <2> DEFINE g == [i \in 0..0 |-> a]
  <2>1. \A i \in 0..0 : i = 0
    OBVIOUS
  <2> HIDE DEF a, F
  <2>2. Recurs(g, 0)
    BY <2>1
  <2>3. 0 \in 0..Len(parked)
    BY <1>1
  <2> HIDE DEF Recurs, g
  <2> QED
    BY <2>2, <2>3
<1>3. ASSUME NEW n \in 0..(Len(parked) - 1), n \in T PROVE n + 1 \in T
  <2>1. PICK g : Recurs(g, n)
    BY <1>3
  <2> DEFINE h == [i \in 0..(n + 1) |-> IF i = n + 1 THEN F(n + 1, g[n]) ELSE g[i]]
  <2> HIDE DEF a, F
  <2>2. ASSUME NEW i \in 0..(n + 1) PROVE h[i] = IF i = 0 THEN a ELSE F(i, h[i - 1])
    <3>1. CASE i = 0
      <4>1. 0 \in 0..n /\ 0 # n + 1
        BY <1>1
      <4>2. g[0] = a
        BY <2>1, <4>1
      <4>3. h[i] = g[0]
        BY <3>1, <4>1
      <4> QED
        BY <3>1, <4>2, <4>3
    <3>2. CASE i = n + 1
      <4>1. i - 1 = n /\ n \in 0..(n + 1) /\ n # n + 1 /\ i # 0
        BY <1>1, <3>2
      <4>2. h[n] = g[n] /\ h[i] = F(n + 1, g[n])
        BY <3>2, <4>1
      <4> HIDE DEF h
      <4> QED
        BY <3>2, <4>1, <4>2
    <3>3. CASE i \in 1..n
      <4>1. /\ i - 1 \in 0..(n + 1) /\ i - 1 # n + 1 /\ i # 0 /\ i # n + 1
            /\ i \in 0..n
        BY <1>1, <3>3
      <4>2. h[i - 1] = g[i - 1] /\ h[i] = g[i]
        BY <4>1
      <4>3. g[i] = F(i, g[i - 1])
        BY <2>1, <4>1
      <4> HIDE DEF h
      <4> QED
        BY <4>1, <4>2, <4>3
    <3> QED
      BY <1>1, <3>1, <3>2, <3>3
  <2>3. Recurs(h, n + 1)
    <3>1. h = [i \in 0..(n + 1) |-> h[i]]
      OBVIOUS
    <3> HIDE DEF h
    <3> QED
      BY <2>2, <3>1
  <2>4. n + 1 \in 0..Len(parked)
    BY <1>1
  <2> QED
    BY <2>3, <2>4
<1>4. \E g : Recurs(g, Len(parked))
  <2>1. 0..Len(parked) \subseteq T
    <3> HIDE DEF T
    <3> QED
      BY <1>1, <1>2, <1>3, Climb
  <2>2. Len(parked) \in 0..Len(parked)
    BY <1>1
  <2> HIDE DEF Recurs
  <2> QED
    BY <2>1, <2>2
<1> DEFINE c == CHOOSE g : Recurs(g, Len(parked))
<1>5. Recurs(c, Len(parked))
  <2> HIDE DEF Recurs
  <2> QED
    BY <1>4, Zenon
<1>6. SettledInOrder(x, committed) = c[Len(parked)]
  BY Zenon DEF SettledInOrder
<1> HIDE DEF c
<1>7. c[0] = a /\ \A i \in 1..Len(parked) : c[i] = F(i, c[i - 1])
  <2> HIDE DEF a, F
  <2>1. \A i \in 0..Len(parked) : c[i] = IF i = 0 THEN a ELSE F(i, c[i - 1])
    BY <1>5
  <2>2. 0 \in 0..Len(parked) /\ \A i \in 1..Len(parked) : i \in 0..Len(parked) /\ i # 0
    BY <1>1
  <2> QED
    BY <2>1, <2>2
<1> QED
  BY <1>6, <1>7

(* A sequence thinned out, one entry after the other. *)
LEMMA WithinUnfolds ==
    ASSUME NEW q, IsSeq(q), NEW S
    PROVE  \E f : /\ Within(q, S) = f[Len(q)] /\ f[0] = <<>>
                  /\ \A i \in 1..Len(q) : f[i] = Keep(f[i - 1], q[i], S)
<1> DEFINE a == <<>>
           F(i, p) == Keep(p, q[i], S)
           Recurs(g, n) == g = [i \in 0..n |-> IF i = 0 THEN a ELSE F(i, g[i - 1])]
           T == {n \in 0..Len(q) : \E g : Recurs(g, n)}
<1>1. Len(q) \in Nat
  BY IsSeqLen
<1>2. 0 \in T
  <2> DEFINE g == [i \in 0..0 |-> a]
  <2>1. \A i \in 0..0 : i = 0
    OBVIOUS
  <2> HIDE DEF a, F
  <2>2. Recurs(g, 0)
    BY <2>1
  <2>3. 0 \in 0..Len(q)
    BY <1>1
  <2> HIDE DEF Recurs, g
  <2> QED
    BY <2>2, <2>3
<1>3. ASSUME NEW n \in 0..(Len(q) - 1), n \in T PROVE n + 1 \in T
  <2>1. PICK g : Recurs(g, n)
    BY <1>3
  <2> DEFINE h == [i \in 0..(n + 1) |-> IF i = n + 1 THEN F(n + 1, g[n]) ELSE g[i]]
  <2> HIDE DEF a, F
  <2>2. ASSUME NEW i \in 0..(n + 1) PROVE h[i] = IF i = 0 THEN a ELSE F(i, h[i - 1])
    <3>1. CASE i = 0
      <4>1. 0 \in 0..n /\ 0 # n + 1
        BY <1>1
      <4>2. g[0] = a
        BY <2>1, <4>1
      <4>3. h[i] = g[0]
        BY <3>1, <4>1
      <4> QED
        BY <3>1, <4>2, <4>3
    <3>2. CASE i = n + 1
      <4>1. i - 1 = n /\ n \in 0..(n + 1) /\ n # n + 1 /\ i # 0
        BY <1>1, <3>2
      <4>2. h[n] = g[n] /\ h[i] = F(n + 1, g[n])
        BY <3>2, <4>1
      <4> HIDE DEF h
      <4> QED
        BY <3>2, <4>1, <4>2
    <3>3. CASE i \in 1..n
      <4>1. /\ i - 1 \in 0..(n + 1) /\ i - 1 # n + 1 /\ i # 0 /\ i # n + 1
            /\ i \in 0..n
        BY <1>1, <3>3
      <4>2. h[i - 1] = g[i - 1] /\ h[i] = g[i]
        BY <4>1
      <4>3. g[i] = F(i, g[i - 1])
        BY <2>1, <4>1
      <4> HIDE DEF h
      <4> QED
        BY <4>1, <4>2, <4>3
    <3> QED
      BY <1>1, <3>1, <3>2, <3>3
  <2>3. Recurs(h, n + 1)
    <3>1. h = [i \in 0..(n + 1) |-> h[i]]
      OBVIOUS
    <3> HIDE DEF h
    <3> QED
      BY <2>2, <3>1
  <2>4. n + 1 \in 0..Len(q)
    BY <1>1
  <2> QED
    BY <2>3, <2>4
<1>4. \E g : Recurs(g, Len(q))
  <2>1. 0..Len(q) \subseteq T
    <3> HIDE DEF T
    <3> QED
      BY <1>1, <1>2, <1>3, Climb
  <2>2. Len(q) \in 0..Len(q)
    BY <1>1
  <2> HIDE DEF Recurs
  <2> QED
    BY <2>1, <2>2
<1> DEFINE c == CHOOSE g : Recurs(g, Len(q))
<1>5. Recurs(c, Len(q))
  <2> HIDE DEF Recurs
  <2> QED
    BY <1>4, Zenon
<1>6. Within(q, S) = c[Len(q)]
  BY Zenon DEF Within
<1> HIDE DEF c
<1>7. c[0] = a /\ \A i \in 1..Len(q) : c[i] = F(i, c[i - 1])
  <2> HIDE DEF a, F
  <2>1. \A i \in 0..Len(q) : c[i] = IF i = 0 THEN a ELSE F(i, c[i - 1])
    BY <1>5
  <2>2. 0 \in 0..Len(q) /\ \A i \in 1..Len(q) : i \in 0..Len(q) /\ i # 0
    BY <1>1
  <2> QED
    BY <2>1, <2>2
<1> QED
  BY <1>6, <1>7

(* What issuing deliveries leaves of a child. *)
SameButRetained(c, d) ==
    /\ d.gen = c.gen /\ d.inc = c.inc /\ d.phase = c.phase /\ d.flow = c.flow
    /\ (d.terminal <=> c.terminal) /\ d.acks = c.acks /\ d.txnAcks = c.txnAcks

Served(m, n) ==
    /\ DOMAIN n.children = DOMAIN m.children /\ n.nextGen = m.nextGen
    /\ n.phase = m.phase /\ n.epoch = m.epoch /\ n.inc = m.inc
    /\ n.ops = m.ops /\ n.nextOp = m.nextOp
    /\ \A s \in DOMAIN m.children : SameButRetained(m.children[s], n.children[s])

LEMMA ServedCompose ==
    ASSUME NEW m, NEW k, NEW n, Served(m, k), Served(k, n)
    PROVE  Served(m, n)
  BY DEF Served, SameButRetained

LEMMA ReserveIs ==
    ASSUME NEW p, NEW q, Reserve(p, q).ok
    PROVE  /\ p.ok
           /\ \/ q.token # <<>> /\ Reserve(p, q).m = p.m
              \/ /\ q.token = <<>> /\ CanIssue(p.m, q.seg, q.gen)
                 /\ Reserve(p, q).m = IssueDelivery(p.m, q.seg, q.id)
<1> DEFINE r == Reserve(p, q)
<1>1. CASE ~p.ok
  BY <1>1 DEF Reserve
<1>2. CASE p.ok /\ q.token # <<>>
  BY <1>2 DEF Reserve
<1>3. CASE p.ok /\ q.token = <<>> /\ CanIssue(p.m, q.seg, q.gen)
  BY <1>3 DEF Reserve
<1>4. CASE p.ok /\ q.token = <<>> /\ ~CanIssue(p.m, q.seg, q.gen)
  BY <1>4 DEF Reserve
<1> QED
  BY <1>1, <1>2, <1>3, <1>4

LEMMA IssueServes ==
    ASSUME NEW m, Ok(m), NEW s, NEW g, CanIssue(m, s, g), NEW id
    PROVE  LET n == IssueDelivery(m, s, id)
           IN  /\ Ok(n) /\ Served(m, n) /\ s \in DOMAIN m.children
               /\ n.children[s].retained = m.children[s].retained - 1
               /\ \A t \in DOMAIN m.children : t # s => n.children[t] = m.children[t]
<1> DEFINE n == IssueDelivery(m, s, id)
<1>1. Issuing(m, n, s)
  BY IssueGoes
<1> HIDE DEF n
<1>2. SameButRetained(m.children[s], n.children[s])
  BY <1>1 DEF Issuing, SameButRetained
<1>3. Served(m, n)
  BY <1>1, <1>2 DEF Issuing, Served, Quiet, SameButRetained
<1>4. Ok(n)
  BY <1>1 DEF Issuing, Goes
<1> QED
  BY <1>1, <1>3, <1>4 DEF Issuing, n

FreshIn(i, s) == {j \in 1..i : queue[j].token = <<>> /\ queue[j].seg = s}

LEMMA FreshInNext ==
    ASSUME NEW i \in Nat, NEW s
    PROVE  /\ IsFiniteSet(FreshIn(i, s)) /\ Cardinality(FreshIn(i, s)) \in Nat
           /\ FreshIn(0, s) = {}
           /\ (queue[i + 1].token = <<>> /\ queue[i + 1].seg = s) =>
                Cardinality(FreshIn(i + 1, s)) = Cardinality(FreshIn(i, s)) + 1
           /\ ~(queue[i + 1].token = <<>> /\ queue[i + 1].seg = s) =>
                FreshIn(i + 1, s) = FreshIn(i, s)
<1>1. FreshIn(i, s) \in SUBSET (1..i) /\ IsFiniteSet(1..i)
  BY FS_Interval DEF FreshIn
<1>2. IsFiniteSet(FreshIn(i, s)) /\ Cardinality(FreshIn(i, s)) \in Nat
  BY <1>1, FS_Subset, FS_CardinalityType
<1>3. ASSUME queue[i + 1].token = <<>>, queue[i + 1].seg = s
      PROVE  Cardinality(FreshIn(i + 1, s)) = Cardinality(FreshIn(i, s)) + 1
  <2>1. FreshIn(i + 1, s) = FreshIn(i, s) \cup {i + 1} /\ i + 1 \notin FreshIn(i, s)
    BY <1>3 DEF FreshIn
  <2> QED
    BY <1>2, <2>1, FS_AddElement
<1>4. ~(queue[i + 1].token = <<>> /\ queue[i + 1].seg = s) =>
         FreshIn(i + 1, s) = FreshIn(i, s)
  BY DEF FreshIn
<1>5. FreshIn(0, s) = {}
  BY DEF FreshIn
<1> QED
  BY <1>2, <1>3, <1>4, <1>5

(* The first i deliveries have been reserved. *)
ReservedTo(i, n) ==
    /\ Ok(n) /\ Served(model, n)
    /\ \A s \in DOMAIN model.children :
         n.children[s].retained = model.children[s].retained - Cardinality(FreshIn(i, s))
    /\ \A j \in 1..i : queue[j].token = <<>> =>
         queue[j].seg \in DOMAIN model.children /\ model.phase = "Open"

LEMMA IssuedGoes ==
    ASSUME Ok(model), NEW k \in Nat, Issued(k).ok
    PROVE  ReservedTo(k, Issued(k).m)
<1>1. PICK f : /\ Issued(k) = f[k] /\ f[0] = [ok |-> TRUE, m |-> model, toks |-> <<>>]
               /\ \A i \in 1..k : f[i] = Reserve(f[i - 1], queue[i])
  BY IssuedUnfolds
<1> DEFINE T == {i \in 0..k : f[i].ok => ReservedTo(i, f[i].m)}
<1>2. 0 \in T
  <2>1. f[0].m = model /\ 0 \in 0..k
    BY <1>1
  <2>2. \A s \in DOMAIN model.children :
           /\ Cardinality(FreshIn(0, s)) = 0 /\ model.children[s].retained \in Nat
    BY OkParts, FreshInNext, FS_EmptySet, 0 \in Nat DEF Good, IsChild
  <2>3. Served(model, model)
    BY DEF Served, SameButRetained
  <2>4. ReservedTo(0, model)
    BY <2>2, <2>3 DEF ReservedTo
  <2> QED
    BY <2>1, <2>4
<1>3. ASSUME NEW i \in 0..(k - 1), i \in T PROVE i + 1 \in T
  <2>1. i + 1 \in 0..k /\ i + 1 \in 1..k /\ (i + 1) - 1 = i /\ i \in Nat
    OBVIOUS
  <2> SUFFICES ASSUME f[i + 1].ok PROVE ReservedTo(i + 1, f[i + 1].m)
    BY <2>1
  <2> DEFINE m == f[i].m
             n == f[i + 1].m
             q == queue[i + 1]
  <2>2. f[i + 1] = Reserve(f[i], q)
    BY <1>1, <2>1
  <2>3. /\ f[i].ok
        /\ \/ q.token # <<>> /\ n = m
           \/ /\ q.token = <<>> /\ CanIssue(m, q.seg, q.gen)
              /\ n = IssueDelivery(m, q.seg, q.id)
    BY <2>2, ReserveIs
  <2>4. ReservedTo(i, m)
    BY <1>3, <2>3
  <2>5. ASSUME NEW s \in DOMAIN model.children
        PROVE  /\ m.children[s].retained = model.children[s].retained - Cardinality(FreshIn(i, s))
               /\ model.children[s].retained \in Nat /\ Cardinality(FreshIn(i, s)) \in Nat
    BY <2>1, <2>4, FreshInNext, OkParts DEF ReservedTo, Good, IsChild
  <2>6. CASE q.token # <<>> /\ n = m
    <3>1. \A s : FreshIn(i + 1, s) = FreshIn(i, s)
      BY <2>1, <2>6, FreshInNext
    <3>2. \A j \in 1..(i + 1) : j = i + 1 \/ j \in 1..i
      BY <2>1
    <3> QED
      BY <2>4, <2>6, <3>1, <3>2 DEF ReservedTo
  <2>7. CASE /\ q.token = <<>> /\ CanIssue(m, q.seg, q.gen)
             /\ n = IssueDelivery(m, q.seg, q.id)
    <3> HIDE DEF m, n, q
    <3>1. /\ Ok(n) /\ Served(m, n) /\ q.seg \in DOMAIN m.children
          /\ n.children[q.seg].retained = m.children[q.seg].retained - 1
          /\ \A t \in DOMAIN m.children : t # q.seg => n.children[t] = m.children[t]
      BY <2>4, <2>7, IssueServes DEF ReservedTo
    <3>3. Served(model, n) /\ Ok(n)
      BY <2>4, <3>1, ServedCompose DEF ReservedTo
    <3>4. DOMAIN m.children = DOMAIN model.children /\ m.phase = model.phase /\ m.phase = "Open"
      BY <2>4, <2>7 DEF ReservedTo, Served, CanIssue
    <3>5. ASSUME NEW s \in DOMAIN model.children
          PROVE  n.children[s].retained
                   = model.children[s].retained - Cardinality(FreshIn(i + 1, s))
      <4>1. CASE s = q.seg
        <5>1. Cardinality(FreshIn(i + 1, s)) = Cardinality(FreshIn(i, s)) + 1
          BY <2>1, <2>7, <4>1, FreshInNext DEF q
        <5> QED
          BY <2>5, <3>1, <4>1, <5>1
      <4>2. CASE s # q.seg
        <5>1. FreshIn(i + 1, s) = FreshIn(i, s)
          BY <2>1, <4>2, FreshInNext DEF q
        <5> QED
          BY <2>5, <3>1, <3>4, <4>2, <5>1
      <4> QED
        BY <4>1, <4>2
    <3>6. \A j \in 1..(i + 1) : j = i + 1 \/ j \in 1..i
      BY <2>1
    <3>7. \A j \in 1..(i + 1) : queue[j].token = <<>> =>
             queue[j].seg \in DOMAIN model.children /\ model.phase = "Open"
      BY <2>4, <3>1, <3>4, <3>6 DEF ReservedTo, q
    <3>8. ReservedTo(i + 1, n)
      BY <3>3, <3>5, <3>7 DEF ReservedTo
    <3> QED
      BY <3>8 DEF n
  <2> QED
    BY <2>3, <2>6, <2>7
<1>4. 0..k \subseteq T
  <2> HIDE DEF T
  <2> QED
    BY <1>2, <1>3, Climb
<1>5. k \in 0..k
  OBVIOUS
<1> QED
  BY <1>1, <1>4, <1>5

-----------------------------------------------------------------------------
(* What several methods together do to the children, but for those in X.   *)

ClosesDry(c, d) ==
    c.phase # "Closing" /\ d.phase = "Closing" => d.retained = 0

Drifts(m, n, X) ==
    /\ n.nextGen >= m.nextGen
    /\ \A s \in DOMAIN m.children \ X :
         /\ s \in DOMAIN n.children /\ Moves(m.children[s], n.children[s])
         /\ m.phase = "Open" /\ n.phase = "Open" =>
              ClosesDry(m.children[s], n.children[s])
    /\ \A s \in DOMAIN n.children \ (DOMAIN m.children \cup X) :
         /\ Fresh(n.children[s]) /\ n.children[s].gen >= m.nextGen
         /\ n.children[s].inc = n.inc

LEMMA EvolvesDrifts ==
    ASSUME NEW m, NEW n, NEW X, Evolves(m, n, X)
    PROVE  Drifts(m, n, X)
  BY DEF Evolves, Drifts, ClosesEmpty, ClosesDry

LEMMA RestingDrifts ==
    ASSUME NEW m, NEW n, NEW X, Ok(m), Resting(m, n)
    PROVE  Drifts(m, n, X)
<1>1. m.nextGen \in Nat
  BY OkParts
<1> QED
  BY <1>1 DEF Resting, Rests, Drifts, ClosesEmpty, ClosesDry

(* A sequence of settlements. *)
SettlesTo(m, n) ==
    /\ Ok(n) /\ Drifts(m, n, {}) /\ n.phase = m.phase /\ n.epoch = m.epoch
    /\ n.inc = m.inc /\ n.nextGen = m.nextGen /\ n.nextOp = m.nextOp
    /\ n.ops \subseteq m.ops
    /\ DOMAIN n.children = DOMAIN m.children
    /\ \A s \in DOMAIN m.children :
         m.children[s].phase = "Opening" => n.children[s].phase = "Opening"

LEMMA SettlesCompose ==
    ASSUME NEW m, NEW k, NEW n, SettlesTo(m, k), SettlesTo(k, n), m.nextGen \in Nat
    PROVE  SettlesTo(m, n)
<1>1. ASSUME NEW s \in DOMAIN m.children
      PROVE  /\ Moves(m.children[s], n.children[s])
             /\ m.phase = "Open" /\ n.phase = "Open" =>
                  ClosesDry(m.children[s], n.children[s])
  <2>1. /\ s \in DOMAIN k.children /\ Moves(m.children[s], k.children[s])
        /\ m.phase = "Open" /\ k.phase = "Open" =>
             ClosesDry(m.children[s], k.children[s])
    BY DEF SettlesTo, Drifts
  <2>2. /\ s \in DOMAIN n.children /\ Moves(k.children[s], n.children[s])
        /\ k.phase = "Open" /\ n.phase = "Open" =>
             ClosesDry(k.children[s], n.children[s])
    BY <2>1 DEF SettlesTo, Drifts
  <2>3. Moves(m.children[s], n.children[s])
    BY <2>1, <2>2, MovesCompose
  <2>4. k.phase = m.phase /\ n.children[s].retained = k.children[s].retained
    BY <2>2 DEF SettlesTo, Moves
  <2> QED
    BY <2>1, <2>2, <2>3, <2>4 DEF ClosesDry
<1>2. Drifts(m, n, {})
  BY <1>1 DEF SettlesTo, Drifts
<1> QED
  BY <1>2 DEF SettlesTo

LEMMA SettlesSame ==
    ASSUME NEW m, Ok(m)
    PROVE  SettlesTo(m, m)
<1>1. Drifts(m, m, {})
  BY RestingSame, RestingDrifts
<1> QED
  BY <1>1 DEF SettlesTo

LEMMA SettleSettles ==
    ASSUME NEW m, Ok(m), NEW op, CanSettle(m, op), NEW S
    PROVE  SettlesTo(m, Settle(m, op, S))
<1> DEFINE n == Settle(m, op, S)
<1>1. /\ Goes(m, n, {}) /\ n.phase = m.phase /\ n.epoch = m.epoch
      /\ n.inc = m.inc /\ n.nextGen = m.nextGen
      /\ n.ops = m.ops \ {op} /\ n.nextOp = m.nextOp
      /\ DOMAIN n.children = DOMAIN m.children
      /\ \A s \in DOMAIN m.children :
           m.children[s].phase = "Opening" => n.children[s].phase = "Opening"
  BY SettleGoes
<1> HIDE DEF n
<1>2. SettlesTo(m, n)
  BY <1>1, EvolvesDrifts DEF Goes, SettlesTo
<1> QED
  BY <1>2 DEF n

LEMMA SettleOneIs ==
    ASSUME NEW p, NEW e, NEW x, NEW committed, Ok(p.m)
    PROVE  LET r == SettleOne(p, e, x, committed)
           IN  /\ SettlesTo(p.m, r.m) /\ (r.ok => p.ok)
               /\ r.ok /\ e.txn = x => r.m.ops = p.m.ops \ {e.op}
               /\ e.txn # x => r.m.ops = p.m.ops
               /\ p.ok /\ ~r.ok => e.txn = x /\ ~CanSettle(p.m, e.op)
<1> DEFINE r == SettleOne(p, e, x, committed)
           S == IF committed THEN {c.seg : c \in e.op.comps} ELSE {}
<1>1. CASE e.txn # x
  <2>1. r = p
    BY <1>1 DEF SettleOne
  <2> QED
    BY <1>1, <2>1, SettlesSame
<1>2. CASE e.txn = x /\ p.ok /\ CanSettle(p.m, e.op)
  <2>1. r.ok /\ r.m = Settle(p.m, e.op, S)
    BY <1>2 DEF SettleOne
  <2> HIDE DEF r, S
  <2>2. r.m.ops = p.m.ops \ {e.op}
    BY <1>2, <2>1, SettleGoes
  <2>3. SettlesTo(p.m, r.m)
    BY <1>2, <2>1, SettleSettles
  <2> QED
    BY <1>2, <2>1, <2>2, <2>3 DEF r
<1>3. CASE e.txn = x /\ ~(p.ok /\ CanSettle(p.m, e.op))
  <2>1. ~r.ok /\ r.m = p.m
    BY <1>3 DEF SettleOne
  <2> HIDE DEF r
  <2>2. SettlesTo(p.m, r.m)
    BY <2>1, SettlesSame
  <2> QED
    BY <1>3, <2>1, <2>2 DEF r
<1> QED
  BY <1>1, <1>2, <1>3

LEMMA SettledGoes ==
    ASSUME Ok(model), IsSeq(parked), NEW x, NEW committed
    PROVE  SettlesTo(model, SettledInOrder(x, committed).m)
<1> DEFINE L == Len(parked)
<1>1. PICK f : /\ SettledInOrder(x, committed) = f[L] /\ f[0] = [ok |-> TRUE, m |-> model]
               /\ \A i \in 1..L : f[i] = SettleOne(f[i - 1], parked[i], x, committed)
  BY ZenonT(60), SettledUnfolds
<1>2. L \in Nat
  BY IsSeqLen
<1> HIDE DEF L
<1> DEFINE T == {i \in 0..L : SettlesTo(model, f[i].m)}
<1>3. 0 \in T
  BY <1>1, <1>2, SettlesSame
<1>4. ASSUME NEW i \in 0..(L - 1), i \in T PROVE i + 1 \in T
  <2>1. i + 1 \in 1..L /\ (i + 1) - 1 = i /\ i + 1 \in 0..L
    BY <1>2
  <2>2. f[i + 1] = SettleOne(f[i], parked[i + 1], x, committed)
    BY <1>1, <2>1
  <2>3. SettlesTo(model, f[i].m) /\ Ok(f[i].m)
    BY <1>4 DEF SettlesTo
  <2>4. SettlesTo(f[i].m, f[i + 1].m)
    BY <2>2, <2>3, SettleOneIs
  <2>5. SettlesTo(model, f[i + 1].m)
    BY <2>3, <2>4, SettlesCompose, OkParts
  <2> QED
    BY <2>1, <2>5
<1>5. 0..L \subseteq T
  <2> HIDE DEF T
  <2> QED
    BY <1>2, <1>3, <1>4, Climb
<1>6. L \in 0..L
  BY <1>2
<1> QED
  BY <1>1, <1>5, <1>6

-----------------------------------------------------------------------------
(* The actions a method hands out.                                         *)

(* What each of them says of the children it leads from and to. *)
Announces(m, n, a) ==
    /\ a.seg \in DOMAIN n.children /\ a.gen = n.children[a.seg].gen
    /\ a.inc = n.children[a.seg].inc /\ a.epoch = n.epoch
    /\ \/ a.op = "open" /\ ~Has(m, a.seg, a.gen)
       \/ /\ Has(m, a.seg, a.gen)
          /\ \/ /\ a.op = "cancel" /\ m.children[a.seg].phase = "Opening"
                /\ n.children[a.seg].phase = "Closing"
             \/ /\ a.op = "close"
                /\ m.children[a.seg].phase \in Phases \ {"Opening", "Closing"}
                /\ n.children[a.seg].phase = "Closing"
             \/ /\ a.op = "seek"
                /\ m.children[a.seg].phase \in Phases \ {"Seeking"}
                /\ n.children[a.seg].phase = "Seeking"
             \/ /\ a.op = "grant" /\ m.children[a.seg].flow = "none"
                /\ n.children[a.seg].flow # "none"

ActOf(op, n, s) == [op |-> op, seg |-> s, gen |-> n.children[s].gen,
                    inc |-> n.children[s].inc, epoch |-> n.epoch]

Kept(m, n) == {s \in DOMAIN n.children : Has(m, s, n.children[s].gen)}

LEMMA EmittedIs ==
    ASSUME NEW m, NEW n
    PROVE  Emitted(m, n) =
             {ActOf("open", n, s) : s \in DOMAIN n.children \ Kept(m, n)}
             \cup {ActOf("cancel", n, s) : s \in
                     {x \in Kept(m, n) : m.children[x].phase \in {"Opening"}
                                           /\ n.children[x].phase = "Closing"}}
             \cup {ActOf("close", n, s) : s \in
                     {x \in Kept(m, n) :
                        m.children[x].phase \in Phases \ {"Opening", "Closing"}
                          /\ n.children[x].phase = "Closing"}}
             \cup {ActOf("seek", n, s) : s \in
                     {x \in Kept(m, n) :
                        m.children[x].phase \in Phases \ {"Seeking"}
                          /\ n.children[x].phase = "Seeking"}}
             \cup {ActOf("grant", n, s) : s \in
                     {x \in Kept(m, n) : m.children[x].flow = "none"
                                           /\ n.children[x].flow # "none"}}
  BY Zenon DEF Emitted, ActOf, Kept

LEMMA ActOfIs ==
    ASSUME NEW op, NEW n, NEW s
    PROVE  LET a == ActOf(op, n, s)
           IN  /\ a.op = op /\ a.seg = s /\ a.gen = n.children[s].gen
               /\ a.inc = n.children[s].inc /\ a.epoch = n.epoch
  BY DEF ActOf

LEMMA EmittedAnnounces ==
    ASSUME NEW m, NEW n, NEW a \in Emitted(m, n)
    PROVE  Announces(m, n, a)
<1>1. CASE \E s \in DOMAIN n.children \ Kept(m, n) : a = ActOf("open", n, s)
  BY <1>1, ActOfIs DEF Announces, Kept
<1>2. CASE \E s \in Kept(m, n) : /\ m.children[s].phase = "Opening"
                                 /\ n.children[s].phase = "Closing"
                                 /\ a = ActOf("cancel", n, s)
  BY <1>2, ActOfIs DEF Announces, Kept
<1>3. CASE \E s \in Kept(m, n) :
              /\ m.children[s].phase \in Phases \ {"Opening", "Closing"}
              /\ n.children[s].phase = "Closing" /\ a = ActOf("close", n, s)
  BY <1>3, ActOfIs DEF Announces, Kept
<1>4. CASE \E s \in Kept(m, n) :
              /\ m.children[s].phase \in Phases \ {"Seeking"}
              /\ n.children[s].phase = "Seeking" /\ a = ActOf("seek", n, s)
  BY <1>4, ActOfIs DEF Announces, Kept
<1>5. CASE \E s \in Kept(m, n) : /\ m.children[s].flow = "none"
                                 /\ n.children[s].flow # "none"
                                 /\ a = ActOf("grant", n, s)
  BY <1>5, ActOfIs DEF Announces, Kept
<1> QED
  BY <1>1, <1>2, <1>3, <1>4, <1>5, EmittedIs

(* What is handed out for each child. *)
Handed(m, n, s, op, A) ==
    \E a \in A : /\ a.op = op /\ a.seg = s /\ a.gen = n.children[s].gen
                 /\ a.inc = n.children[s].inc

LEMMA EmittedFor ==
    ASSUME NEW m, NEW n, NEW s \in DOMAIN n.children
    PROVE  LET A == Emitted(m, n)
           IN  /\ ~Has(m, s, n.children[s].gen) => Handed(m, n, s, "open", A)
               /\ Has(m, s, n.children[s].gen) =>
                    /\ (m.children[s].phase = "Opening" /\ n.children[s].phase = "Closing")
                         => Handed(m, n, s, "cancel", A)
                    /\ (m.children[s].phase \in Phases \ {"Opening", "Closing"}
                          /\ n.children[s].phase = "Closing")
                         => Handed(m, n, s, "close", A)
                    /\ (m.children[s].phase \in Phases \ {"Seeking"}
                          /\ n.children[s].phase = "Seeking")
                         => Handed(m, n, s, "seek", A)
                    /\ (m.children[s].flow = "none" /\ n.children[s].flow # "none")
                         => Handed(m, n, s, "grant", A)
<1> DEFINE A == Emitted(m, n)
<1>1. ASSUME NEW op, ActOf(op, n, s) \in A PROVE Handed(m, n, s, op, A)
  BY <1>1, ActOfIs DEF Handed
<1>2. ~Has(m, s, n.children[s].gen) => ActOf("open", n, s) \in A
  BY EmittedIs DEF Kept
<1>3. Has(m, s, n.children[s].gen) => s \in Kept(m, n)
  BY DEF Kept
<1>4. s \in Kept(m, n) =>
        /\ (m.children[s].phase = "Opening" /\ n.children[s].phase = "Closing")
             => ActOf("cancel", n, s) \in A
        /\ (m.children[s].phase \in Phases \ {"Opening", "Closing"}
              /\ n.children[s].phase = "Closing")
             => ActOf("close", n, s) \in A
        /\ (m.children[s].phase \in Phases \ {"Seeking"}
              /\ n.children[s].phase = "Seeking")
             => ActOf("seek", n, s) \in A
        /\ (m.children[s].flow = "none" /\ n.children[s].flow # "none")
             => ActOf("grant", n, s) \in A
  BY EmittedIs
<1> HIDE DEF A
<1>5. ~Has(m, s, n.children[s].gen) => Handed(m, n, s, "open", A)
  BY <1>1, <1>2
<1>6. Has(m, s, n.children[s].gen) =>
        /\ (m.children[s].phase = "Opening" /\ n.children[s].phase = "Closing")
             => Handed(m, n, s, "cancel", A)
        /\ (m.children[s].phase \in Phases \ {"Opening", "Closing"}
              /\ n.children[s].phase = "Closing")
             => Handed(m, n, s, "close", A)
        /\ (m.children[s].phase \in Phases \ {"Seeking"}
              /\ n.children[s].phase = "Seeking")
             => Handed(m, n, s, "seek", A)
        /\ (m.children[s].flow = "none" /\ n.children[s].flow # "none")
             => Handed(m, n, s, "grant", A)
  BY <1>1, <1>3, <1>4
<1> QED
  BY <1>5, <1>6 DEF A

-----------------------------------------------------------------------------
(* Generations age: a child that is closing stays so, and only one that    *)
(* has been attached gets anything to do.                                  *)

Lives(c) == c.phase \notin {"Opening", "Closing"} \/ c.retained > 0

AllSeek(n) == \A s \in DOMAIN n.children : n.children[s].phase = "Seeking"

Aged(m, n, s) ==
    LET d == n.children[s]
    IN  \/ /\ s \in DOMAIN m.children /\ d.gen = m.children[s].gen
           /\ m.children[s].phase = "Closing" => d.phase = "Closing"
           /\ Lives(d) => Lives(m.children[s])
           /\ d.phase = "Opening" =>
                m.children[s].phase = "Opening" /\ d.inc = m.children[s].inc
           /\ d.phase = "Seeking" => m.children[s].phase = "Seeking" \/ AllSeek(n)
        \/ /\ d.gen >= m.nextGen /\ d.phase = "Opening" /\ d.retained = 0
           /\ d.inc = n.inc

Ages(m, n) ==
    n.nextGen >= m.nextGen /\ \A s \in DOMAIN n.children : Aged(m, n, s)

LEMMA MovesLives ==
    ASSUME NEW c, NEW d, Moves(c, d), Lives(d)
    PROVE  Lives(c)
  BY DEF Moves, Lives

LEMMA DriftsAge ==
    ASSUME NEW m, NEW n, NEW X, Drifts(m, n, X),
           \A s \in X : s \in DOMAIN n.children => Aged(m, n, s)
    PROVE  Ages(m, n)
<1>1. ASSUME NEW s \in DOMAIN n.children PROVE Aged(m, n, s)
  <2>1. CASE s \in X
    BY <2>1
  <2>2. CASE s \notin X /\ s \in DOMAIN m.children
    <3>1. Moves(m.children[s], n.children[s])
      BY <2>2 DEF Drifts
    <3> QED
      BY <2>2, <3>1, MovesLives DEF Aged, Moves
  <2>3. CASE s \notin X /\ s \notin DOMAIN m.children
    <3>1. /\ Fresh(n.children[s]) /\ n.children[s].gen >= m.nextGen
          /\ n.children[s].inc = n.inc
      BY <2>3 DEF Drifts
    <3> QED
      BY <3>1 DEF Aged, Fresh
  <2> QED
    BY <2>1, <2>2, <2>3
<1> QED
  BY <1>1 DEF Ages, Drifts

LEMMA AgesSame ==
    ASSUME NEW m, Ok(m), NEW n, n.children = m.children, n.nextGen = m.nextGen
    PROVE  Ages(m, n)
<1>1. m.nextGen \in Nat
  BY OkParts
<1> QED
  BY <1>1 DEF Ages, Aged

LEMMA AgesCompose ==
    ASSUME NEW m, NEW k, NEW n, Ok(m), Ok(k), Ok(n), Ages(m, k), Ages(k, n),
           \A s \in DOMAIN k.children :
              /\ Has(m, s, k.children[s].gen)
              /\ k.children[s].phase = "Seeking" => m.children[s].phase = "Seeking"
    PROVE  Ages(m, n)
<1>0. /\ m.nextGen \in Nat /\ k.nextGen \in Nat /\ n.nextGen \in Nat
      /\ \A s \in DOMAIN n.children : n.children[s].gen \in Nat
      /\ \A s \in DOMAIN k.children : k.children[s].gen \in Nat
  BY OkParts DEF Good, IsChild
<1>1. k.nextGen >= m.nextGen /\ n.nextGen >= k.nextGen
  BY DEF Ages
<1>2. ASSUME NEW s \in DOMAIN n.children PROVE Aged(m, n, s)
  <2>1. Aged(k, n, s)
    BY DEF Ages
  <2>2. CASE /\ n.children[s].gen >= k.nextGen /\ n.children[s].phase = "Opening"
             /\ n.children[s].retained = 0 /\ n.children[s].inc = n.inc
    BY <1>0, <1>1, <2>2 DEF Aged
  <2>3. CASE ~(n.children[s].gen >= k.nextGen /\ n.children[s].phase = "Opening"
             /\ n.children[s].retained = 0 /\ n.children[s].inc = n.inc)
    <3>1. s \in DOMAIN k.children
      BY <2>1, <2>3 DEF Aged
    <3>2. /\ Aged(m, k, s) /\ Has(m, s, k.children[s].gen)
          /\ k.children[s].phase = "Seeking" => m.children[s].phase = "Seeking"
      BY <3>1 DEF Ages
    <3>3. m.children[s].gen \in Nat /\ m.children[s].gen < m.nextGen
      BY <3>2, OkParts DEF Has, Numbered, Good, IsChild
    <3> QED
      BY <1>0, <2>1, <2>3, <3>2, <3>3 DEF Aged, Has
  <2> QED
    BY <2>2, <2>3
<1> QED
  BY <1>0, <1>1, <1>2 DEF Ages

-----------------------------------------------------------------------------
(* What the runtime may rely on when a method has run.                     *)

(* While the aggregate is open, a closing child retains nothing. *)
Dry(m) == m.phase = "Open" =>
            \A s \in DOMAIN m.children :
               m.children[s].phase = "Closing" => m.children[s].retained = 0

(* What a segment has retained. *)
Stock(m, s) == IF s \in DOMAIN m.children THEN m.children[s].retained ELSE 0

(* The phases a method other than close and rejoin leads to. *)
Onward(p, q) == \/ q = p
                \/ p = "Open" /\ q = "ResyncRequired"
                \/ p = "Closing" /\ q = "Closed"

Keeps(m, n) == n.phase = "Open" => \A s \in Segments : Stock(n, s) = Stock(m, s)

Carries(m, n) ==
    Ok(n) /\ Ages(m, n) /\ Onward(m.phase, n.phase) /\ Dry(n) /\ Keeps(m, n)

OpsKept(m, n) ==
    /\ n.nextOp = m.nextOp /\ n.ops \subseteq m.ops
    /\ n.phase = "Open" => n.ops = m.ops

Tends(m, n) ==
    Carries(m, n) /\ OpsKept(m, n) /\ (m.phase = "Open" => n.phase = "Open")

LEMMA DriftsStock ==
    ASSUME NEW m, NEW n, NEW X, Dry(m), Drifts(m, n, X), n.phase = "Open",
           m.phase = "Open"
    PROVE  /\ \A s \in Segments \ X : Stock(n, s) = Stock(m, s)
           /\ \A s \in DOMAIN n.children \ X :
                n.children[s].phase = "Closing" => n.children[s].retained = 0
<1>1. ASSUME NEW s \in DOMAIN n.children \ X
      PROVE  /\ Stock(n, s) = Stock(m, s)
             /\ n.children[s].phase = "Closing" => n.children[s].retained = 0
  <2>1. CASE s \in DOMAIN m.children
    <3>1. /\ Moves(m.children[s], n.children[s])
          /\ ClosesDry(m.children[s], n.children[s])
      BY <2>1 DEF Drifts
    <3> QED
      BY <2>1, <3>1 DEF Moves, ClosesDry, Dry, Stock
  <2>2. CASE s \notin DOMAIN m.children
    <3>1. Fresh(n.children[s])
      BY <2>2 DEF Drifts
    <3> QED
      BY <2>2, <3>1 DEF Fresh, Stock
  <2> QED
    BY <2>1, <2>2
<1>2. ASSUME NEW s \in Segments \ X PROVE Stock(n, s) = Stock(m, s)
  <2>1. CASE s \in DOMAIN n.children
    BY <1>1, <2>1
  <2>2. CASE s \notin DOMAIN n.children
    <3>1. s \notin DOMAIN m.children
      BY <2>2 DEF Drifts
    <3> QED
      BY <2>2, <3>1 DEF Stock
  <2> QED
    BY <2>1, <2>2
<1> QED
  BY <1>1, <1>2

LEMMA DriftsCarry ==
    ASSUME NEW m, NEW n, NEW X, Ok(m), Ok(n), Dry(m), Drifts(m, n, X),
           Onward(m.phase, n.phase),
           \A s \in X : s \in DOMAIN n.children =>
              /\ Aged(m, n, s)
              /\ n.phase = "Open" /\ n.children[s].phase = "Closing" =>
                   n.children[s].retained = 0,
           n.phase = "Open" => \A s \in X : Stock(n, s) = Stock(m, s)
    PROVE  Carries(m, n)
<1>1. Ages(m, n)
  BY DriftsAge
<1>2. n.phase = "Open" => m.phase = "Open"
  BY DEF Onward
<1>3. Dry(n) /\ Keeps(m, n)
  BY <1>2, DriftsStock DEF Dry, Keeps
<1> QED
  BY <1>1, <1>3 DEF Carries

LEMMA DriftsCarryAll ==
    ASSUME NEW m, NEW n, Ok(m), Ok(n), Dry(m), Drifts(m, n, {}),
           Onward(m.phase, n.phase)
    PROVE  Carries(m, n)
  BY DriftsCarry

LEMMA GoesCarries ==
    ASSUME NEW m, NEW n, Ok(m), Goes(m, n, {}), Dry(m), Onward(m.phase, n.phase)
    PROVE  Carries(m, n)
  BY EvolvesDrifts, DriftsCarryAll DEF Goes

LEMMA RestingTends ==
    ASSUME NEW m, NEW n, Ok(m), Ok(n), Dry(m), Resting(m, n)
    PROVE  Tends(m, n)
<1>1. Drifts(m, n, {}) /\ Onward(m.phase, n.phase)
  BY RestingDrifts DEF Resting, Onward
<1>2. OpsKept(m, n) /\ n.phase = m.phase
  BY DEF Resting, OpsKept
<1> QED
  BY <1>1, <1>2, DriftsCarryAll DEF Tends

LEMMA TendsSame ==
    ASSUME NEW m, Ok(m), Dry(m)
    PROVE  Tends(m, m)
  BY RestingSame, RestingTends

LEMMA ResyncCarries ==
    ASSUME NEW m, Ok(m), Dry(m)
    PROVE  /\ Carries(m, RequireResync(m)) /\ OpsKept(m, RequireResync(m))
           /\ RequireResync(m).phase # "Open"
<1> DEFINE n == RequireResync(m)
<1>1. /\ Goes(m, n, {}) /\ n.phase # "Open"
      /\ n.phase = IF m.phase = "Open" THEN "ResyncRequired" ELSE m.phase
      /\ n.ops = {} /\ n.nextOp = m.nextOp
  BY RequireResyncGoes
<1> HIDE DEF n
<1>2. Carries(m, n) /\ OpsKept(m, n)
  BY <1>1, GoesCarries DEF OpsKept, Onward
<1> QED
  BY <1>1, <1>2 DEF n

LEMMA ChildClosedTends ==
    ASSUME NEW m, Ok(m), Dry(m), NEW s, NEW g, CanChildClosed(m, s, g)
    PROVE  LET n == ChildClosed(m, s)
           IN  /\ Tends(m, n)
               /\ s \in DOMAIN n.children => ~Lives(n.children[s])
<1> DEFINE n == ChildClosed(m, s)
<1>0. s \in DOMAIN m.children /\ m.children[s].phase = "Closing"
  BY DEF CanChildClosed, Has
<1>1. /\ Goes(m, n, {s}) /\ n.ops = m.ops /\ n.nextOp = m.nextOp
      /\ n.phase = m.phase \/ (m.phase = "Closing" /\ n.phase = "Closed")
      /\ s \in DOMAIN n.children =>
           /\ Fresh(n.children[s]) /\ n.children[s].gen >= m.nextGen
           /\ n.children[s].inc = n.inc
  BY <1>0, ChildClosedGoes
<1> HIDE DEF n
<1>2. Drifts(m, n, {s}) /\ Ok(n) /\ Onward(m.phase, n.phase)
  BY <1>1, EvolvesDrifts DEF Goes, Onward
<1>3. s \in DOMAIN n.children =>
        /\ ~Lives(n.children[s]) /\ Aged(m, n, s) /\ n.children[s].retained = 0
  BY <1>1 DEF Fresh, Lives, Aged
<1>4. n.phase = "Open" => Stock(n, s) = Stock(m, s)
  BY <1>0, <1>1, <1>3 DEF Stock, Dry
<1>5. Carries(m, n)
  BY <1>2, <1>3, <1>4, DriftsCarry
<1> QED
  BY <1>1, <1>3, <1>5 DEF Tends, OpsKept, n

LEMMA CompleteTends ==
    ASSUME NEW m, Ok(m), Dry(m), NEW s
    PROVE  Tends(m, CompleteSegment(m, s))
  BY CompleteGoes, RestingTends

LEMMA ResolveTends ==
    ASSUME NEW m, Ok(m), Dry(m), NEW D
    PROVE  Tends(m, ResolveLeases(m, D))
  BY ResolveGoes, RestingTends

LEMMA ApplyTends ==
    ASSUME NEW m, Ok(m), Dry(m), m.phase = "Open", NEW l, NEW a, DOMAIN a \subseteq Segments
    PROVE  Tends(m, ApplyControlPlane(m, l, a)) /\ ApplyControlPlane(m, l, a).phase = "Open"
<1> DEFINE n == ApplyControlPlane(m, l, a)
<1>1. Goes(m, n, {}) /\ Quiet(m, n)
  BY ApplyGoes
<1> HIDE DEF n
<1>2. Tends(m, n) /\ n.phase = "Open"
  BY <1>1, GoesCarries DEF Tends, OpsKept, Onward, Quiet
<1> QED
  BY <1>2 DEF n

LEMMA BusyTends ==
    ASSUME NEW m, Ok(m), Dry(m), m.phase = "Open", NEW s
    PROVE  Tends(m, ChildOpenBusy(m, s)) /\ ChildOpenBusy(m, s).phase = "Open"
<1> DEFINE n == ChildOpenBusy(m, s)
<1>1. Goes(m, n, {}) /\ n.phase = "Open" /\ n.ops = m.ops /\ n.nextOp = m.nextOp
  BY ChildOpenBusyGoes
<1> HIDE DEF n
<1>2. Tends(m, n) /\ n.phase = "Open"
  BY <1>1, GoesCarries DEF Tends, OpsKept, Onward
<1> QED
  BY <1>2 DEF n

LEMMA BufferChunkTends ==
    ASSUME NEW m, Ok(m), Dry(m), NEW s, NEW g, CanBufferChunk(m, s, g)
    PROVE  Tends(m, BufferChunk(m, s))
<1> DEFINE n == BufferChunk(m, s)
<1>1. Goes(m, n, {}) /\ Quiet(m, n)
  BY BufferChunkGoes
<1> HIDE DEF n
<1>2. Tends(m, n)
  BY <1>1, GoesCarries DEF Tends, OpsKept, Onward, Quiet
<1> QED
  BY <1>2 DEF n

LEMMA ReserveWorkTends ==
    ASSUME NEW m, Ok(m), Dry(m), NEW s, NEW g, CanReserveWork(m, s, g)
    PROVE  Tends(m, ReserveWork(m, s))
<1> DEFINE n == ReserveWork(m, s)
<1>0. /\ s \in DOMAIN m.children /\ m.children[s].phase # "Opening"
      /\ Used(m) < BudgetLimit
  BY DEF CanReserveWork, Receiving, Has
<1>1. Goes(m, n, {}) /\ Quiet(m, n)
  BY <1>0, ReserveWorkGoes
<1> HIDE DEF n
<1>2. Tends(m, n)
  BY <1>1, GoesCarries DEF Tends, OpsKept, Onward, Quiet
<1> QED
  BY <1>2 DEF n

LEMMA SeekCompletedTends ==
    ASSUME NEW m, Ok(m), Dry(m), NEW s, NEW g, CanSeekCompleted(m, s, g)
    PROVE  Tends(m, SeekCompleted(m, s))
<1> DEFINE n == SeekCompleted(m, s)
<1>0. s \in DOMAIN m.children /\ m.phase = "Open" /\ m.children[s].phase = "Seeking"
  BY DEF CanSeekCompleted, Has
<1>1. /\ Goes(m, n, {s}) /\ Quiet(m, n) /\ s \in DOMAIN n.children
      /\ Waiting(m.children[s], n.children[s])
  BY <1>0, SeekCompletedGoes
<1> HIDE DEF n
<1>2. Drifts(m, n, {s}) /\ Ok(n) /\ Onward(m.phase, n.phase)
  BY <1>1, EvolvesDrifts DEF Goes, Onward, Quiet
<1>3. Aged(m, n, s) /\ n.children[s].phase # "Closing"
  BY <1>0, <1>1 DEF Waiting, Aged, Lives
<1>4. Stock(n, s) = Stock(m, s)
  BY <1>0, <1>1 DEF Stock, Waiting
<1>5. Carries(m, n)
  BY <1>2, <1>3, <1>4, DriftsCarry
<1> QED
  BY <1>1, <1>5 DEF Tends, OpsKept, Quiet, n

LEMMA BeginSeekTends ==
    ASSUME NEW m, Ok(m), Dry(m), CanSeek(m)
    PROVE  Tends(m, BeginSeek(m))
<1> DEFINE n == BeginSeek(m)
<1>1. /\ Ok(n) /\ Quiet(m, n) /\ n.phase = "Open" /\ n.nextGen = m.nextGen
      /\ DOMAIN n.children = DOMAIN m.children
      /\ \A s \in DOMAIN m.children :
           /\ n.children[s].gen = m.children[s].gen
           /\ n.children[s].phase = "Seeking" /\ n.children[s].retained = 0
           /\ m.children[s].phase \in {"OpenBlocked", "Flowing", "Terminal"}
           /\ m.children[s].retained = 0
  BY BeginSeekGoes
<1> HIDE DEF n
<1>2. m.nextGen \in Nat
  BY OkParts
<1>3. Ages(m, n)
  BY <1>1, <1>2 DEF Ages, Aged, Lives, AllSeek
<1>4. Dry(n) /\ Keeps(m, n) /\ Onward(m.phase, n.phase)
  BY <1>1 DEF Dry, Keeps, Stock, Onward, Quiet
<1> QED
  BY <1>1, <1>3, <1>4 DEF Tends, Carries, OpsKept, Quiet, n

LEMMA TerminalTends ==
    ASSUME NEW m, Ok(m), Dry(m), NEW s, NEW g, CanObserveTerminal(m, s, g)
    PROVE  Tends(m, ObserveTerminal(m, s))
<1> DEFINE n == ObserveTerminal(m, s)
           c == m.children[s]
           d == n.children[s]
<1>0. s \in DOMAIN m.children /\ c.phase # "Opening" /\ c.phase \in Phases
  BY OkParts DEF CanObserveTerminal, Has, Good, IsChild
<1>1. /\ Goes(m, n, {s}) /\ Quiet(m, n) /\ DOMAIN n.children = DOMAIN m.children
      /\ d.gen = c.gen /\ d.retained = c.retained
      /\ d.phase \in {"Terminal", "Draining", "Closing"}
      /\ c.phase = "Closing" => d.phase = "Closing"
      /\ ClosesEmpty(c, d)
  BY <1>0, ObserveTerminalGoes
<1> HIDE DEF n
<1>2. Drifts(m, n, {s}) /\ Ok(n) /\ Onward(m.phase, n.phase)
  BY <1>1, EvolvesDrifts DEF Goes, Onward, Quiet
<1>3. Aged(m, n, s)
  BY <1>0, <1>1 DEF Aged, Lives
<1>4. n.phase = "Open" /\ d.phase = "Closing" => d.retained = 0
  BY <1>0, <1>1 DEF ClosesEmpty, Dry, Quiet
<1>5. Stock(n, s) = Stock(m, s)
  BY <1>0, <1>1 DEF Stock
<1>6. Carries(m, n)
  BY <1>2, <1>3, <1>4, <1>5, DriftsCarry
<1> QED
  BY <1>1, <1>6 DEF Tends, OpsKept, Quiet, n

LEMMA SettleCarries ==
    ASSUME NEW m, Ok(m), Dry(m), NEW n, SettlesTo(m, n)
    PROVE  Carries(m, n)
  BY DriftsCarryAll DEF SettlesTo, Onward

LEMMA AdmitCarries ==
    ASSUME NEW m, Ok(m), Dry(m), m.phase = "Open", NEW comps, NEW leases, NEW txn \in BOOLEAN,
           \A c \in comps : /\ Has(m, c.seg, c.gen)
                            /\ m.children[c.seg].phase \notin {"Opening", "Closing"}
    PROVE  Carries(m, Admit(m, comps, leases, txn))
<1> DEFINE n == Admit(m, comps, leases, txn)
<1>1. Goes(m, n, {}) /\ n.phase = m.phase
  BY AdmitGoes
<1> HIDE DEF n
<1>2. Carries(m, n)
  BY <1>1, GoesCarries DEF Onward
<1> QED
  BY <1>2 DEF n

=============================================================================
