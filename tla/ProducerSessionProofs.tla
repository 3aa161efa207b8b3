------------------------ MODULE ProducerSessionProofs ------------------------
(***************************************************************************)
(* Proofs about ProducerSession, for any number of sends, requests,        *)
(* retries and disruptions.  A session never sends to a broker that does   *)
(* not hold the producer, and publishes in sequence-id order; while the    *)
(* supervisor does not give up, it keeps PublishPromise and every send it  *)
(* accepted is in exactly one place.                                       *)
(*                                                                         *)
(* First what each method of ProducerState makes of a send queue, then     *)
(* what each handler does to the sends (Accepts, Keeps, Polled, Forgets)   *)
(* and to the attach protocol, then the invariants over those few kinds of *)
(* step.                                                                   *)
(***************************************************************************)
EXTENDS ProducerSession, SequenceTheorems, WellFoundedInduction, TLAPS

-----------------------------------------------------------------------------
(* Induction and iteration, with sets and functions for parameters.        *)

(* A set that holds zero and every successor holds every number. *)
LEMMA Induction ==
    ASSUME NEW T, 0 \in T, \A n \in Nat : n \in T => n + 1 \in T
    PROVE  Nat \subseteq T
<1> DEFINE M == Nat \ T
<1> SUFFICES ASSUME M # {} PROVE FALSE
  OBVIOUS
<1> HIDE DEF M
<1>1. OpToRel(<, Nat) = {ss \in Nat \X Nat : ss[1] < ss[2]}
  BY DEF OpToRel
<1>2. M \subseteq Nat
  BY DEF M
<1>3. PICK x \in M : \A y \in M : ~ (<<y, x>> \in OpToRel(<, Nat))
  BY <1>2, NatLessThanWellFounded, WFMin
<1>4. x \in Nat /\ x # 0 /\ x \notin T
  BY <1>3 DEF M
<1>5. x - 1 \in Nat /\ x - 1 < x
  BY <1>4
<1>6. x - 1 \notin M
  <2>1. <<x - 1, x>> \in Nat \X Nat /\ <<x - 1, x>>[1] = x - 1 /\ <<x - 1, x>>[2] = x
    BY <1>4, <1>5
  <2> QED
    BY <1>1, <1>3, <1>5, <2>1
<1>7. (x - 1) + 1 \in T
  BY <1>5, <1>6 DEF M
<1> QED
  BY <1>4, <1>7

(* A step function can be iterated. *)
Steps(L, X) == [1..L -> [X -> X]]
Iterates(L, X, x0, h) ==
    \E g \in [0..L -> X] : g[0] = x0 /\ \A n \in 1..L : g[n] = h[n][g[n - 1]]

LEMMA Iteration ==
    \A L \in Nat : \A X : \A x0 \in X : \A h \in Steps(L, X) : Iterates(L, X, x0, h)
<1> SUFFICES ASSUME NEW L \in Nat, NEW X, NEW x0 \in X, NEW h \in [1..L -> [X -> X]]
             PROVE  \E g \in [0..L -> X] :
                       g[0] = x0 /\ \A n \in 1..L : g[n] = h[n][g[n - 1]]
  BY DEF Steps, Iterates
<1> DEFINE Upto(m) == \E g \in [0..m -> X] :
                        g[0] = x0 /\ \A n \in 1..m : g[n] = h[n][g[n - 1]]
           T == {m \in Nat : m <= L => Upto(m)}
<1>1. 0 \in T
  <2>1. [n \in 0..0 |-> x0] \in [0..0 -> X] /\ [n \in 0..0 |-> x0][0] = x0
    OBVIOUS
  <2>2. \A n \in 1..0 : FALSE
    OBVIOUS
  <2> QED
    BY <2>1, <2>2
<1>2. ASSUME NEW m \in Nat, m \in T PROVE m + 1 \in T
  <2> SUFFICES ASSUME m + 1 <= L PROVE Upto(m + 1)
    OBVIOUS
  <2>1. PICK g \in [0..m -> X] : g[0] = x0 /\ \A n \in 1..m : g[n] = h[n][g[n - 1]]
    BY <1>2
  <2> DEFINE gg == [n \in 0..(m + 1) |-> IF n = m + 1 THEN h[m + 1][g[m]] ELSE g[n]]
  <2>2. h[m + 1][g[m]] \in X
    OBVIOUS
  <2>3. gg \in [0..(m + 1) -> X]
    BY <2>2
  <2>4. gg[0] = x0
    BY <2>1
  <2>5. ASSUME NEW n \in 1..(m + 1) PROVE gg[n] = h[n][gg[n - 1]]
    <3>1. CASE n = m + 1
      <4>1. gg[m + 1] = h[m + 1][g[m]] /\ gg[m] = g[m]
        OBVIOUS
      <4>2. n - 1 = m
        BY <3>1
      <4> HIDE DEF gg
      <4> QED
        BY <3>1, <4>1, <4>2
    <3>2. CASE n \in 1..m
      <4>1. gg[n] = g[n] /\ gg[n - 1] = g[n - 1]
        BY <3>2
      <4> HIDE DEF gg
      <4> QED
        BY <2>1, <3>2, <4>1
    <3> QED
      BY <3>1, <3>2
  <2> HIDE DEF gg
  <2> QED
    BY <2>3, <2>4, <2>5
<1>3. Nat \subseteq T
  <2> HIDE DEF T
  <2> QED
    BY <1>1, <1>2, Induction
<1> QED
  BY <1>3

(* Kept unfolds. *)
KeptBy(ops, keep, f) ==
    /\ f \in [0..Len(ops) -> Seq(Ops)]
    /\ Kept(ops, keep) = f[Len(ops)]
    /\ f[0] = <<>>
    /\ \A n \in 1..Len(ops) :
         f[n] = IF ops[n] \in keep THEN Append(f[n - 1], ops[n]) ELSE f[n - 1]

LEMMA KeptUnfolds ==
    ASSUME NEW ops \in Seq(Ops), NEW keep
    PROVE  \E f : KeptBy(ops, keep, f)
<1> DEFINE L == Len(ops)
           h == [n \in 1..L |-> [x \in Seq(Ops) |->
                   IF ops[n] \in keep THEN Append(x, ops[n]) ELSE x]]
           Recurs(g) == g = [n \in 0..Len(ops) |-> IF n = 0 THEN <<>>
                   ELSE IF ops[n] \in keep THEN Append(g[n - 1], ops[n]) ELSE g[n - 1]]
<1>1. L \in Nat /\ <<>> \in Seq(Ops)
  OBVIOUS
<1>2. h \in [1..L -> [Seq(Ops) -> Seq(Ops)]]
  OBVIOUS
<1>3. PICK g \in [0..L -> Seq(Ops)] :
         g[0] = <<>> /\ \A n \in 1..L : g[n] = h[n][g[n - 1]]
  <2>1. h \in Steps(L, Seq(Ops))
    BY <1>2 DEF Steps
  <2> HIDE DEF h, L
  <2>2. Iterates(L, Seq(Ops), <<>>, h)
    BY <1>1, <2>1, Iteration, Zenon
  <2> QED
    BY <2>2 DEF Iterates
<1>4. ASSUME NEW n \in 1..L PROVE
         /\ n - 1 \in 0..L /\ n # 0
         /\ g[n] = IF ops[n] \in keep THEN Append(g[n - 1], ops[n]) ELSE g[n - 1]
  <2>1. n - 1 \in 0..L /\ g[n - 1] \in Seq(Ops) /\ n # 0
    BY <1>1, <1>3
  <2> QED
    BY <1>3, <2>1
<1>5. Recurs(g)
  <2> HIDE DEF h
  <2>1. \A n \in 0..L : n # 0 => n \in 1..L
    BY <1>1
  <2>2. \A n \in 0..L : g[n] =
           IF n = 0 THEN <<>>
           ELSE IF ops[n] \in keep THEN Append(g[n - 1], ops[n]) ELSE g[n - 1]
    BY <1>3, <1>4, <2>1
  <2> QED
    BY <1>3, <2>2, Zenon
<1>6. \E f : Kept(ops, keep) = f[Len(ops)] /\ Recurs(f)
  BY <1>5, Zenon DEF Kept
<1>7. PICK f : Kept(ops, keep) = f[Len(ops)] /\ Recurs(f)
  BY <1>6
<1>8. f[0] = <<>>
  <2>1. 0 \in 0..Len(ops)
    BY <1>1
  <2> QED
    BY <1>7, <2>1, Zenon
<1>9. ASSUME NEW n \in 1..Len(ops)
      PROVE  f[n] = IF ops[n] \in keep THEN Append(f[n - 1], ops[n]) ELSE f[n - 1]
  <2>1. n \in 0..Len(ops) /\ n # 0
    BY <1>1
  <2> QED
    BY <1>7, <2>1, Zenon
<1>10. f \in [0..Len(ops) -> Seq(Ops)]
  <2> DEFINE T == {n \in Nat : n \in 0..Len(ops) => f[n] \in Seq(Ops)}
  <2>1. 0 \in T
    <3>1. f[0] \in Seq(Ops)
      BY <1>1, <1>8, Zenon
    <3> QED
      BY <3>1
  <2>2. ASSUME NEW n \in Nat, n \in T PROVE n + 1 \in T
    <3> SUFFICES ASSUME n + 1 \in 0..Len(ops) PROVE f[n + 1] \in Seq(Ops)
      OBVIOUS
    <3>1. f[n] \in Seq(Ops) /\ n + 1 \in 1..Len(ops) /\ (n + 1) - 1 = n
      BY <2>2
    <3>2. f[n + 1] = IF ops[n + 1] \in keep THEN Append(f[n], ops[n + 1]) ELSE f[n]
      BY <1>9, <3>1
    <3> QED
      BY <3>1, <3>2
  <2>3. Nat \subseteq T
    <3> HIDE DEF T
    <3> QED
      BY <2>1, <2>2, Induction
  <2>4. \A n \in 0..Len(ops) : f[n] \in Seq(Ops)
    BY <2>3
  <2> QED
    BY <1>7, <2>4
<1> QED
  BY <1>7, <1>8, <1>9, <1>10 DEF KeptBy

-----------------------------------------------------------------------------
(* Lists of ops.                                                           *)

Sorted(ops) == \A i, j \in 1..Len(ops) : i < j => ops[i].seq < ops[j].seq

LEMMA OpsAreOps ==
    ASSUME NEW ops \in Seq(Ops)
    PROVE  OpsOf(ops) \subseteq Ops /\ SeqsOf(ops) = Keys(OpsOf(ops)) /\ SeqsOf(ops) \subseteq Seqs
<1>0. \A i \in 1..Len(ops) : ops[i] \in Ops
  OBVIOUS
<1>1. \A i \in 1..Len(ops) : ops[i] \in Ops /\ ops[i].seq \in Seqs
  BY <1>0 DEF Ops
<1>2. ASSUME NEW q \in SeqsOf(ops) PROVE q \in Keys(OpsOf(ops)) /\ q \in Seqs
  <2>1. PICK i \in 1..Len(ops) : q = ops[i].seq
    BY DEF SeqsOf
  <2>2. ops[i] \in OpsOf(ops)
    BY DEF OpsOf
  <2> QED
    BY <1>1, <2>1, <2>2 DEF Keys
<1>3. ASSUME NEW q \in Keys(OpsOf(ops)) PROVE q \in SeqsOf(ops)
  BY DEF Keys, OpsOf, SeqsOf
<1>4. OpsOf(ops) \subseteq Ops
  BY <1>1 DEF OpsOf
<1> QED
  BY <1>2, <1>3, <1>4

LEMMA NoOps ==
    <<>> \in Seq(Ops) /\ OpsOf(<<>>) = {} /\ SeqsOf(<<>>) = {} /\ Sorted(<<>>)
BY DEF OpsOf, SeqsOf, Sorted

LEMMA AppendOps ==
    ASSUME NEW ops \in Seq(Ops), NEW op \in Ops
    PROVE  /\ Append(ops, op) \in Seq(Ops)
           /\ OpsOf(Append(ops, op)) = OpsOf(ops) \cup {op}
           /\ Sorted(ops) /\ (\A o \in OpsOf(ops) : o.seq < op.seq) =>
                Sorted(Append(ops, op))
<1> DEFINE all == Append(ops, op)
<1>1. /\ all \in Seq(Ops) /\ Len(all) = Len(ops) + 1 /\ Len(ops) \in Nat
      /\ \A i \in 1..Len(ops) : all[i] = ops[i]
      /\ all[Len(ops) + 1] = op
  OBVIOUS
<1> HIDE DEF all
<1>2. OpsOf(all) = OpsOf(ops) \cup {op}
  <2>1. ASSUME NEW o \in OpsOf(all) PROVE o \in OpsOf(ops) \cup {op}
    BY <1>1 DEF OpsOf
  <2>2. ASSUME NEW o \in OpsOf(ops) PROVE o \in OpsOf(all)
    <3>1. PICK i \in 1..Len(ops) : o = ops[i]
      BY DEF OpsOf
    <3>2. i \in 1..Len(all) /\ all[i] = o
      BY <1>1, <3>1
    <3> QED
      BY <3>2 DEF OpsOf
  <2>3. op \in OpsOf(all)
    <3>1. Len(ops) + 1 \in 1..Len(all)
      BY <1>1
    <3> QED
      BY <1>1, <3>1 DEF OpsOf
  <2> QED
    BY <2>1, <2>2, <2>3
<1>3. ASSUME Sorted(ops), \A o \in OpsOf(ops) : o.seq < op.seq
      PROVE  Sorted(all)
  BY <1>1, <1>3 DEF Sorted, OpsOf
<1> QED
  BY <1>1, <1>2, <1>3 DEF all

LEMMA JoinOps ==
    ASSUME NEW a \in Seq(Ops), NEW b \in Seq(Ops)
    PROVE  /\ a \o b \in Seq(Ops)
           /\ OpsOf(a \o b) = OpsOf(a) \cup OpsOf(b)
           /\ Sorted(a) /\ Sorted(b)
                /\ (\A x \in OpsOf(a), y \in OpsOf(b) : x.seq < y.seq) => Sorted(a \o b)
<1> DEFINE all == a \o b
<1>1. /\ all \in Seq(Ops) /\ Len(all) = Len(a) + Len(b) /\ Len(a) \in Nat /\ Len(b) \in Nat
      /\ \A i \in 1..Len(a) : all[i] = a[i]
      /\ \A i \in 1..Len(b) : all[Len(a) + i] = b[i]
  OBVIOUS
<1>1a. \A i \in 1..Len(all) : i \notin 1..Len(a) =>
          i - Len(a) \in 1..Len(b) /\ all[i] = b[i - Len(a)]
  BY <1>1
<1> HIDE DEF all
<1>2. OpsOf(all) = OpsOf(a) \cup OpsOf(b)
  <2>1. ASSUME NEW o \in OpsOf(all) PROVE o \in OpsOf(a) \cup OpsOf(b)
    BY ZenonT(60), <1>1, <1>1a DEF OpsOf
  <2>2. ASSUME NEW o \in OpsOf(a) PROVE o \in OpsOf(all)
    <3>1. PICK i \in 1..Len(a) : o = a[i]
      BY DEF OpsOf
    <3>2. i \in 1..Len(all) /\ all[i] = o
      BY <1>1, <3>1
    <3> QED
      BY <3>2 DEF OpsOf
  <2>3. ASSUME NEW o \in OpsOf(b) PROVE o \in OpsOf(all)
    <3>1. PICK i \in 1..Len(b) : o = b[i]
      BY DEF OpsOf
    <3>2. Len(a) + i \in 1..Len(all) /\ all[Len(a) + i] = o
      BY <1>1, <3>1
    <3> QED
      BY <3>2 DEF OpsOf
  <2> QED
    BY <2>1, <2>2, <2>3
<1>3. ASSUME Sorted(a), Sorted(b), \A x \in OpsOf(a), y \in OpsOf(b) : x.seq < y.seq
      PROVE  Sorted(all)
  <2> SUFFICES ASSUME NEW i \in 1..Len(all), NEW j \in 1..Len(all), i < j
               PROVE  all[i].seq < all[j].seq
    BY DEF Sorted
  <2>1. CASE j \in 1..Len(a)
    <3>1. i \in 1..Len(a)
      BY <1>1, <2>1
    <3> QED
      BY <1>1, <1>3, <2>1, <3>1 DEF Sorted
  <2>2. CASE j \notin 1..Len(a) /\ i \in 1..Len(a)
    <3>1. all[i] \in OpsOf(a) /\ all[j] \in OpsOf(b)
      BY <1>1, <1>1a, <2>2 DEF OpsOf
    <3> QED
      BY <1>3, <3>1
  <2>3. CASE j \notin 1..Len(a) /\ i \notin 1..Len(a)
    <3>1. i - Len(a) < j - Len(a)
      BY <1>1
    <3> QED
      BY <1>1a, <1>3, <2>3, <3>1 DEF Sorted
  <2> QED
    BY <2>1, <2>2, <2>3
<1> QED
  BY <1>1, <1>2, <1>3 DEF all

LEMMA WithoutOps ==
    ASSUME NEW ops \in Seq(Ops), NEW i \in 1..Len(ops), Sorted(ops)
    PROVE  /\ Without(ops, i) \in Seq(Ops)
           /\ Sorted(Without(ops, i))
           /\ OpsOf(Without(ops, i)) = {op \in OpsOf(ops) : op.seq # ops[i].seq}
<1> DEFINE a == SubSeq(ops, 1, i - 1)
           b == SubSeq(ops, i + 1, Len(ops))
<1>0. Len(ops) \in Nat /\ i \in Nat /\ ops \in [1..Len(ops) -> Ops]
  OBVIOUS
<1>1. /\ a \in Seq(Ops) /\ Len(a) = i - 1
      /\ \A k \in 1..Len(a) : a[k] = ops[k]
  BY <1>0, SubSeqProperties
<1>2. /\ b \in Seq(Ops) /\ Len(b) = Len(ops) - i
      /\ \A k \in 1..Len(b) : b[k] = ops[k + i]
  BY SMTT(40), <1>0, SubSeqProperties
<1> HIDE DEF a, b
<1>3. Sorted(a) /\ Sorted(b)
  <2>1. Sorted(a)
    BY <1>0, <1>1 DEF Sorted
  <2>2. ASSUME NEW k \in 1..Len(b), NEW n \in 1..Len(b), k < n
        PROVE  b[k].seq < b[n].seq
    <3>1. k + i \in 1..Len(ops) /\ n + i \in 1..Len(ops) /\ k + i < n + i
      BY <1>0, <1>2, <2>2
    <3> QED
      BY <1>2, <3>1 DEF Sorted
  <2> QED
    BY <2>1, <2>2 DEF Sorted
<1>4. \A x \in OpsOf(a) : x \in OpsOf(ops) /\ x.seq < ops[i].seq
  BY <1>0, <1>1 DEF OpsOf, Sorted
<1>5. \A y \in OpsOf(b) : y \in OpsOf(ops) /\ ops[i].seq < y.seq
  <2> SUFFICES ASSUME NEW k \in 1..Len(b)
               PROVE  b[k] \in OpsOf(ops) /\ ops[i].seq < b[k].seq
    BY DEF OpsOf
  <2>1. k + i \in 1..Len(ops) /\ i < k + i
    BY <1>0, <1>2
  <2> QED
    BY <1>2, <2>1 DEF OpsOf, Sorted
<1>6. \A op \in Ops : op.seq \in Nat
  BY SendsAssumption DEF Ops, Seqs
<1>7. OpsOf(ops) \subseteq Ops /\ OpsOf(a) \subseteq Ops /\ OpsOf(b) \subseteq Ops /\ ops[i] \in Ops
  BY <1>0, <1>1, <1>2, OpsAreOps
<1>8. ASSUME NEW op \in OpsOf(ops), op.seq # ops[i].seq PROVE op \in OpsOf(a) \cup OpsOf(b)
  <2>1. PICK k \in 1..Len(ops) : op = ops[k]
    BY DEF OpsOf
  <2>2. CASE k < i
    <3>1. k \in 1..Len(a)
      BY <1>0, <1>1, <2>2
    <3> QED
      BY <1>1, <2>1, <3>1 DEF OpsOf
  <2>3. CASE k > i
    <3>1. k - i \in 1..Len(b) /\ (k - i) + i = k
      BY <1>0, <1>2, <2>3
    <3> QED
      BY <1>2, <2>1, <3>1 DEF OpsOf
  <2>4. k # i
    BY <1>8, <2>1
  <2> QED
    BY <1>0, <2>2, <2>3, <2>4
<1>9. \A x \in OpsOf(a), y \in OpsOf(b) : x.seq < y.seq
  BY <1>4, <1>5, <1>6, <1>7
<1>10. Without(ops, i) = a \o b
  BY DEF Without, a, b
<1>11. /\ a \o b \in Seq(Ops) /\ Sorted(a \o b)
       /\ OpsOf(a \o b) = OpsOf(a) \cup OpsOf(b)
  BY <1>1, <1>2, <1>3, <1>9, JoinOps
<1>12. \A op \in OpsOf(a) \cup OpsOf(b) : op \in OpsOf(ops) /\ op.seq # ops[i].seq
  BY <1>4, <1>5, <1>6, <1>7
<1> QED
  BY <1>8, <1>10, <1>11, <1>12

(* Kept keeps the order. *)
LEMMA KeptOps ==
    ASSUME NEW ops \in Seq(Ops), NEW keep
    PROVE  /\ Kept(ops, keep) \in Seq(Ops)
           /\ OpsOf(Kept(ops, keep)) = OpsOf(ops) \cap keep
           /\ Sorted(ops) => Sorted(Kept(ops, keep))
<1>0. PICK f : KeptBy(ops, keep, f)
  BY KeptUnfolds
<1>1. /\ f \in [0..Len(ops) -> Seq(Ops)]
      /\ Kept(ops, keep) = f[Len(ops)]
      /\ f[0] = <<>>
      /\ \A n \in 1..Len(ops) :
           f[n] = IF ops[n] \in keep THEN Append(f[n - 1], ops[n]) ELSE f[n - 1]
  BY <1>0 DEF KeptBy
<1>2. Len(ops) \in Nat /\ \A n \in 1..Len(ops) : ops[n] \in Ops
  OBVIOUS
<1> DEFINE Front(n) == {ops[k] : k \in 1..n}
           Good(n) == /\ OpsOf(f[n]) = Front(n) \cap keep
                      /\ Sorted(ops) => Sorted(f[n])
           T == {n \in Nat : n <= Len(ops) => Good(n)}
<1>3. 0 \in T
  <2>1. Front(0) = {}
    OBVIOUS
  <2> QED
    BY <1>1, <2>1, NoOps
<1>4. ASSUME NEW n \in Nat, n \in T PROVE n + 1 \in T
  <2> SUFFICES ASSUME n + 1 <= Len(ops) PROVE Good(n + 1)
    OBVIOUS
  <2>1. /\ n + 1 \in 1..Len(ops) /\ n \in 0..Len(ops) /\ (n + 1) - 1 = n
        /\ f[n] \in Seq(Ops) /\ ops[n + 1] \in Ops
    <3>1. n + 1 \in 1..Len(ops) /\ n \in 0..Len(ops) /\ (n + 1) - 1 = n
      BY <1>2
    <3> QED
      BY <1>1, <1>2, <3>1
  <2>2. Good(n)
    BY <1>2, <1>4
  <2>3. f[n + 1] = IF ops[n + 1] \in keep THEN Append(f[n], ops[n + 1]) ELSE f[n]
    BY <1>1, <2>1
  <2>4. Front(n + 1) = Front(n) \cup {ops[n + 1]}
    <3>1. 1..(n + 1) = 1..n \cup {n + 1}
      OBVIOUS
    <3> QED
      BY <3>1
  <2>5. ASSUME Sorted(ops) PROVE \A o \in Front(n) : o.seq < ops[n + 1].seq
    <3> SUFFICES ASSUME NEW k \in 1..n PROVE ops[k].seq < ops[n + 1].seq
      OBVIOUS
    <3>1. k \in 1..Len(ops) /\ k < n + 1
      BY <2>1, <1>2
    <3> QED
      BY <2>1, <2>5, <3>1 DEF Sorted
  <2> HIDE DEF Front
  <2>6. CASE ops[n + 1] \in keep
    <3>1. OpsOf(f[n + 1]) = OpsOf(f[n]) \cup {ops[n + 1]}
      BY <2>1, <2>3, <2>6, AppendOps
    <3>2. Sorted(ops) => Sorted(f[n + 1])
      <4> SUFFICES ASSUME Sorted(ops) PROVE Sorted(f[n + 1])
        OBVIOUS
      <4>1. \A o \in OpsOf(f[n]) : o.seq < ops[n + 1].seq
        BY <2>2, <2>5
      <4> QED
        BY <2>1, <2>2, <2>3, <2>6, <4>1, AppendOps
    <3> QED
      BY <2>2, <2>4, <2>6, <3>1, <3>2
  <2>7. CASE ops[n + 1] \notin keep
    BY <2>2, <2>3, <2>4, <2>7
  <2> QED
    BY <2>6, <2>7
<1>5. Nat \subseteq T
  <2> HIDE DEF T
  <2> QED
    BY <1>3, <1>4, Induction
<1>6. Good(Len(ops))
  <2>1. Len(ops) \in T
    BY <1>2, <1>5
  <2> HIDE DEF Good
  <2> QED
    BY <1>2, <2>1
<1>7. Front(Len(ops)) = OpsOf(ops)
  BY DEF OpsOf
<1> QED
  BY <1>1, <1>2, <1>6, <1>7

-----------------------------------------------------------------------------
(* Lists of frames.                                                        *)

(* Frames of sends below n, and of the ids in Q alone. *)
Sound(n) == {f \in SendFrames : f.lo <= f.hi /\ f.hi < n}
Singles(Q) == {f \in SendFrames : f.lo = f.hi /\ f.lo \in Q}

LEMMA SeqMonotone ==
    ASSUME NEW A, NEW B, A \subseteq B, NEW list \in Seq(A)
    PROVE  list \in Seq(B)
OBVIOUS

LEMMA ReplayFramesType ==
    ASSUME NEW op \in Ops, NEW Q, op.seq \in Q
    PROVE  ReplayFrames(op) \in Seq(Singles(Q))
<1>1. op.seq \in Seqs /\ op.parts \in Nat /\ op.parts <= Parts /\ Parts \in Nat
  BY PartsAssumption DEF Ops
<1>2. \A k \in 1..op.parts : SendFrame(op.seq, op.seq, k) \in Singles(Q)
  BY <1>1 DEF SendFrame, Singles, SendFrames
<1> QED
  BY <1>1, <1>2 DEF ReplayFrames

(* The recursion of Concat, as a function. *)
ConcatBy(ops, f) ==
    /\ Concat(ops) = f[Len(ops)]
    /\ f[0] = <<>>
    /\ \A n \in 1..Len(ops) : f[n] = f[n - 1] \o ReplayFrames(ops[n])

LEMMA ConcatUnfolds ==
    ASSUME NEW ops \in Seq(Ops)
    PROVE  \E f : ConcatBy(ops, f)
<1> DEFINE L == Len(ops)
           X == Seq(Singles(SeqsOf(ops)))
           h == [n \in 1..L |-> [x \in X |-> x \o ReplayFrames(ops[n])]]
           Recurs(g) == g = [n \in 0..Len(ops) |->
                   IF n = 0 THEN <<>> ELSE g[n - 1] \o ReplayFrames(ops[n])]
<1>1. L \in Nat /\ <<>> \in X
  OBVIOUS
<1>2. ASSUME NEW n \in 1..L PROVE ReplayFrames(ops[n]) \in X
  <2>1. ops[n] \in Ops /\ ops[n].seq \in SeqsOf(ops)
    BY DEF SeqsOf
  <2> QED
    BY <2>1, ReplayFramesType
<1>3. h \in Steps(L, X)
  <2>1. \A n \in 1..L : \A x \in X : x \o ReplayFrames(ops[n]) \in X
    BY <1>2
  <2> HIDE DEF X, L
  <2> QED
    BY <2>1 DEF Steps
<1>4. PICK g \in [0..L -> X] :
         g[0] = <<>> /\ \A n \in 1..L : g[n] = h[n][g[n - 1]]
  <2> HIDE DEF h, L, X
  <2>2. Iterates(L, X, <<>>, h)
    BY <1>1, <1>3, Iteration, Zenon
  <2> QED
    BY <2>2 DEF Iterates
<1>5. ASSUME NEW n \in 1..L PROVE
         /\ n - 1 \in 0..L /\ n # 0
         /\ g[n] = g[n - 1] \o ReplayFrames(ops[n])
  <2>1. n - 1 \in 0..L /\ n # 0
    BY <1>1
  <2>2. g[n - 1] \in X
    BY <1>4, <2>1
  <2> HIDE DEF X
  <2> QED
    BY <1>4, <2>1, <2>2
<1>6. Recurs(g)
  <2> HIDE DEF h, X
  <2>1. \A n \in 0..L : n # 0 => n \in 1..L
    BY <1>1
  <2>2. \A n \in 0..L : g[n] =
           IF n = 0 THEN <<>> ELSE g[n - 1] \o ReplayFrames(ops[n])
    BY <1>4, <1>5, <2>1
  <2> QED
    BY <1>4, <2>2, Zenon
<1>7. \E f : Concat(ops) = f[Len(ops)] /\ Recurs(f)
  BY <1>6, Zenon DEF Concat
<1>8. PICK f : Concat(ops) = f[Len(ops)] /\ Recurs(f)
  BY <1>7
<1>9. f[0] = <<>>
  <2>1. 0 \in 0..Len(ops)
    BY <1>1
  <2> QED
    BY <1>8, <2>1, Zenon
<1>10. ASSUME NEW n \in 1..Len(ops) PROVE f[n] = f[n - 1] \o ReplayFrames(ops[n])
  <2>1. n \in 0..Len(ops) /\ n # 0
    BY <1>1
  <2> QED
    BY <1>8, <2>1, Zenon
<1> QED
  BY <1>8, <1>9, <1>10, Zenon DEF ConcatBy

LEMMA ConcatNone == Concat(<<>>) = <<>>
<1>1. <<>> \in Seq(Ops) /\ Len(<<>>) = 0
  OBVIOUS
<1>2. PICK f : ConcatBy(<<>>, f)
  BY <1>1, ConcatUnfolds
<1> QED
  BY <1>1, <1>2 DEF ConcatBy

(* The replay of some ops makes frames of their ids. *)
LEMMA ConcatType ==
    ASSUME NEW ops \in Seq(Ops)
    PROVE  Concat(ops) \in Seq(Singles(SeqsOf(ops)))
<1> DEFINE X == Seq(Singles(SeqsOf(ops)))
<1>1. Len(ops) \in Nat /\ <<>> \in X
  OBVIOUS
<1>2. ASSUME NEW n \in 1..Len(ops) PROVE ReplayFrames(ops[n]) \in X
  <2>1. ops[n] \in Ops /\ ops[n].seq \in SeqsOf(ops)
    BY DEF SeqsOf
  <2> QED
    BY <2>1, ReplayFramesType
<1>3. PICK f : ConcatBy(ops, f)
  BY ConcatUnfolds
<1>4. /\ Concat(ops) = f[Len(ops)] /\ f[0] = <<>>
      /\ \A n \in 1..Len(ops) : f[n] = f[n - 1] \o ReplayFrames(ops[n])
  BY <1>3 DEF ConcatBy
<1> DEFINE T == {n \in Nat : n \in 0..Len(ops) => f[n] \in X}
<1>5. 0 \in T
  <2>1. f[0] \in X
    BY <1>1, <1>4, Zenon
  <2> QED
    BY <2>1
<1>6. ASSUME NEW n \in Nat, n \in T PROVE n + 1 \in T
  <2> SUFFICES ASSUME n + 1 \in 0..Len(ops) PROVE f[n + 1] \in X
    OBVIOUS
  <2>1. n + 1 \in 1..Len(ops) /\ n \in 0..Len(ops) /\ (n + 1) - 1 = n
    OBVIOUS
  <2>2. f[n] \in X
    BY <1>6, <2>1
  <2>3. f[n + 1] = f[n] \o ReplayFrames(ops[n + 1])
    BY <1>4, <2>1
  <2>4. ReplayFrames(ops[n + 1]) \in X
    BY <1>2, <2>1
  <2> QED
    BY <2>2, <2>3, <2>4
<1>7. Nat \subseteq T
  <2> HIDE DEF T
  <2> QED
    BY <1>5, <1>6, Induction
<1>8. Len(ops) \in T
  BY <1>1, <1>7
<1>9. f[Len(ops)] \in X
  <2> HIDE DEF X
  <2> QED
    BY <1>1, <1>8
<1> QED
  BY <1>4, <1>9

-----------------------------------------------------------------------------
(* The methods of ProducerState.                                           *)

(* What holds of a send queue, whatever the connection does: ops in order, *)
(* indexed exactly while they are pending, and frames of sends that exist. *)
Queues ==
    {s \in ProducerState :
       /\ Sorted(s.pending)
       /\ \A op \in OpsOf(s.pending) : op.seq < s.next
       /\ \A q \in Seqs : s.pending_index[q] = 0 <=> q \notin SeqsOf(s.pending)
       /\ \A i, j \in 1..Len(s.batch) : i <= j => s.batch[i] <= s.batch[j]
       /\ \A i \in 1..Len(s.batch) : s.batch[i] < s.next
       /\ s.outbound \in Seq(Sound(s.next))}

SameControl(s, t) ==
    /\ t.closed = s.closed /\ t.close_request = s.close_request
    /\ t.broker_ready = s.broker_ready /\ t.has_ever_attached = s.has_ever_attached
    /\ t.open_request_id = s.open_request_id /\ t.attempts = s.attempts

SameQueue(s, t) ==
    /\ t.next = s.next /\ t.pending = s.pending /\ t.pending_index = s.pending_index
    /\ t.batch = s.batch /\ t.outbound = s.outbound

LEMMA QueueFields ==
    ASSUME NEW s \in Queues
    PROVE  /\ s \in ProducerState
           /\ s.next \in Nat \ {0} /\ s.pending \in Seq(Ops)
           /\ s.pending_index \in [Seqs -> Nat]
           /\ s.batch \in Seq(Seqs) /\ s.outbound \in Seq(SendFrames)
           /\ s.closed \in BOOLEAN /\ s.broker_ready \in BOOLEAN
           /\ s.has_ever_attached \in BOOLEAN
           /\ s.close_request \in Requests \cup {NoReq}
           /\ s.open_request_id \in Requests \cup {NoReq} /\ s.attempts \in Nat
           /\ Sorted(s.pending)
           /\ \A op \in OpsOf(s.pending) : op.seq < s.next
           /\ \A q \in Seqs : s.pending_index[q] = 0 <=> q \notin SeqsOf(s.pending)
           /\ \A i, j \in 1..Len(s.batch) : i <= j => s.batch[i] <= s.batch[j]
           /\ \A i \in 1..Len(s.batch) : s.batch[i] < s.next
           /\ s.outbound \in Seq(Sound(s.next))
BY DEF Queues, ProducerState

LEMMA ControlAssigned ==
    ASSUME NEW s \in Queues, NEW t \in ProducerState, SameQueue(s, t)
    PROVE  t \in Queues
BY DEF Queues, SameQueue

LEMMA FlushBatchIs ==
    ASSUME NEW s \in Queues
    PROVE  /\ FlushBatch(s) \in Queues /\ SameControl(s, FlushBatch(s))
           /\ FlushBatch(s).next = s.next /\ FlushBatch(s).pending = s.pending
           /\ FlushBatch(s).pending_index = s.pending_index
<1> USE QueueFields
<1>1. CASE s.batch = <<>> \/ s.closed
  BY <1>1 DEF FlushBatch, SameControl
<1>2. CASE ~(s.batch = <<>> \/ s.closed)
  <2> DEFINE f == SendFrame(s.batch[1], s.batch[Len(s.batch)], 1)
             t == [s EXCEPT !.outbound = Append(@, f), !.batch = <<>>]
  <2>1. Len(s.batch) \in Nat /\ Len(s.batch) >= 1
    BY <1>2
  <2>2. /\ s.batch[1] \in Seqs /\ s.batch[Len(s.batch)] \in Seqs
        /\ s.batch[1] <= s.batch[Len(s.batch)] /\ s.batch[Len(s.batch)] < s.next
    BY <2>1
  <2>3. f \in Sound(s.next)
    BY <2>2, PartsAssumption DEF SendFrame, Sound, SendFrames
  <2>3a. f \in SendFrames
    BY <2>3 DEF Sound
  <2> HIDE DEF f
  <2>4. Append(s.outbound, f) \in Seq(Sound(s.next)) /\ Append(s.outbound, f) \in Seq(SendFrames)
    BY <2>3, <2>3a
  <2>5. t \in ProducerState
    <3>1. s \in ProducerState /\ <<>> \in Seq(Seqs)
      OBVIOUS
    <3> QED
      BY ONLY <2>4, <3>1 DEF ProducerState, t
  <2>6. /\ SameControl(s, t) /\ t.next = s.next /\ t.pending = s.pending
        /\ t.pending_index = s.pending_index /\ t.batch = <<>>
        /\ t.outbound = Append(s.outbound, f)
    BY DEF SameControl, ProducerState
  <2> HIDE DEF t
  <2>7. t \in Queues
    <3>1. Len(t.batch) = 0
      BY <2>6
    <3>2. /\ Sorted(s.pending)
          /\ \A op \in OpsOf(s.pending) : op.seq < s.next
          /\ \A q \in Seqs : s.pending_index[q] = 0 <=> q \notin SeqsOf(s.pending)
      OBVIOUS
    <3>3. \A i \in 1..0 : FALSE
      OBVIOUS
    <3> QED
      BY ONLY <2>4, <2>5, <2>6, <3>1, <3>2, <3>3 DEF Queues
  <2>8. FlushBatch(s) = t
    BY <1>2 DEF FlushBatch, t, f
  <2> QED
    BY <2>6, <2>7, <2>8
<1> QED
  BY <1>1, <1>2

(* A way that accepts the send adds one op, of the next id. *)
Pushed(s, t) ==
    /\ t \in Queues /\ SameControl(s, t)
    /\ t.next = s.next + 1
    /\ \E op \in Ops : /\ op.seq = s.next /\ op.waker = NoWaker
                       /\ t.pending = Append(s.pending, op)

LEMMA PushOpIs ==
    ASSUME NEW s \in Queues, s.next \in Seqs, NEW parts \in {0, 1, Parts}
    PROVE  Pushed(s, PushOp(s, parts)) /\ PushOp(s, parts).batch = s.batch
             /\ PushOp(s, parts).outbound = s.outbound
<1> USE QueueFields
<1> DEFINE op == [seq |-> s.next, parts |-> parts, waker |-> NoWaker]
           t == PushOp(s, parts)
           index == [s.pending_index EXCEPT ![s.next] = Len(s.pending) + 1]
<1>1. op \in Ops /\ op.seq = s.next /\ op.waker = NoWaker
  BY DEF Ops, NoWaker
<1>2. t = [s EXCEPT !.next = s.next + 1, !.pending_index = index,
                    !.pending = Append(s.pending, op)]
  BY DEF PushOp, ProducerState
<1> HIDE DEF op
<1>3. Len(s.pending) \in Nat /\ index \in [Seqs -> Nat] /\ index[s.next] # 0
      /\ \A q \in Seqs : q # s.next => index[q] = s.pending_index[q]
  OBVIOUS
<1> HIDE DEF index
<1>4. /\ Append(s.pending, op) \in Seq(Ops) /\ Sorted(Append(s.pending, op))
      /\ OpsOf(Append(s.pending, op)) = OpsOf(s.pending) \cup {op}
  BY <1>1, AppendOps
<1>5. t \in ProducerState
  <2>1. s \in ProducerState /\ s.next + 1 \in Nat \ {0}
    OBVIOUS
  <2> HIDE DEF t
  <2> QED
    BY ONLY <1>2, <1>3, <1>4, <2>1 DEF ProducerState
<1>6. /\ SameControl(s, t) /\ t.next = s.next + 1 /\ t.pending = Append(s.pending, op)
      /\ t.pending_index = index /\ t.batch = s.batch /\ t.outbound = s.outbound
  BY <1>2 DEF SameControl, ProducerState
<1> HIDE DEF t
<1>7. \A o \in OpsOf(t.pending) : o.seq < t.next
  <2>1. \A o \in OpsOf(s.pending) : o.seq \in Nat
    <3>1. OpsOf(s.pending) \subseteq Ops
      BY OpsAreOps
    <3> QED
      BY <3>1, SendsAssumption DEF Ops, Seqs
  <2> QED
    BY <1>1, <1>4, <1>6, <2>1
<1>8. ASSUME NEW q \in Seqs PROVE t.pending_index[q] = 0 <=> q \notin SeqsOf(t.pending)
  <2>1. SeqsOf(t.pending) = SeqsOf(s.pending) \cup {s.next}
    <3>1. SeqsOf(t.pending) = Keys(OpsOf(t.pending)) /\ SeqsOf(s.pending) = Keys(OpsOf(s.pending))
      BY <1>4, <1>6, OpsAreOps
    <3> QED
      BY <1>1, <1>4, <1>6, <3>1 DEF Keys
  <2> QED
    BY <1>3, <1>6, <2>1
<1>9. t.outbound \in Seq(Sound(t.next))
  <2>1. Sound(s.next) \subseteq Sound(t.next)
    <3>1. \A f \in SendFrames : f.hi \in Nat
      BY SendsAssumption DEF SendFrames, Seqs
    <3>2. s.next \in Nat /\ t.next = s.next + 1
      BY <1>6
    <3> QED
      BY ONLY <3>1, <3>2 DEF Sound
  <2> QED
    BY <1>6, <2>1, SeqMonotone
<1>10. \A i \in 1..Len(s.batch) : s.batch[i] < t.next
  <2>1. \A i \in 1..Len(s.batch) : s.batch[i] \in Nat
    BY SendsAssumption DEF Seqs
  <2> QED
    BY <1>6, <2>1
<1>11. t \in Queues
  BY <1>4, <1>5, <1>6, <1>7, <1>8, <1>9, <1>10 DEF Queues
<1> QED
  BY <1>1, <1>6, <1>11 DEF Pushed, t

SamePending(s, t) ==
    t.next = s.next /\ t.pending = s.pending /\ t.pending_index = s.pending_index

LEMMA StagedIs ==
    ASSUME NEW s \in Queues, NEW frames \in Seq(Sound(s.next))
    PROVE  LET t == [s EXCEPT !.outbound = frames]
           IN  /\ t \in Queues /\ SameControl(s, t) /\ SamePending(s, t)
               /\ t.outbound = frames
<1> DEFINE t == [s EXCEPT !.outbound = frames]
<1>1. s \in ProducerState
  BY QueueFields
<1>2. frames \in Seq(SendFrames)
  <2>1. Sound(s.next) \subseteq SendFrames
    BY DEF Sound
  <2> QED
    BY <2>1, SeqMonotone
<1>3. t \in ProducerState
  BY ONLY <1>1, <1>2 DEF ProducerState, t
<1>4. /\ SameControl(s, t) /\ SamePending(s, t)
      /\ t.outbound = frames /\ t.batch = s.batch
  BY ONLY <1>1 DEF ProducerState, SameControl, SamePending, t
<1> HIDE DEF t
<1>5. t \in Queues
  BY <1>3, <1>4 DEF Queues, SamePending
<1> QED
  BY <1>4, <1>5 DEF t

LEMMA EmitIs ==
    ASSUME NEW s \in Queues, s.next \in Seqs, NEW parts \in {0, 1, Parts}
    PROVE  Pushed(s, Emit(s, parts))
<1> DEFINE op == [seq |-> s.next, parts |-> parts, waker |-> NoWaker]
           u == PushOp(s, parts)
           frames == u.outbound \o ReplayFrames(op)
<1>1. op \in Ops /\ op.seq \in {s.next}
  BY DEF Ops, NoWaker
<1> HIDE DEF op
<1>2. Pushed(s, u)
  BY PushOpIs
<1> HIDE DEF u
<1>3. u \in Queues /\ u.next = s.next + 1 /\ s.next \in Nat
  BY <1>2, QueueFields DEF Pushed
<1>4. ReplayFrames(op) \in Seq(Singles({s.next}))
  BY <1>1, ReplayFramesType
<1>5. Singles({s.next}) \subseteq Sound(u.next)
  BY <1>3 DEF Singles, Sound
<1>6. ReplayFrames(op) \in Seq(Sound(u.next)) /\ u.outbound \in Seq(Sound(u.next))
  BY <1>3, <1>4, <1>5, SeqMonotone, QueueFields
<1>7. frames \in Seq(Sound(u.next))
  BY <1>6
<1> HIDE DEF frames
<1> DEFINE t == [u EXCEPT !.outbound = frames]
<1>8. t \in Queues /\ SameControl(u, t) /\ SamePending(u, t)
  BY <1>3, <1>7, StagedIs
<1>9. Emit(s, parts) = t
  BY <1>3, QueueFields DEF Emit, t, frames, op, u, ProducerState
<1> HIDE DEF t
<1> QED
  BY <1>2, <1>8, <1>9 DEF Pushed, SameControl, SamePending

LEMMA AddToBatchIs ==
    ASSUME NEW s \in Queues, s.next \in Seqs
    PROVE  Pushed(s, AddToBatch(s))
<1> DEFINE u == PushOp(s, 0)
           b == Append(s.batch, s.next)
           t == [u EXCEPT !.batch = b]
<1>1. Pushed(s, u) /\ u.batch = s.batch
  BY PushOpIs
<1> HIDE DEF u
<1>2. u \in Queues /\ u \in ProducerState /\ u.next = s.next + 1 /\ s.next \in Nat
  BY <1>1, QueueFields DEF Pushed
<1>3. /\ s.batch \in Seq(Seqs) /\ \A i \in 1..Len(s.batch) : s.batch[i] < s.next
      /\ \A i, j \in 1..Len(s.batch) : i <= j => s.batch[i] <= s.batch[j]
  BY QueueFields
<1>4. /\ b \in Seq(Seqs) /\ Len(b) = Len(s.batch) + 1 /\ Len(s.batch) \in Nat
      /\ \A i \in 1..Len(s.batch) : b[i] = s.batch[i]
      /\ b[Len(s.batch) + 1] = s.next
  BY <1>3
<1> HIDE DEF b
<1>5. \A i \in 1..Len(b) : b[i] \in Nat /\ b[i] < u.next
  <2>1. \A i \in 1..Len(b) : b[i] \in Nat
    BY <1>4, SendsAssumption DEF Seqs
  <2> SUFFICES ASSUME NEW i \in 1..Len(b) PROVE b[i] < u.next
    BY <2>1
  <2>2. CASE i = Len(s.batch) + 1
    BY <1>2, <1>4, <2>2
  <2>3. CASE i \in 1..Len(s.batch)
    <3>1. b[i] < s.next /\ b[i] \in Nat
      BY <1>3, <1>4, <2>1, <2>3
    <3> QED
      BY <1>2, <3>1
  <2> QED
    BY <1>4, <2>2, <2>3
<1>6. \A i, j \in 1..Len(b) : i <= j => b[i] <= b[j]
  <2> SUFFICES ASSUME NEW i \in 1..Len(b), NEW j \in 1..Len(b), i <= j PROVE b[i] <= b[j]
    OBVIOUS
  <2>1. CASE j \in 1..Len(s.batch)
    <3>1. i \in 1..Len(s.batch)
      BY <1>4, <2>1
    <3> QED
      BY <1>3, <1>4, <2>1, <3>1
  <2>2. CASE j = Len(s.batch) + 1
    BY <1>2, <1>4, <1>5, <2>2
  <2> QED
    BY <1>4, <2>1, <2>2
<1>7. t \in ProducerState
  BY ONLY <1>2, <1>4 DEF ProducerState, t
<1>8. SameControl(u, t) /\ SamePending(u, t) /\ t.batch = b /\ t.outbound = u.outbound
  BY ONLY <1>2 DEF ProducerState, SameControl, SamePending, t
<1>9. AddToBatch(s) = t
  BY <1>1, <1>2 DEF AddToBatch, ProducerState, t, b, u
<1> HIDE DEF t
<1>10. t \in Queues
  BY <1>2, <1>5, <1>6, <1>7, <1>8 DEF Queues, SamePending
<1> QED
  BY <1>1, <1>8, <1>9, <1>10 DEF Pushed, SameControl, SamePending

LEMMA QueueSendIs ==
    ASSUME NEW s \in Queues, s.next \in Seqs, NEW way \in Ways
    PROVE  LET t == QueueSend(s, way)
           IN  IF way = "oversized"
                 THEN t \in Queues /\ SameControl(s, t) /\ SamePending(s, t)
                 ELSE Pushed(s, t)
<1> DEFINE flushed == FlushBatch(s)
<1>1. /\ flushed \in Queues /\ SameControl(s, flushed) /\ SamePending(s, flushed)
      /\ flushed.next \in Seqs
  BY FlushBatchIs DEF SamePending
<1> HIDE DEF flushed
<1>2. ASSUME NEW u \in Queues, Pushed(s, u) PROVE Pushed(s, FlushBatchIfFull(u))
  BY <1>2, FlushBatchIs DEF FlushBatchIfFull, Pushed, SameControl
<1>3. ASSUME NEW u, Pushed(flushed, u) PROVE Pushed(s, u)
  BY <1>1, <1>3 DEF Pushed, SameControl, SamePending
<1>4. CASE way = "batch"
  <2>1. Pushed(s, AddToBatch(s)) /\ AddToBatch(s) \in Queues
    BY AddToBatchIs DEF Pushed
  <2> QED
    BY <1>2, <1>4, <2>1 DEF QueueSend
<1>5. CASE way = "misfit"
  <2>1. Pushed(s, AddToBatch(flushed)) /\ AddToBatch(flushed) \in Queues
    BY <1>1, <1>3, AddToBatchIs DEF Pushed
  <2> QED
    BY <1>2, <1>5, <2>1 DEF QueueSend, flushed
<1>6. CASE way = "single"
  <2>1. Pushed(s, Emit(flushed, 1))
    BY <1>1, <1>3, EmitIs
  <2> QED
    BY <1>6, <2>1 DEF QueueSend, flushed
<1>7. CASE way = "chunked"
  <2>1. Pushed(s, Emit(flushed, Parts))
    BY <1>1, <1>3, EmitIs
  <2> QED
    BY <1>7, <2>1 DEF QueueSend, flushed
<1>8. CASE way = "oversized"
  BY <1>1, <1>8 DEF QueueSend, flushed
<1> QED
  BY <1>4, <1>5, <1>6, <1>7, <1>8, WaysAssumption

(* The ops of Q leave pending, and nothing else changes. *)
Resolves(s, t, Q) ==
    /\ t \in Queues /\ SameControl(s, t)
    /\ t.next = s.next /\ t.batch = s.batch /\ t.outbound = s.outbound
    /\ OpsOf(t.pending) = {op \in OpsOf(s.pending) : op.seq \notin Q}

LEMMA ApplyOneIs ==
    ASSUME NEW s \in Queues, NEW seq \in Seqs
    PROVE  Resolves(s, ApplyOne(s, seq), {seq})
<1>1. /\ s \in ProducerState /\ s.pending \in Seq(Ops) /\ Sorted(s.pending)
      /\ s.pending_index \in [Seqs -> Nat]
      /\ \A op \in OpsOf(s.pending) : op.seq < s.next
      /\ \A q \in Seqs : s.pending_index[q] = 0 <=> q \notin SeqsOf(s.pending)
  BY QueueFields
<1>2. SeqsOf(s.pending) = Keys(OpsOf(s.pending))
  BY <1>1, OpsAreOps
<1>3. CASE s.pending_index[seq] = 0
  <2>1. \A op \in OpsOf(s.pending) : op.seq # seq
    BY <1>1, <1>2, <1>3 DEF Keys
  <2>2. ApplyOne(s, seq) = s
    BY <1>3 DEF ApplyOne
  <2> QED
    BY <2>1, <2>2 DEF Resolves, SameControl
<1>4. CASE s.pending_index[seq] # 0
  <2> DEFINE i == Position(s, seq)
             ops == Without(s.pending, i)
             index == [q \in Seqs |-> IF q = seq THEN 0
                         ELSE IF s.pending_index[q] > i THEN s.pending_index[q] - 1
                         ELSE s.pending_index[q]]
             t == [s EXCEPT !.pending = ops, !.pending_index = index]
  <2>1. i \in 1..Len(s.pending) /\ s.pending[i].seq = seq
    <3>1. \E k \in 1..Len(s.pending) : s.pending[k].seq = seq
      BY <1>1, <1>4 DEF SeqsOf
    <3> QED
      BY <3>1 DEF Position
  <2>2. ApplyOne(s, seq) = t
    BY <1>1, <1>4 DEF ApplyOne, ProducerState
  <2> HIDE DEF i
  <2>3. /\ ops \in Seq(Ops) /\ Sorted(ops)
        /\ OpsOf(ops) = {op \in OpsOf(s.pending) : op.seq # seq}
    BY <1>1, <2>1, WithoutOps
  <2> HIDE DEF ops
  <2>4. /\ index \in [Seqs -> Nat] /\ index[seq] = 0
        /\ \A q \in Seqs : q # seq => (index[q] = 0 <=> s.pending_index[q] = 0)
    <3>1. i \in Nat \ {0}
      BY <1>1, <2>1
    <3> QED
      BY <1>1, <3>1
  <2> HIDE DEF index
  <2>5. t \in ProducerState
    BY ONLY <1>1, <2>3, <2>4 DEF ProducerState, t
  <2>6. /\ SameControl(s, t) /\ t.next = s.next /\ t.batch = s.batch
        /\ t.outbound = s.outbound /\ t.pending = ops /\ t.pending_index = index
    BY ONLY <1>1 DEF ProducerState, SameControl, t
  <2> HIDE DEF t
  <2>7. ASSUME NEW q \in Seqs PROVE t.pending_index[q] = 0 <=> q \notin SeqsOf(t.pending)
    <3>1. SeqsOf(ops) = Keys(OpsOf(ops))
      BY <2>3, OpsAreOps
    <3>2. q \in SeqsOf(ops) <=> q \in SeqsOf(s.pending) /\ q # seq
      BY <1>2, <2>3, <3>1 DEF Keys
    <3> QED
      BY <1>1, <2>4, <2>6, <3>2
  <2>8. t \in Queues
    BY <1>1, <2>3, <2>5, <2>6, <2>7 DEF Queues
  <2> QED
    BY <2>2, <2>3, <2>6, <2>8 DEF Resolves
<1> QED
  BY <1>3, <1>4

LEMMA ResolvesCompose ==
    ASSUME NEW s, NEW t, NEW u, NEW Q, NEW R, Resolves(s, t, Q), Resolves(t, u, R)
    PROVE  Resolves(s, u, Q \cup R)
BY DEF Resolves, SameControl

(* The receipt of a range resolves the ops of the range. *)
LEMMA ApplyRangeIs ==
    ASSUME NEW s \in Queues, NEW lo \in Seqs, NEW hi \in Seqs, lo <= hi
    PROVE  Resolves(s, ApplyRange(s, lo, hi), lo..hi)
<1> DEFINE L == hi - (lo - 1)
           h == [n \in 1..L |-> [x \in Queues |-> ApplyOne(x, (lo - 1) + n)]]
           D == (lo - 1)..hi
           Recurs(g) == g = [q \in (lo - 1)..hi |->
                              IF q = lo - 1 THEN s ELSE ApplyOne(g[q - 1], q)]
<1>1. /\ L \in Nat /\ lo \in Nat /\ hi \in Nat /\ lo >= 1 /\ lo - 1 \in D
      /\ \A n \in 1..L : (lo - 1) + n \in Seqs
      /\ \A q \in D : q # lo - 1 => q - 1 \in D /\ q \in Seqs
      /\ \A q \in D : q - (lo - 1) \in 0..L
      /\ \A q \in D : q # lo - 1 => q - (lo - 1) \in 1..L
  BY SendsAssumption DEF Seqs
<1>2. \A x \in Queues : \A q \in Seqs : ApplyOne(x, q) \in Queues
  BY ApplyOneIs DEF Resolves
<1>3. h \in Steps(L, Queues)
  <2> HIDE DEF L
  <2> QED
    BY <1>1, <1>2 DEF Steps
<1>4. PICK g \in [0..L -> Queues] :
         g[0] = s /\ \A n \in 1..L : g[n] = h[n][g[n - 1]]
  <2> HIDE DEF h, L
  <2>1. Iterates(L, Queues, s, h)
    BY <1>1, <1>3, Iteration, Zenon
  <2> QED
    BY <2>1 DEF Iterates
<1>5. ASSUME NEW n \in 1..L PROVE g[n] = ApplyOne(g[n - 1], (lo - 1) + n)
  <2>1. n - 1 \in 0..L
    BY <1>1
  <2>2. g[n - 1] \in Queues
    BY <1>4, <2>1
  <2> QED
    BY <1>4, <2>2
<1> DEFINE gg == [q \in (lo - 1)..hi |-> g[q - (lo - 1)]]
<1>6. Recurs(gg)
  <2>1. ASSUME NEW q \in D
        PROVE  gg[q] = IF q = lo - 1 THEN s ELSE ApplyOne(gg[q - 1], q)
    <3>1. CASE q = lo - 1
      <4>1. q - (lo - 1) = 0
        BY <1>1, <3>1
      <4> QED
        BY <1>4, <3>1, <4>1
    <3>2. CASE q # lo - 1
      <4> DEFINE n == q - (lo - 1)
      <4>1. /\ n \in 1..L /\ (lo - 1) + n = q
            /\ q - 1 \in D /\ (q - 1) - (lo - 1) = n - 1
        BY <1>1, <3>2
      <4>2. gg[q] = g[n] /\ gg[q - 1] = g[n - 1]
        BY <4>1
      <4> HIDE DEF gg, n
      <4>3. gg[q] = ApplyOne(gg[q - 1], q)
        BY <1>5, <4>1, <4>2
      <4> QED
        BY <3>2, <4>3
    <3> QED
      BY <3>1, <3>2
  <2>2. gg = [q \in (lo - 1)..hi |-> gg[q]]
    OBVIOUS
  <2> HIDE DEF gg
  <2> QED
    BY <2>1, <2>2, Zenon
<1>7. \E f : ApplyRange(s, lo, hi) = f[hi] /\ Recurs(f)
  <2> HIDE DEF gg
  <2> QED
    BY <1>6, Zenon DEF ApplyRange
<1>8. PICK f : ApplyRange(s, lo, hi) = f[hi] /\ Recurs(f)
  BY <1>7
<1>9. f[lo - 1] = s
  BY <1>1, <1>8, Zenon
<1>10. \A q \in D : q # lo - 1 => f[q] = ApplyOne(f[q - 1], q)
  BY <1>1, <1>8, Zenon
<1> HIDE DEF Recurs
<1> DEFINE T == {n \in Nat : n <= L => Resolves(s, f[(lo - 1) + n], lo..((lo - 1) + n))}
<1>11. 0 \in T
  <2>1. (lo - 1) + 0 = lo - 1 /\ lo..(lo - 1) = {}
    BY <1>1
  <2>2. Resolves(s, s, {})
    BY DEF Resolves, SameControl
  <2> QED
    BY <1>9, <2>1, <2>2
<1>12. ASSUME NEW n \in Nat, n \in T PROVE n + 1 \in T
  <2> SUFFICES ASSUME n + 1 <= L
               PROVE  Resolves(s, f[(lo - 1) + (n + 1)], lo..((lo - 1) + (n + 1)))
    OBVIOUS
  <2> DEFINE q == (lo - 1) + (n + 1)
             R == lo..((lo - 1) + n)
  <2>1. /\ q \in D /\ q # lo - 1 /\ q - 1 = (lo - 1) + n /\ q \in Seqs
        /\ lo..q = R \cup {q}
    BY <1>1
  <2>2. Resolves(s, f[(lo - 1) + n], R)
    BY <1>1, <1>12
  <2>3. f[q] = ApplyOne(f[q - 1], q)
    BY <1>10, <2>1
  <2>4. f[q - 1] \in Queues /\ Resolves(s, f[q - 1], R)
    BY <2>1, <2>2 DEF Resolves
  <2> HIDE DEF q, R
  <2>5. Resolves(f[q - 1], f[q], {q})
    BY <2>1, <2>3, <2>4, ApplyOneIs
  <2>6. Resolves(s, f[q], R \cup {q})
    BY <2>4, <2>5, ResolvesCompose
  <2> QED
    BY <2>1, <2>6 DEF q
<1>13. Nat \subseteq T
  <2> HIDE DEF T
  <2> QED
    BY <1>11, <1>12, Induction
<1>14. L \in T
  <2> HIDE DEF T, L
  <2> QED
    BY <1>1, <1>13
<1>15. (lo - 1) + L = hi
  BY <1>1
<1>16. Resolves(s, f[(lo - 1) + L], lo..((lo - 1) + L))
  <2>1. L <= L /\ L \in Nat
    BY <1>1
  <2> HIDE DEF L
  <2> QED
    BY <1>14, <2>1
<1> QED
  BY <1>8, <1>15, <1>16

LEMMA DrainTimedOutIs ==
    ASSUME NEW s \in Queues, NEW cut \in Nat \ {0}
    PROVE  Resolves(s, DrainTimedOut(s, cut), 1..(cut - 1))
<1> DEFINE late == {op \in OpsOf(s.pending) : op.seq >= cut}
           ops == Kept(s.pending, late)
           index == [q \in Seqs |-> IF q < cut /\ q \in SeqsOf(s.pending) THEN 0
                                    ELSE s.pending_index[q]]
           t == [s EXCEPT !.pending = ops, !.pending_index = index]
<1>1. /\ s \in ProducerState /\ s.pending \in Seq(Ops) /\ Sorted(s.pending)
      /\ s.pending_index \in [Seqs -> Nat]
      /\ \A op \in OpsOf(s.pending) : op.seq < s.next
      /\ \A q \in Seqs : s.pending_index[q] = 0 <=> q \notin SeqsOf(s.pending)
  BY QueueFields
<1>2. /\ OpsOf(s.pending) \subseteq Ops /\ SeqsOf(s.pending) = Keys(OpsOf(s.pending))
      /\ SeqsOf(s.pending) \subseteq Seqs
      /\ \A q \in Seqs : q \in Nat /\ q >= 1
  BY <1>1, OpsAreOps, SendsAssumption DEF Seqs
<1>3. \A op \in OpsOf(s.pending) : op.seq \in Seqs
  BY <1>2 DEF Keys
<1>4. DrainTimedOut(s, cut) = t
  BY <1>1 DEF DrainTimedOut, InTime, ProducerState
<1>5. ops \in Seq(Ops) /\ Sorted(ops) /\ OpsOf(ops) = late
  <2> HIDE DEF late
  <2>1. ops \in Seq(Ops) /\ Sorted(ops) /\ OpsOf(ops) = OpsOf(s.pending) \cap late
    BY <1>1, KeptOps
  <2>2. late \subseteq OpsOf(s.pending)
    BY DEF late
  <2> QED
    BY <2>1, <2>2
<1> HIDE DEF ops
<1>6. /\ index \in [Seqs -> Nat]
      /\ \A q \in Seqs : index[q] = 0 <=> (q < cut \/ q \notin SeqsOf(s.pending))
  BY <1>1, <1>2
<1> HIDE DEF index
<1>7. t \in ProducerState
  BY ONLY <1>1, <1>5, <1>6 DEF ProducerState, t
<1>8. /\ SameControl(s, t) /\ t.next = s.next /\ t.batch = s.batch
      /\ t.outbound = s.outbound /\ t.pending = ops /\ t.pending_index = index
  BY ONLY <1>1 DEF ProducerState, SameControl, t
<1> HIDE DEF t
<1>9. ASSUME NEW q \in Seqs PROVE t.pending_index[q] = 0 <=> q \notin SeqsOf(t.pending)
  <2>1. SeqsOf(ops) = Keys(OpsOf(ops))
    BY <1>5, OpsAreOps
  <2>2. q \in SeqsOf(ops) <=> q \in SeqsOf(s.pending) /\ q >= cut
    BY <1>2, <1>5, <2>1 DEF Keys
  <2> QED
    BY <1>2, <1>6, <1>8, <2>2
<1>10. t \in Queues
  BY <1>1, <1>5, <1>7, <1>8, <1>9 DEF Queues
<1>11. late = {op \in OpsOf(s.pending) : op.seq \notin 1..(cut - 1)}
  BY <1>2, <1>3
<1> QED
  BY <1>4, <1>5, <1>8, <1>10, <1>11 DEF Resolves

(* The snapshot sweep and the snapshots of a reset. *)
LEMMA InTimeIs ==
    ASSUME NEW ops \in Seq(Ops), NEW cut, Sorted(ops)
    PROVE  /\ InTime(ops, cut) \in Seq(Ops) /\ Sorted(InTime(ops, cut))
           /\ OpsOf(InTime(ops, cut)) = {op \in OpsOf(ops) : op.seq >= cut}
<1> DEFINE late == {op \in OpsOf(ops) : op.seq >= cut}
<1>1. late \subseteq OpsOf(ops)
  OBVIOUS
<1>2. InTime(ops, cut) = Kept(ops, late)
  BY DEF InTime
<1> HIDE DEF late
<1>3. InTime(ops, cut) \in Seq(Ops) /\ Sorted(InTime(ops, cut)) /\ OpsOf(InTime(ops, cut)) = late
  BY <1>1, <1>2, KeptOps
<1> QED
  BY <1>3 DEF late

LEMMA SnapshotsAre ==
    ASSUME NEW s \in Queues
    PROVE  /\ Snapshots(s) \in Seq(Ops) /\ Sorted(Snapshots(s))
           /\ SeqsOf(Snapshots(s)) = Keys({op \in OpsOf(s.pending) : Replayable(op)})
<1> DEFINE whole == {op \in OpsOf(s.pending) : Replayable(op)}
           kept == Kept(s.pending, whole)
           bare(i) == [kept[i] EXCEPT !.waker = NoWaker]
           snaps == [i \in 1..Len(kept) |-> bare(i)]
<1>1. s.pending \in Seq(Ops) /\ Sorted(s.pending)
  BY QueueFields
<1>2. Snapshots(s) = snaps
  BY DEF Snapshots
<1>3. kept \in Seq(Ops) /\ Sorted(kept) /\ OpsOf(kept) = whole
  <2>1. whole \subseteq OpsOf(s.pending)
    OBVIOUS
  <2> HIDE DEF whole
  <2> QED
    BY <1>1, <2>1, KeptOps
<1> HIDE DEF kept
<1>4. Len(kept) \in Nat /\ \A i \in 1..Len(kept) : kept[i] \in Ops
  BY <1>3
<1>5. \A i \in 1..Len(kept) : bare(i) \in Ops /\ bare(i).seq = kept[i].seq
  BY <1>4 DEF Ops
<1> HIDE DEF bare
<1>6. /\ snaps \in Seq(Ops) /\ Len(snaps) = Len(kept)
      /\ \A i \in 1..Len(kept) : snaps[i].seq = kept[i].seq
  BY <1>4, <1>5
<1> HIDE DEF snaps
<1>7. Sorted(snaps)
  BY <1>3, <1>6 DEF Sorted
<1>8. SeqsOf(snaps) = SeqsOf(kept)
  BY <1>6 DEF SeqsOf
<1>9. SeqsOf(kept) = Keys(whole)
  BY <1>3, OpsAreOps
<1> QED
  BY <1>2, <1>6, <1>7, <1>8, <1>9

LEMMA DrainedIs ==
    ASSUME NEW s \in Queues
    PROVE  LET t == Drained(s)
           IN  /\ t \in Queues /\ SameControl(s, t) /\ t.next = s.next
               /\ t.pending = <<>> /\ t.outbound = <<>>
<1> DEFINE index == [q \in Seqs |-> IF q \in SeqsOf(s.pending) THEN 0
                                    ELSE s.pending_index[q]]
           t == [s EXCEPT !.pending = <<>>, !.pending_index = index,
                          !.batch = <<>>, !.outbound = <<>>]
<1>1. /\ s \in ProducerState /\ s.pending_index \in [Seqs -> Nat]
      /\ \A q \in Seqs : s.pending_index[q] = 0 <=> q \notin SeqsOf(s.pending)
  BY QueueFields
<1>2. Drained(s) = t
  BY <1>1 DEF Drained, ProducerState
<1>3. index \in [Seqs -> Nat] /\ \A q \in Seqs : index[q] = 0
  BY <1>1
<1> HIDE DEF index
<1>4. t \in ProducerState
  <2>1. <<>> \in Seq(Ops) /\ <<>> \in Seq(Seqs) /\ <<>> \in Seq(SendFrames)
    OBVIOUS
  <2> QED
    BY ONLY <1>1, <1>3, <2>1 DEF ProducerState, t
<1>5. /\ SameControl(s, t) /\ t.next = s.next /\ t.batch = <<>>
      /\ t.outbound = <<>> /\ t.pending = <<>> /\ t.pending_index = index
  BY ONLY <1>1 DEF ProducerState, SameControl, t
<1> HIDE DEF t
<1>6. t \in Queues
  <2>1. Len(t.batch) = 0 /\ t.outbound \in Seq(Sound(t.next)) /\ \A i \in 1..0 : FALSE
    BY <1>5
  <2>2. Sorted(t.pending) /\ OpsOf(t.pending) = {} /\ SeqsOf(t.pending) = {}
    BY <1>5, NoOps
  <2> QED
    BY ONLY <1>3, <1>4, <1>5, <2>1, <2>2 DEF Queues
<1> QED
  BY <1>2, <1>5, <1>6

LEMMA ReplayPendingOutboundIs ==
    ASSUME NEW s \in Queues
    PROVE  LET t == ReplayPendingOutbound(s)
           IN  t \in Queues /\ SameControl(s, t) /\ SamePending(s, t)
<1> DEFINE staged == {s.outbound[i].lo : i \in 1..Len(s.outbound)}
           missing == {op \in OpsOf(s.pending) : op.seq \notin staged}
           unsent == Kept(s.pending, missing)
           frames == Concat(unsent) \o s.outbound
<1>1. /\ s \in ProducerState /\ s.pending \in Seq(Ops)
      /\ s.outbound \in Seq(Sound(s.next)) /\ s.next \in Nat
      /\ \A op \in OpsOf(s.pending) : op.seq < s.next
  BY QueueFields
<1>2. ReplayPendingOutbound(s) = [s EXCEPT !.outbound = frames]
  BY <1>1 DEF ReplayPendingOutbound, ProducerState
<1> HIDE DEF missing
<1>3. unsent \in Seq(Ops) /\ OpsOf(unsent) \subseteq OpsOf(s.pending)
  BY <1>1, KeptOps
<1> HIDE DEF unsent
<1>4. Singles(SeqsOf(unsent)) \subseteq Sound(s.next)
  <2>1. \A q \in SeqsOf(unsent) : q < s.next
    BY <1>1, <1>3, OpsAreOps DEF Keys
  <2>2. \A q \in Seqs : q \in Nat
    BY SendsAssumption DEF Seqs
  <2> QED
    BY <1>1, <2>1, <2>2 DEF Singles, Sound, SendFrames
<1>5. Concat(unsent) \in Seq(Sound(s.next))
  BY <1>3, <1>4, ConcatType, SeqMonotone
<1>6. frames \in Seq(Sound(s.next))
  BY <1>1, <1>5
<1> HIDE DEF frames
<1> QED
  BY <1>2, <1>6, StagedIs

LEMMA ReplaySnapshotsIs ==
    ASSUME NEW s \in Queues, NEW ops \in Seq(Ops), Sorted(ops),
           \A op \in OpsOf(ops) : op.seq < s.next,
           \A x \in OpsOf(ops), y \in OpsOf(s.pending) : x.seq < y.seq
    PROVE  LET t == ReplaySnapshots(s, ops)
           IN  /\ t \in Queues /\ SameControl(s, t) /\ t.next = s.next
               /\ t.pending = ops \o s.pending
<1> DEFINE all == ops \o s.pending
           frames == Concat(ops) \o s.outbound
           index == [q \in Seqs |-> IF q \in SeqsOf(all)
                       THEN CHOOSE i \in 1..Len(all) : all[i].seq = q ELSE 0]
           t == [s EXCEPT !.outbound = frames, !.pending = all, !.pending_index = index]
<1>1. /\ s \in ProducerState /\ s.pending \in Seq(Ops) /\ Sorted(s.pending)
      /\ s.outbound \in Seq(Sound(s.next)) /\ s.next \in Nat
      /\ \A op \in OpsOf(s.pending) : op.seq < s.next
  BY QueueFields
<1>2. ReplaySnapshots(s, ops) = t
  BY <1>1 DEF ReplaySnapshots, ProducerState
<1>3. all \in Seq(Ops) /\ Sorted(all) /\ OpsOf(all) = OpsOf(ops) \cup OpsOf(s.pending)
  BY <1>1, JoinOps
<1> HIDE DEF all
<1>4. /\ index \in [Seqs -> Nat]
      /\ \A q \in Seqs : index[q] = 0 <=> q \notin SeqsOf(all)
  <2>1. ASSUME NEW q \in SeqsOf(all)
        PROVE  (CHOOSE i \in 1..Len(all) : all[i].seq = q) \in 1..Len(all)
    <3>1. \E i \in 1..Len(all) : all[i].seq = q
      BY DEF SeqsOf
    <3> QED
      BY <3>1
  <2>2. Len(all) \in Nat
    BY <1>3
  <2>3. \A i \in 1..Len(all) : i \in Nat /\ i # 0
    BY <2>2
  <2> QED
    BY <2>1, <2>3
<1> HIDE DEF index
<1>5. frames \in Seq(Sound(s.next)) /\ frames \in Seq(SendFrames)
  <2>1. Singles(SeqsOf(ops)) \subseteq Sound(s.next)
    <3>1. \A q \in SeqsOf(ops) : q < s.next
      BY OpsAreOps DEF Keys
    <3>2. \A q \in Seqs : q \in Nat
      BY SendsAssumption DEF Seqs
    <3> QED
      BY <1>1, <3>1, <3>2 DEF Singles, Sound, SendFrames
  <2>2. Concat(ops) \in Seq(Sound(s.next))
    BY <2>1, ConcatType, SeqMonotone
  <2>3. frames \in Seq(Sound(s.next))
    BY <1>1, <2>2
  <2>4. Sound(s.next) \subseteq SendFrames
    BY DEF Sound
  <2> HIDE DEF frames
  <2> QED
    BY <2>3, <2>4, SeqMonotone
<1> HIDE DEF frames
<1>6. t \in ProducerState
  BY ONLY <1>1, <1>3, <1>4, <1>5 DEF ProducerState, t
<1>7. /\ SameControl(s, t) /\ t.next = s.next /\ t.batch = s.batch
      /\ t.outbound = frames /\ t.pending = all /\ t.pending_index = index
  BY ONLY <1>1 DEF ProducerState, SameControl, t
<1> HIDE DEF t
<1>8. t \in Queues
  <2>1. \A op \in OpsOf(t.pending) : op.seq < t.next
    BY <1>1, <1>3, <1>7
  <2>2. /\ \A i, j \in 1..Len(s.batch) : i <= j => s.batch[i] <= s.batch[j]
        /\ \A i \in 1..Len(s.batch) : s.batch[i] < s.next
    BY QueueFields
  <2> QED
    BY ONLY <1>3, <1>4, <1>5, <1>6, <1>7, <2>1, <2>2 DEF Queues
<1> QED
  BY <1>2, <1>7, <1>8 DEF all

(* With nothing set aside the queue stays as it is. *)
LEMMA ReplayedIs ==
    ASSUME NEW s \in Queues, NEW ops \in Seq(Ops), Sorted(ops),
           \A op \in OpsOf(ops) : op.seq < s.next,
           \A x \in OpsOf(ops), y \in OpsOf(s.pending) : x.seq < y.seq
    PROVE  LET t == Replayed(s, ops)
           IN  /\ t \in Queues /\ SameControl(s, t) /\ t.next = s.next
               /\ t.pending = ops \o s.pending
<1>1. CASE ops = <<>>
  <2>1. s.pending \in Seq(Ops)
    BY QueueFields
  <2>2. <<>> \o s.pending = s.pending
    BY <2>1
  <2> QED
    BY <1>1, <2>2 DEF Replayed, SameControl
<1>2. CASE ops # <<>>
  BY <1>2, ReplaySnapshotsIs DEF Replayed
<1> QED
  BY <1>1, <1>2

LEMMA AfterDrainIs ==
    ASSUME NEW s \in Queues
    PROVE  /\ AfterDrain(s) \in Queues /\ SameControl(s, AfterDrain(s))
           /\ SamePending(s, AfterDrain(s))
<1>1. <<>> \in Seq(Sound(s.next))
  OBVIOUS
<1> QED
  BY <1>1, StagedIs DEF AfterDrain, SameControl, SamePending

(* A poll puts its waker on an op. *)
LEMMA WakerPut ==
    ASSUME NEW s \in Queues, NEW k \in 1..Len(s.pending), NEW q \in Seqs
    PROVE  LET t == [s EXCEPT !.pending[k].waker = q]
           IN  /\ t \in Queues /\ SameControl(s, t) /\ t.next = s.next
               /\ SeqsOf(t.pending) = SeqsOf(s.pending)
<1> DEFINE ops == [s.pending EXCEPT ![k] = [s.pending[k] EXCEPT !.waker = q]]
           t == [s EXCEPT !.pending = ops]
<1>1. s \in ProducerState /\ s.pending \in Seq(Ops) /\ s.pending[k] \in Ops
  BY QueueFields
<1>2. [s EXCEPT !.pending[k].waker = q] = t
  BY <1>1 DEF ProducerState
<1>3. /\ [s.pending[k] EXCEPT !.waker = q] \in Ops
      /\ [s.pending[k] EXCEPT !.waker = q].seq = s.pending[k].seq
  BY <1>1 DEF Ops
<1>4. /\ ops \in Seq(Ops) /\ Len(ops) = Len(s.pending)
      /\ \A i \in 1..Len(ops) : ops[i].seq = s.pending[i].seq
  BY <1>1, <1>3
<1> HIDE DEF ops
<1>5. t \in ProducerState
  BY ONLY <1>1, <1>4 DEF ProducerState, t
<1>6. /\ SameControl(s, t) /\ t.next = s.next /\ t.batch = s.batch
      /\ t.outbound = s.outbound /\ t.pending = ops /\ t.pending_index = s.pending_index
  BY ONLY <1>1 DEF ProducerState, SameControl, t
<1> HIDE DEF t
<1>7. SeqsOf(ops) = SeqsOf(s.pending)
  BY <1>4 DEF SeqsOf
<1>8. t \in Queues
  <2>1. Sorted(ops)
    BY <1>4, QueueFields DEF Sorted
  <2>2. \A op \in OpsOf(ops) : op.seq < s.next
    <3>1. \A op \in OpsOf(ops) : op.seq \in SeqsOf(ops)
      BY DEF OpsOf, SeqsOf
    <3>2. \A n \in SeqsOf(s.pending) : n < s.next
      BY SMTT(40), QueueFields DEF OpsOf, SeqsOf
    <3> QED
      BY <1>7, <3>1, <3>2
  <2>3. /\ \A i, j \in 1..Len(s.batch) : i <= j => s.batch[i] <= s.batch[j]
        /\ \A i \in 1..Len(s.batch) : s.batch[i] < s.next
        /\ \A n \in Seqs : s.pending_index[n] = 0 <=> n \notin SeqsOf(s.pending)
        /\ s.outbound \in Seq(Sound(s.next))
    BY QueueFields
  <2> QED
    BY ONLY <1>5, <1>6, <1>7, <2>1, <2>2, <2>3 DEF Queues
<1> QED
  BY <1>2, <1>6, <1>7, <1>8

-----------------------------------------------------------------------------
(* Types of the session.                                                   *)

Sends(n) == [type : {"Send"}, arg : Sound(n)]
LiveFrames(n) == Sends(n) \cup [type : {"Producer", "CloseProducer"}, arg : Requests]
Answers(n) ==
    [type : {"SendReceipt", "SendError"}, arg : Sound(n)]
      \cup [type : {"ProducerSuccess", "NotReady", "Denied", "Success"}, arg : Requests]
      \cup [type : {"CloseProducer"}, arg : {NoReq}]
Entries(n) == [frame : Sound(n), persisted : BOOLEAN]

FutTypes ==
    /\ outcomes \in [Seqs -> Results]
    /\ slab \subseteq Seqs
    /\ fut \in [Seqs -> Futures]

ConnTypes ==
    /\ known \in BOOLEAN /\ conn \in ConnStates
    /\ nextReq \in Nat \ {0} /\ requests \in [Requests -> Kinds]
    /\ retry \in Requests \cup {NoReq}
    /\ flush \in {"idle", "waiting", "returned"}

(* What a reset set aside is older than what is pending. *)
SnapshotTypes ==
    /\ snapshots \in Seq(Ops) /\ Sorted(snapshots)
    /\ \A a \in SeqsOf(snapshots) : a < p.next
    /\ \A a \in SeqsOf(snapshots), b \in SeqsOf(p.pending) : a < b

Types ==
    /\ p \in Queues /\ ConnTypes /\ SnapshotTypes /\ FutTypes
    /\ wire \in Seq(LiveFrames(p.next))
    /\ inbound \in Seq(Answers(p.next))
    /\ log \in Seq(Entries(p.next))
    /\ reg \in {"none", "attached", "closed"}

LEMMA SoundGrows ==
    ASSUME NEW n \in Nat, NEW m \in Nat, n <= m
    PROVE  /\ Sound(n) \subseteq Sound(m) /\ Sends(n) \subseteq Sends(m)
           /\ LiveFrames(n) \subseteq LiveFrames(m) /\ Answers(n) \subseteq Answers(m)
           /\ Entries(n) \subseteq Entries(m)
<1>1. \A f \in SendFrames : f.hi \in Nat
  BY SendsAssumption DEF SendFrames, Seqs
<1>2. Sound(n) \subseteq Sound(m)
  BY <1>1 DEF Sound
<1> QED
  BY <1>2 DEF Sends, LiveFrames, Answers, Entries

LEMMA EmittedIs ==
    ASSUME NEW s \in Queues
    PROVE  Emitted(s) \in Seq(Sends(s.next)) /\ (~GateOpen(s) => Emitted(s) = <<>>)
<1> DEFINE f(i) == Frame("Send", s.outbound[i])
<1>1. s.outbound \in Seq(Sound(s.next))
  BY QueueFields
<1>2. Len(s.outbound) \in Nat /\ \A i \in 1..Len(s.outbound) : s.outbound[i] \in Sound(s.next)
  BY <1>1
<1>3. \A i \in 1..Len(s.outbound) : f(i) \in Sends(s.next)
  BY <1>2 DEF Sends, Frame
<1> HIDE DEF f
<1>4. [i \in 1..Len(s.outbound) |-> f(i)] \in Seq(Sends(s.next))
  BY <1>2, <1>3
<1>5. <<>> \in Seq(Sends(s.next))
  OBVIOUS
<1> QED
  BY <1>4, <1>5 DEF Emitted, f

(* The frames of p that the driver takes. *)
Transmits ==
    \E sends \in Seq(Sends(p.next)) :
        wire' = wire \o sends /\ (sends # <<>> => GateOpen(p))

LEMMA TransmitsTypes ==
    ASSUME Types, Transmits, p'.next = p.next
    PROVE  wire' \in Seq(LiveFrames(p'.next))
<1>1. PICK sends \in Seq(Sends(p.next)) : wire' = wire \o sends
  BY DEF Transmits
<1>2. sends \in Seq(LiveFrames(p.next)) /\ wire \in Seq(LiveFrames(p.next))
  BY SeqMonotone DEF LiveFrames, Types
<1> QED
  BY <1>1, <1>2

LEMMA WakeType ==
    ASSUME FutTypes, NEW awake
    PROVE  /\ Wake(awake) \in [Seqs -> Futures]
           /\ \A q \in Seqs : Wake(awake)[q] # fut[q] =>
                 fut[q] = "parked" /\ Wake(awake)[q] = "ready"
BY DEF FutTypes, Wake, Futures

LEMMA RecordType ==
    ASSUME FutTypes, NEW K, NEW result \in Results
    PROVE  /\ Record(K, result) \in [Seqs -> Results]
           /\ \A q \in Seqs : Record(K, result)[q] = IF q \in K THEN result ELSE outcomes[q]
BY DEF FutTypes, Record

(* Futures are woken and nothing else happens to them; the sends in K get  *)
(* a result.                                                               *)
Woken == \A q \in Seqs : fut'[q] # fut[q] => fut[q] = "parked" /\ fut'[q] = "ready"
Settles(K, result) ==
    /\ FutTypes' /\ Woken
    /\ \A q \in Seqs : outcomes'[q] = IF q \in K THEN result ELSE outcomes[q]

LEMMA ResolvedIs ==
    ASSUME FutTypes, NEW ops, NEW result \in Results,
           ResolveByBroker(ops, result) \/ ResolveLocally(ops, result)
    PROVE  Settles(Keys(ops), result)
<1>1. /\ outcomes' = Record(Keys(ops), result) /\ fut' = Wake(WokenBy(ops))
      /\ slab' \subseteq slab
  BY DEF ResolveByBroker, ResolveLocally
<1>2. slab' \subseteq Seqs
  BY <1>1 DEF FutTypes
<1> QED
  BY <1>1, <1>2, WakeType, RecordType DEF Settles, Woken, FutTypes

LEMMA RequestTypes ==
    ASSUME Types, NEW kind \in Kinds, NEW type \in {"Producer", "CloseProducer"},
           Request(kind, type)
    PROVE  /\ nextReq \in Requests /\ nextReq' = nextReq + 1 /\ nextReq' \in Nat \ {0}
           /\ requests' \in [Requests -> Kinds]
           /\ wire' = Append(wire, Frame(type, nextReq))
           /\ wire' \in Seq(LiveFrames(p.next))
<1>1. Frame(type, nextReq) \in LiveFrames(p.next)
  BY DEF Request, LiveFrames, Frame
<1> QED
  BY <1>1 DEF Request, Types, ConnTypes

LEMMA NoSettlement ==
    ASSUME FutTypes, UNCHANGED futVars
    PROVE  \A result : Settles({}, result)
BY DEF FutTypes, futVars, Settles, Woken

-----------------------------------------------------------------------------
(* What each action does to the sends: it accepts one, polls one, or       *)
(* settles some of those it holds.                                         *)

ClientTypes ==
    /\ p \in Queues /\ ConnTypes /\ SnapshotTypes /\ FutTypes
    /\ wire \in Seq(LiveFrames(p.next))

HeldSeqs == SeqsOf(snapshots) \cup SeqsOf(p.pending)

Accepts ==
    /\ p.next \in Seqs /\ p'.next = p.next + 1
    /\ p.has_ever_attached /\ ~p.closed
    /\ HeldSeqs' = HeldSeqs \cup {p.next}
    /\ fut' = [fut EXCEPT ![p.next] = "ready"]
    /\ UNCHANGED <<outcomes, slab>>

Keeps(K, result) ==
    /\ p'.next = p.next
    /\ K \subseteq HeldSeqs /\ HeldSeqs' = HeldSeqs \ K
    /\ Settles(K, result)

Polled(q) ==
    /\ p'.next = p.next /\ HeldSeqs' = HeldSeqs
    /\ fut[q] \in {"ready", "parked"}
    /\ IF outcomes[q] # "none"
         THEN /\ fut' = [fut EXCEPT ![q] = IF outcomes[q] = "receipt" THEN "ok" ELSE "err"]
              /\ outcomes' = [outcomes EXCEPT ![q] = "none"]
         ELSE fut' = [fut EXCEPT ![q] = "parked"] /\ outcomes' = outcomes

(* The attach protocol is not touched. *)
SameLink == SameControl(p, p') /\ UNCHANGED <<known, conn, nextReq>>

LEMMA TypesClient == ASSUME Types PROVE ClientTypes
BY DEF Types, ClientTypes

LEMMA SendEffect ==
    ASSUME Types, NEW way, Send(way)
    PROVE  /\ ClientTypes' /\ SameLink /\ wire' = wire /\ p'.next >= p.next
           /\ Accepts \/ Keeps({}, "error")
<1> USE DEF Send
<1>1. /\ p \in Queues /\ p.next \in Seqs /\ p.next \in Nat /\ way \in Ways
      /\ p' = QueueSend(p, way)
      /\ p.pending \in Seq(Ops)
  BY QueueFields DEF Types
<1>2. wire' = wire /\ UNCHANGED <<known, conn, nextReq, requests, retry, flush, snapshots>>
  BY DEF connVars
<1>3. ConnTypes'
  BY <1>2 DEF Types, ConnTypes
<1>4. CASE way = "oversized"
  <2>1. p' \in Queues /\ SameControl(p, p') /\ SamePending(p, p')
    BY <1>1, <1>4, QueueSendIs
  <2>2. SnapshotTypes' /\ FutTypes' /\ wire' \in Seq(LiveFrames(p'.next)) /\ UNCHANGED futVars
    BY <1>2, <1>4, <2>1 DEF Types, SnapshotTypes, FutTypes, SamePending, futVars
  <2>3. Keeps({}, "error")
    BY <1>2, <2>1, <2>2, NoSettlement DEF Keeps, HeldSeqs, SamePending, Types
  <2> QED
    BY <1>1, <1>2, <1>3, <2>1, <2>2, <2>3 DEF ClientTypes, SameLink, SamePending
<1>5. CASE way # "oversized"
  <2>1. Pushed(p, p')
    BY <1>1, <1>5, QueueSendIs
  <2>2. /\ p' \in Queues /\ SameControl(p, p') /\ p'.next = p.next + 1
    BY <2>1 DEF Pushed
  <2>3. PICK op \in Ops : op.seq = p.next /\ p'.pending = Append(p.pending, op)
    BY <2>1 DEF Pushed
  <2>4. SeqsOf(p'.pending) = SeqsOf(p.pending) \cup {p.next}
    <3>1. OpsOf(p'.pending) = OpsOf(p.pending) \cup {op} /\ p'.pending \in Seq(Ops)
      BY <1>1, <2>3, AppendOps
    <3>2. SeqsOf(p'.pending) = Keys(OpsOf(p'.pending)) /\ SeqsOf(p.pending) = Keys(OpsOf(p.pending))
      BY <1>1, <3>1, OpsAreOps
    <3> QED
      BY <2>3, <3>1, <3>2 DEF Keys
  <2>5. SnapshotTypes'
    <3>1. \A a \in SeqsOf(snapshots) : a \in Nat
      BY OpsAreOps, SendsAssumption DEF Types, SnapshotTypes, Seqs
    <3> QED
      BY <1>1, <1>2, <2>2, <2>4, <3>1 DEF Types, SnapshotTypes
  <2>6. FutTypes' /\ fut' = [fut EXCEPT ![p.next] = "ready"] /\ UNCHANGED <<outcomes, slab>>
    BY <1>1, <1>5 DEF Types, FutTypes, Futures
  <2>7. wire' \in Seq(LiveFrames(p'.next))
    <3>1. p.next \in Nat /\ p'.next \in Nat /\ p.next <= p'.next
      BY <1>1, <2>2
    <3>2. LiveFrames(p.next) \subseteq LiveFrames(p'.next)
      BY <3>1, SoundGrows
    <3>3. wire \in Seq(LiveFrames(p.next))
      BY DEF Types
    <3> QED
      BY <1>2, <3>2, <3>3, SeqMonotone
  <2>8. HeldSeqs' = HeldSeqs \cup {p.next}
    BY <1>2, <2>4 DEF HeldSeqs
  <2>9. Accepts
    BY <1>1, <2>2, <2>6, <2>8 DEF Accepts
  <2> QED
    BY <1>1, <1>2, <1>3, <2>2, <2>5, <2>6, <2>7, <2>9 DEF ClientTypes, SameLink
<1> QED
  BY <1>4, <1>5

LEMMA PollEffect ==
    ASSUME Types, NEW q \in Seqs, Poll(q)
    PROVE  ClientTypes' /\ SameLink /\ wire' = wire /\ Polled(q)
<1> USE DEF Poll
<1>1. p \in Queues
  BY DEF Types
<1>2. wire' = wire /\ UNCHANGED <<known, conn, nextReq, requests, retry, flush, snapshots>>
  BY DEF connVars
<1>3. /\ p' \in Queues /\ SameControl(p, p') /\ p'.next = p.next
      /\ SeqsOf(p'.pending) = SeqsOf(p.pending)
  <2>1. CASE p' = p
    BY <1>1, <2>1 DEF SameControl
  <2>2. CASE Attached(q) /\ p' = [p EXCEPT !.pending[p.pending_index[q]].waker = q]
    <3> DEFINE k == p.pending_index[q]
    <3>1. k \in 1..Len(p.pending)
      BY <2>2 DEF Attached
    <3> HIDE DEF k
    <3>2. p' = [p EXCEPT !.pending[k].waker = q]
      BY <2>2 DEF k
    <3> QED
      BY <1>1, <3>1, <3>2, WakerPut
  <2> QED
    BY <2>1, <2>2
<1>4. FutTypes'
  BY DEF Types, FutTypes, Futures, Results
<1>5. ClientTypes'
  BY <1>2, <1>3, <1>4 DEF ClientTypes, Types, ConnTypes, SnapshotTypes
<1>6. Polled(q)
  BY <1>2, <1>3 DEF Polled, HeldSeqs
<1> QED
  BY <1>2, <1>3, <1>5, <1>6 DEF SameLink

LEMMA EmittedTransmits ==
    ASSUME Types, NEW s \in Queues, SameControl(p, s), s.next = p.next,
           wire' = wire \o Emitted(s)
    PROVE  Transmits
<1>1. Emitted(s) \in Seq(Sends(p.next)) /\ (~GateOpen(s) => Emitted(s) = <<>>)
  BY EmittedIs
<1>2. GateOpen(s) <=> GateOpen(p)
  BY DEF GateOpen, SameControl
<1> QED
  BY <1>1, <1>2 DEF Transmits

LEMMA NothingTransmits ==
    ASSUME Types, wire' = wire
    PROVE  Transmits
<1>1. <<>> \in Seq(Sends(p.next)) /\ wire \o <<>> = wire
  BY DEF Types
<1> QED
  BY <1>1 DEF Transmits

(* flush and the driver's drain: only frames move. *)
LEMMA StagingEffect ==
    ASSUME Types, StartFlush \/ FlushReturns \/ DrainProducerOutbound
    PROVE  ClientTypes' /\ SameLink /\ Transmits /\ Keeps({}, "error")
<1> DEFINE f == FlushBatch(p)
<1>1. p \in Queues /\ p.next \in Nat
  BY QueueFields DEF Types
<1>2. /\ f \in Queues /\ SameControl(p, f) /\ SamePending(p, f)
      /\ AfterDrain(f) \in Queues /\ SameControl(f, AfterDrain(f))
      /\ SamePending(f, AfterDrain(f))
  BY <1>1, FlushBatchIs, AfterDrainIs DEF SamePending
<1> HIDE DEF f
<1>3. /\ AfterDrain(p) \in Queues /\ SameControl(p, AfterDrain(p))
      /\ SamePending(p, AfterDrain(p))
  BY <1>1, AfterDrainIs
<1>4. /\ UNCHANGED <<known, conn, nextReq, requests, retry, snapshots, outcomes, slab, fut>>
      /\ flush' \in {"idle", "waiting", "returned"}
  BY DEF StartFlush, FlushReturns, DrainProducerOutbound, connVars, futVars, Types, ConnTypes
<1>5. p' \in Queues /\ SameControl(p, p') /\ SamePending(p, p') /\ Transmits
  <2>1. CASE StartFlush
    <3>1. CASE known
      <4>1. p' = AfterDrain(f) /\ wire' = wire \o Emitted(f)
        BY <2>1, <3>1 DEF StartFlush, f
      <4>2. Transmits
        BY <1>2, <4>1, EmittedTransmits DEF SamePending
      <4> QED
        BY <1>2, <4>1, <4>2 DEF SameControl, SamePending
    <3>2. CASE ~known
      <4>1. p' = p /\ wire' = wire
        BY <2>1, <3>2 DEF StartFlush
      <4> QED
        BY <1>1, <4>1, NothingTransmits DEF SameControl, SamePending
    <3> QED
      BY <3>1, <3>2
  <2>2. CASE FlushReturns
    BY <1>1, <2>2, NothingTransmits DEF FlushReturns, SameControl, SamePending
  <2>3. CASE DrainProducerOutbound
    <3>1. p' = AfterDrain(p) /\ wire' = wire \o Emitted(p)
      BY <2>3 DEF DrainProducerOutbound
    <3>2. Transmits
      BY <1>1, <3>1, EmittedTransmits DEF SameControl
    <3> QED
      BY <1>3, <3>1, <3>2
  <2> QED
    BY <2>1, <2>2, <2>3
<1>6. wire' \in Seq(LiveFrames(p'.next))
  BY <1>5, TransmitsTypes DEF SamePending
<1>7. FutTypes' /\ UNCHANGED futVars
  BY <1>4 DEF Types, FutTypes, futVars
<1>8. ClientTypes'
  BY <1>4, <1>5, <1>6, <1>7 DEF ClientTypes, Types, ConnTypes, SnapshotTypes, SamePending
<1>9. Keeps({}, "error")
  BY <1>4, <1>5, <1>7, NoSettlement DEF Keeps, HeldSeqs, SamePending, Types
<1> QED
  BY <1>4, <1>5, <1>8, <1>9 DEF SameLink

(* Some ops leave pending: what the types need. *)
LEMMA ResolvedSeqs ==
    ASSUME NEW s \in Queues, NEW t, NEW Q, Resolves(s, t, Q)
    PROVE  /\ SeqsOf(t.pending) = SeqsOf(s.pending) \ Q
           /\ Keys(OpsOf(s.pending) \ OpsOf(t.pending)) = SeqsOf(s.pending) \cap Q
<1>1. /\ SeqsOf(t.pending) = Keys(OpsOf(t.pending))
      /\ SeqsOf(s.pending) = Keys(OpsOf(s.pending))
      /\ OpsOf(t.pending) = {op \in OpsOf(s.pending) : op.seq \notin Q}
  BY QueueFields, OpsAreOps DEF Resolves
<1> QED
  BY <1>1 DEF Keys

LEMMA BrokerResolves ==
    ASSUME Types, NEW Q, NEW result \in Results,
           Resolves(p, p', Q) \/ (p' = p /\ Q = {}),
           ResolveByBroker(OpsOf(p.pending) \ OpsOf(p'.pending), result),
           UNCHANGED <<known, connVars, wire, snapshots, flush>>
    PROVE  /\ ClientTypes' /\ SameLink /\ wire' = wire
           /\ Keeps(SeqsOf(p.pending) \cap Q, result)
<1> DEFINE ops == OpsOf(p.pending) \ OpsOf(p'.pending)
<1>1. p \in Queues /\ UNCHANGED <<known, conn, nextReq, requests, retry, wire, snapshots, flush>>
  BY DEF Types, connVars
<1>2. /\ p' \in Queues /\ SameControl(p, p') /\ p'.next = p.next
      /\ SeqsOf(p'.pending) = SeqsOf(p.pending) \ Q
      /\ Keys(ops) = SeqsOf(p.pending) \cap Q
  <2>1. CASE Resolves(p, p', Q)
    BY <1>1, <2>1, ResolvedSeqs DEF Resolves
  <2>2. CASE p' = p /\ Q = {}
    BY <1>1, <2>2 DEF SameControl, Keys
  <2> QED
    BY <2>1, <2>2
<1>3. Settles(Keys(ops), result)
  BY ResolvedIs DEF Types
<1> HIDE DEF ops
<1>4. SnapshotTypes' /\ ConnTypes' /\ FutTypes' /\ wire' \in Seq(LiveFrames(p'.next))
  BY <1>1, <1>2, <1>3 DEF Types, SnapshotTypes, ConnTypes, Settles
<1>5. HeldSeqs' = HeldSeqs \ (SeqsOf(p.pending) \cap Q)
  <2>1. SeqsOf(snapshots) \cap SeqsOf(p.pending) = {}
    <3>1. \A a \in SeqsOf(p.pending) : a \in Nat
      BY <1>1, QueueFields, OpsAreOps, SendsAssumption DEF Seqs
    <3> QED
      BY <3>1 DEF Types, SnapshotTypes
  <2> QED
    BY <1>1, <1>2, <2>1 DEF HeldSeqs
<1> QED
  BY <1>1, <1>2, <1>3, <1>4, <1>5 DEF ClientTypes, SameLink, Keeps, HeldSeqs

(* A receipt settles sends of its range, an error the send it names. *)
LEMMA ReceiptEffect ==
    ASSUME Types, NEW lo \in Seqs, NEW hi \in Seqs, lo <= hi, HandleSendReceipt(lo, hi)
    PROVE  /\ ClientTypes' /\ SameLink /\ wire' = wire
           /\ \E K \in SUBSET (lo..hi) : Keeps(K, "receipt")
<1> DEFINE Q == IF known THEN lo..hi ELSE {}
<1>1. Resolves(p, p', Q) \/ (p' = p /\ Q = {})
  BY ApplyRangeIs DEF HandleSendReceipt, Types
<1>2. /\ ResolveByBroker(OpsOf(p.pending) \ OpsOf(p'.pending), "receipt")
      /\ UNCHANGED <<known, connVars, wire, snapshots, flush>>
  BY DEF HandleSendReceipt
<1>3. "receipt" \in Results /\ Q \subseteq lo..hi
  BY DEF Results
<1> HIDE DEF Q
<1>4. ClientTypes' /\ SameLink /\ wire' = wire /\ Keeps(SeqsOf(p.pending) \cap Q, "receipt")
  BY <1>1, <1>2, <1>3, BrokerResolves
<1>5. SeqsOf(p.pending) \cap Q \in SUBSET (lo..hi)
  BY <1>3
<1> QED
  BY <1>4, <1>5

LEMMA ErrorEffect ==
    ASSUME Types, NEW q \in Seqs, HandleSendError(q)
    PROVE  /\ ClientTypes' /\ SameLink /\ wire' = wire
           /\ \E K : Keeps(K, "error")
<1> DEFINE Q == IF known THEN {q} ELSE {}
<1>1. Resolves(p, p', Q) \/ (p' = p /\ Q = {})
  BY ApplyOneIs DEF HandleSendError, Types
<1>2. /\ ResolveByBroker(OpsOf(p.pending) \ OpsOf(p'.pending), "error")
      /\ UNCHANGED <<known, connVars, wire, snapshots, flush>>
  BY DEF HandleSendError
<1>3. "error" \in Results
  BY DEF Results
<1> HIDE DEF Q
<1>4. ClientTypes' /\ SameLink /\ wire' = wire /\ Keeps(SeqsOf(p.pending) \cap Q, "error")
  BY <1>1, <1>2, <1>3, BrokerResolves
<1> QED
  BY <1>4

(* The timers: a due batch is flushed and late sends fail. *)
LEMMA TimeoutEffect ==
    ASSUME Types, NEW due \in BOOLEAN, NEW cut \in Nat \ {0}, HandleTimeout(due, cut)
    PROVE  /\ ClientTypes' /\ SameLink /\ Transmits
           /\ \E K : Keeps(K, "error")
<1> DEFINE flushed == IF due THEN FlushBatch(p) ELSE p
           sent == AfterDrain(flushed)
           late(ops) == {op \in OpsOf(ops) : op.seq < cut}
           gone == late(p.pending) \cup late(snapshots)
<1>0. p \in Queues
  BY DEF Types
<1>1. flushed \in Queues /\ SameControl(p, flushed) /\ SamePending(p, flushed)
  BY <1>0, FlushBatchIs DEF SameControl, SamePending
<1>2. /\ p' = DrainTimedOut(sent, cut) /\ wire' = wire \o Emitted(flushed)
      /\ snapshots' = InTime(snapshots, cut) /\ ResolveLocally(gone, "error")
      /\ UNCHANGED <<known, connVars, flush>>
  BY DEF HandleTimeout
<1> HIDE DEF flushed
<1>3. sent \in Queues /\ SameControl(flushed, sent) /\ SamePending(flushed, sent)
  BY <1>1, AfterDrainIs
<1> HIDE DEF sent
<1>4. Resolves(sent, p', 1..(cut - 1))
  BY <1>2, <1>3, DrainTimedOutIs
<1>5. /\ p' \in Queues /\ SameControl(p, p') /\ p'.next = p.next
      /\ SeqsOf(p'.pending) = SeqsOf(p.pending) \ (1..(cut - 1))
  <2> DEFINE R == 1..(cut - 1)
  <2>1. Resolves(sent, p', R)
    BY <1>4
  <2> HIDE DEF R
  <2>2. SeqsOf(p'.pending) = SeqsOf(sent.pending) \ R
    BY <1>3, <2>1, ResolvedSeqs
  <2>3. sent.pending = p.pending /\ sent.next = p.next
    BY <1>1, <1>3 DEF SamePending
  <2>4. SameControl(p, p') /\ p' \in Queues /\ p'.next = sent.next
    BY <1>1, <1>3, <2>1 DEF Resolves, SameControl
  <2> QED
    BY <2>2, <2>3, <2>4 DEF R
<1>6. /\ snapshots' \in Seq(Ops) /\ Sorted(snapshots')
      /\ OpsOf(snapshots') = {op \in OpsOf(snapshots) : op.seq >= cut}
  BY <1>2, InTimeIs DEF Types, SnapshotTypes
<1>7. /\ SeqsOf(snapshots') = Keys(OpsOf(snapshots')) /\ SeqsOf(snapshots) = Keys(OpsOf(snapshots))
      /\ SeqsOf(p.pending) = Keys(OpsOf(p.pending))
      /\ SeqsOf(snapshots) \subseteq Seqs /\ SeqsOf(p.pending) \subseteq Seqs
  BY <1>0, <1>6, QueueFields, OpsAreOps DEF Types, SnapshotTypes
<1>8. \A n \in Seqs : n \in Nat /\ n >= 1
  BY SendsAssumption DEF Seqs
<1>9. SeqsOf(snapshots') = SeqsOf(snapshots) \ (1..(cut - 1))
  <2>1. SeqsOf(snapshots') = {n \in SeqsOf(snapshots) : n >= cut}
    BY <1>6, <1>7 DEF Keys
  <2> QED
    BY <1>7, <1>8, <2>1
<1>10. Keys(gone) = HeldSeqs \cap 1..(cut - 1)
  <2>1. Keys(gone) = {n \in HeldSeqs : n < cut}
    BY <1>7 DEF Keys, HeldSeqs
  <2> QED
    BY <1>7, <1>8, <2>1 DEF HeldSeqs
<1>11. Settles(Keys(gone), "error")
  BY <1>2, ResolvedIs DEF Types, Results
<1> HIDE DEF gone
<1>12. Transmits
  BY <1>1, <1>2, EmittedTransmits DEF SamePending
<1>13. wire' \in Seq(LiveFrames(p'.next))
  BY <1>5, <1>12, TransmitsTypes
<1>14. SnapshotTypes' /\ ConnTypes' /\ FutTypes'
  BY <1>2, <1>5, <1>6, <1>9, <1>11 DEF Types, SnapshotTypes, ConnTypes, Settles, connVars
<1>15. HeldSeqs' = HeldSeqs \ Keys(gone) /\ Keys(gone) \subseteq HeldSeqs
  BY <1>5, <1>9, <1>10 DEF HeldSeqs
<1>16. Keeps(Keys(gone), "error")
  BY <1>5, <1>11, <1>15 DEF Keeps
<1> QED
  BY <1>2, <1>5, <1>12, <1>13, <1>14, <1>16 DEF ClientTypes, SameLink, connVars

-----------------------------------------------------------------------------
(* The attach protocol.                                                    *)

(* Only fields of the attach protocol are assigned. *)
LEMMA ControlEffect ==
    ASSUME Types, p' \in ProducerState, SameQueue(p, p'), UNCHANGED <<snapshots, futVars>>,
           ConnTypes', wire' \in Seq(LiveFrames(p.next))
    PROVE  ClientTypes' /\ Keeps({}, "error")
<1>1. p' \in Queues /\ p'.next = p.next /\ p'.pending = p.pending
  BY ControlAssigned DEF Types, SameQueue
<1>2. SnapshotTypes' /\ FutTypes'
  BY <1>1 DEF Types, SnapshotTypes, FutTypes, futVars
<1>3. HeldSeqs' = HeldSeqs
  BY <1>1 DEF HeldSeqs
<1>4. Keeps({}, "error")
  BY <1>1, <1>3, NoSettlement DEF Keeps, Types
<1> QED
  BY <1>1, <1>2, <1>4 DEF ClientTypes

(* Every send the producer holds fails. *)
LEMMA TerminalEffect ==
    ASSUME Types, NEW s \in Queues, SameQueue(p, s), p' = Drained(s), snapshots' = <<>>,
           ResolveLocally(OpsOf(p.pending) \cup OpsOf(snapshots), "terminal"),
           ConnTypes', wire' \in Seq(LiveFrames(p.next))
    PROVE  /\ ClientTypes' /\ SameControl(s, p')
           /\ Keeps(HeldSeqs, "terminal") /\ HeldSeqs' = {}
<1> DEFINE ops == OpsOf(p.pending) \cup OpsOf(snapshots)
<1>1. /\ p' \in Queues /\ SameControl(s, p') /\ p'.next = s.next /\ p'.pending = <<>>
  BY DrainedIs
<1>2. p'.next = p.next /\ SeqsOf(p'.pending) = {} /\ SeqsOf(snapshots') = {}
  BY <1>1, NoOps DEF SameQueue
<1>3. Keys(ops) = HeldSeqs
  <2>1. /\ SeqsOf(snapshots) = Keys(OpsOf(snapshots))
        /\ SeqsOf(p.pending) = Keys(OpsOf(p.pending))
    BY QueueFields, OpsAreOps DEF Types, SnapshotTypes
  <2> QED
    BY <2>1 DEF Keys, HeldSeqs
<1>4. Settles(Keys(ops), "terminal")
  BY ResolvedIs DEF Types, Results
<1> HIDE DEF ops
<1>5. SnapshotTypes' /\ FutTypes'
  BY <1>2, <1>4, NoOps DEF SnapshotTypes, Settles
<1>6. HeldSeqs' = {}
  BY <1>2 DEF HeldSeqs
<1>7. Keeps(HeldSeqs, "terminal")
  BY <1>2, <1>3, <1>4, <1>6 DEF Keeps
<1> QED
  BY <1>1, <1>2, <1>5, <1>6, <1>7 DEF ClientTypes

(* The gate may close and the producer may be forgotten, no more. *)
Narrows ==
    /\ known' => known
    /\ known' => /\ p'.open_request_id = p.open_request_id
                 /\ p'.broker_ready => p.broker_ready

(* What the application may still do with the producer. *)
Steady ==
    known' = known /\ p'.closed = p.closed /\ p'.has_ever_attached = p.has_ever_attached
Ends ==
    /\ known /\ ~known' /\ p'.closed /\ HeldSeqs' = {}
    /\ p'.has_ever_attached = p.has_ever_attached

LEMMA SameLinkIs ==
    ASSUME SameLink
    PROVE  Narrows /\ Steady /\ conn' = conn /\ nextReq' = nextReq
BY DEF SameLink, SameControl, Narrows, Steady

LEMMA CloseEffect ==
    ASSUME Types, CloseProducer
    PROVE  /\ ClientTypes' /\ Keeps({}, "error") /\ Narrows /\ conn' = conn
           /\ known' = known /\ p'.has_ever_attached = p.has_ever_attached
           /\ nextReq \in Requests /\ nextReq' = nextReq + 1
           /\ wire' = Append(wire, Frame("CloseProducer", nextReq))
<1>1. /\ Request("close", "CloseProducer")
      /\ p' = [p EXCEPT !.closed = TRUE, !.close_request = nextReq]
      /\ UNCHANGED <<known, conn, retry, snapshots, futVars, flush>>
  BY DEF CloseProducer
<1>2. /\ nextReq \in Requests /\ nextReq' = nextReq + 1 /\ nextReq' \in Nat \ {0}
      /\ requests' \in [Requests -> Kinds]
      /\ wire' = Append(wire, Frame("CloseProducer", nextReq))
      /\ wire' \in Seq(LiveFrames(p.next))
  BY <1>1, RequestTypes DEF Kinds
<1>3. p \in ProducerState
  BY QueueFields DEF Types
<1>4. /\ p' \in ProducerState /\ SameQueue(p, p') /\ p'.open_request_id = p.open_request_id
      /\ p'.broker_ready = p.broker_ready /\ p'.has_ever_attached = p.has_ever_attached
  BY ONLY <1>1, <1>2, <1>3 DEF ProducerState, SameQueue
<1>5. ConnTypes'
  BY <1>1, <1>2 DEF Types, ConnTypes
<1>6. ClientTypes' /\ Keeps({}, "error")
  BY <1>1, <1>2, <1>4, <1>5, ControlEffect
<1> QED
  BY <1>1, <1>2, <1>4, <1>6 DEF Narrows

LEMMA AnsweredTypes ==
    ASSUME Types, NEW r, NEW kind, Answered(r, kind)
    PROVE  requests' \in [Requests -> Kinds]
BY DEF Types, ConnTypes, Answered, Kinds

(* fail_producer_open_with_broker_error *)
LEMMA FailOpenEffect ==
    ASSUME Types, FailProducerOpen, known, ConnTypes', wire' \in Seq(LiveFrames(p.next))
    PROVE  ClientTypes' /\ Keeps(HeldSeqs, "terminal") /\ Narrows /\ Ends
<1> DEFINE s == [p EXCEPT !.closed = TRUE, !.broker_ready = FALSE]
<1>1. p \in ProducerState /\ p \in Queues
  BY QueueFields DEF Types
<1>2. s \in ProducerState /\ SameQueue(p, s) /\ s.closed = TRUE
      /\ s.has_ever_attached = p.has_ever_attached
  BY ONLY <1>1 DEF ProducerState, SameQueue, s
<1>3. p' = Drained(s)
  BY DEF FailProducerOpen
<1> HIDE DEF s
<1>4. s \in Queues
  BY <1>1, <1>2, ControlAssigned
<1>5. /\ ClientTypes' /\ SameControl(s, p')
      /\ Keeps(HeldSeqs, "terminal") /\ HeldSeqs' = {}
  BY <1>2, <1>3, <1>4, TerminalEffect DEF FailProducerOpen
<1>6. ~known'
  BY DEF FailProducerOpen
<1> QED
  BY <1>2, <1>5, <1>6 DEF Narrows, Ends, SameControl

LEMMA OpenFailedEffect ==
    ASSUME Types, NEW r \in Requests, OpenFailed(r), known, UNCHANGED <<conn, nextReq, wire, flush>>,
           requests' \in [Requests -> Kinds]
    PROVE  /\ ClientTypes' /\ Narrows
           /\ \/ Keeps({}, "error") /\ Steady
              \/ Keeps(HeldSeqs, "terminal") /\ Ends
<1>0. wire' \in Seq(LiveFrames(p.next))
  BY DEF Types
<1>1. p \in ProducerState
  BY QueueFields DEF Types
<1>2. CASE p.attempts + 1 <= MaxAttempts
  <2> DEFINE n == p.attempts + 1
  <2>0. n \in Nat
    BY <1>1 DEF ProducerState
  <2>1. /\ p' = [p EXCEPT !.broker_ready = FALSE, !.attempts = n]
        /\ retry' = r /\ UNCHANGED <<known, snapshots, futVars>>
    BY <1>1, <1>2 DEF OpenFailed, ProducerState
  <2> HIDE DEF n
  <2>2. /\ p' \in ProducerState /\ SameQueue(p, p') /\ p'.open_request_id = p.open_request_id
        /\ ~p'.broker_ready /\ p'.closed = p.closed
        /\ p'.has_ever_attached = p.has_ever_attached
    BY ONLY <1>1, <2>0, <2>1 DEF ProducerState, SameQueue
  <2>3. ConnTypes'
    BY <2>1 DEF Types, ConnTypes
  <2>4. ClientTypes' /\ Keeps({}, "error")
    BY <1>0, <2>1, <2>2, <2>3, ControlEffect
  <2> QED
    BY <2>1, <2>2, <2>4 DEF Narrows, Steady
<1>3. CASE ~(p.attempts + 1 <= MaxAttempts)
  <2>1. FailProducerOpen /\ UNCHANGED retry
    BY <1>3 DEF OpenFailed
  <2>2. ConnTypes'
    BY <2>1 DEF Types, ConnTypes, FailProducerOpen
  <2> QED
    BY <1>0, <2>1, <2>2, FailOpenEffect
<1> QED
  BY <1>2, <1>3

(* A refused open: ignored when it is superseded, retried, or the end. *)
LEMMA RefusedEffect ==
    ASSUME Types, NEW r \in Requests, NEW retryable \in BOOLEAN, HandleOpenRefused(r, retryable)
    PROVE  /\ ClientTypes' /\ Narrows /\ UNCHANGED <<conn, nextReq, wire>>
           /\ \/ Keeps({}, "error") /\ Steady
              \/ Keeps(HeldSeqs, "terminal") /\ Ends
              \/ /\ Keeps({}, "error") /\ known /\ ~p.has_ever_attached
                 /\ p'.has_ever_attached = p.has_ever_attached /\ p'.closed = p.closed
<1> USE DEF HandleOpenRefused
<1>1. /\ UNCHANGED <<conn, nextReq, wire, flush>> /\ requests' \in [Requests -> Kinds]
  BY AnsweredTypes
<1>2. /\ wire' \in Seq(LiveFrames(p.next)) /\ p \in ProducerState
  BY <1>1, QueueFields DEF Types
<1>3. CASE UNCHANGED <<p, retry, snapshots, futVars>> /\ (known' => known) /\ known' \in BOOLEAN
             /\ (known' = known \/ (known /\ ~p.has_ever_attached))
  <2>1. ConnTypes'
    BY <1>1, <1>3 DEF Types, ConnTypes
  <2>2. p' \in ProducerState /\ SameQueue(p, p')
    BY <1>2, <1>3 DEF SameQueue
  <2>3. ClientTypes' /\ Keeps({}, "error")
    BY <1>2, <1>3, <2>1, <2>2, ControlEffect
  <2> QED
    BY <1>1, <1>3, <2>3 DEF Narrows, Steady
<1>4. CASE OpenIsCurrent(r) /\ OpenFailed(r)
  BY <1>1, <1>4, OpenFailedEffect DEF OpenIsCurrent
<1>5. CASE OpenIsCurrent(r) /\ FailProducerOpen /\ UNCHANGED retry
  <2>1. ConnTypes'
    BY <1>1, <1>5 DEF Types, ConnTypes, FailProducerOpen
  <2> QED
    BY <1>1, <1>2, <1>5, <2>1, FailOpenEffect DEF OpenIsCurrent
<1>6. known \in BOOLEAN
  BY DEF Types, ConnTypes
<1>7. CASE ~OpenIsCurrent(r)
  <2>1. UNCHANGED <<p, known, retry, snapshots, futVars>>
    BY <1>7
  <2> QED
    BY <1>3, <1>6, <2>1
<1>8. CASE OpenIsCurrent(r) /\ ~p.has_ever_attached
  <2>1. known' = FALSE /\ UNCHANGED <<p, retry, snapshots, futVars>> /\ known
    BY <1>8 DEF OpenIsCurrent
  <2> QED
    BY <1>3, <1>8, <2>1
<1> QED
  BY <1>4, <1>5, <1>7, <1>8

(* An open nobody answered in time. *)
LEMMA ExpireEffect ==
    ASSUME Types, NEW r \in Requests, ExpireProducerOpen(r)
    PROVE  /\ ClientTypes' /\ Narrows /\ UNCHANGED <<conn, nextReq, wire>>
           /\ \/ Keeps({}, "error") /\ Steady
              \/ Keeps(HeldSeqs, "terminal") /\ Ends
<1>1. /\ UNCHANGED <<conn, nextReq, wire, flush>> /\ requests' \in [Requests -> Kinds]
      /\ OpenFailed(r) /\ known
  BY AnsweredTypes DEF ExpireProducerOpen
<1> QED
  BY <1>1, OpenFailedEffect

(* An open is issued, under a new request id. *)
Reopens ==
    /\ known /\ known'
    /\ nextReq \in Requests /\ nextReq' = nextReq + 1
    /\ p'.open_request_id = nextReq
    /\ wire' = Append(wire, Frame("Producer", nextReq))

LEMMA BrokerCloseEffect ==
    ASSUME Types, HandleCloseProducer
    PROVE  /\ ClientTypes' /\ Keeps({}, "error") /\ Steady /\ conn' = conn
           /\ \/ Reopens /\ ~p'.broker_ready
              \/ Narrows /\ UNCHANGED <<nextReq, wire>>
<1> USE DEF HandleCloseProducer
<1>1. UNCHANGED <<known, conn, retry, snapshots, futVars, flush>> /\ p \in ProducerState
  BY QueueFields DEF Types
<1>2. CASE ReattachEligible
  <2>1. /\ Request("open", "Producer") /\ known
        /\ p' = [p EXCEPT !.broker_ready = FALSE, !.open_request_id = nextReq]
    BY <1>2 DEF ReattachEligible
  <2>2. /\ nextReq \in Requests /\ nextReq' = nextReq + 1 /\ nextReq' \in Nat \ {0}
        /\ requests' \in [Requests -> Kinds]
        /\ wire' = Append(wire, Frame("Producer", nextReq))
        /\ wire' \in Seq(LiveFrames(p.next))
    BY <2>1, RequestTypes DEF Kinds
  <2>3. /\ p' \in ProducerState /\ SameQueue(p, p') /\ p'.open_request_id = nextReq
        /\ ~p'.broker_ready /\ p'.closed = p.closed
        /\ p'.has_ever_attached = p.has_ever_attached
    BY ONLY <1>1, <2>1, <2>2 DEF ProducerState, SameQueue
  <2>4. ConnTypes'
    BY <1>1, <2>2 DEF Types, ConnTypes
  <2>5. ClientTypes' /\ Keeps({}, "error")
    BY <1>1, <2>2, <2>3, <2>4, ControlEffect
  <2> QED
    BY <1>1, <2>1, <2>2, <2>3, <2>5 DEF Reopens, Steady
<1>3. CASE ~ReattachEligible
  <2>1. /\ p' = IF known THEN [p EXCEPT !.broker_ready = FALSE] ELSE p
        /\ UNCHANGED <<nextReq, requests, wire>>
    BY <1>3
  <2>2. /\ p' \in ProducerState /\ SameQueue(p, p') /\ p'.open_request_id = p.open_request_id
        /\ (p'.broker_ready => p.broker_ready) /\ p'.closed = p.closed
        /\ p'.has_ever_attached = p.has_ever_attached
    BY ONLY <1>1, <2>1 DEF ProducerState, SameQueue
  <2>3. ConnTypes' /\ wire' \in Seq(LiveFrames(p.next))
    BY <1>1, <2>1 DEF Types, ConnTypes
  <2>4. ClientTypes' /\ Keeps({}, "error")
    BY <1>1, <2>2, <2>3, ControlEffect
  <2> QED
    BY <1>1, <2>1, <2>2, <2>4 DEF Narrows, Steady
<1> QED
  BY <1>2, <1>3

LEMMA CloseAckedEffect ==
    ASSUME Types, NEW r \in Requests, HandleCloseAcked(r)
    PROVE  /\ ClientTypes' /\ SameLink /\ wire' = wire
           /\ Keeps({}, "error") \/ Keeps(HeldSeqs, "terminal")
<1> USE DEF HandleCloseAcked
<1>1. /\ UNCHANGED <<known, conn, nextReq, retry, wire, flush>>
      /\ requests' \in [Requests -> Kinds]
  BY AnsweredTypes
<1>2. /\ ConnTypes' /\ wire' \in Seq(LiveFrames(p.next)) /\ p \in Queues
      /\ p \in ProducerState /\ SameQueue(p, p) /\ SameControl(p, p)
  BY <1>1, QueueFields DEF Types, ConnTypes, SameQueue, SameControl
<1>3. CASE known /\ p.close_request = r
  <2>1. /\ p' = Drained(p) /\ snapshots' = <<>>
        /\ ResolveLocally(OpsOf(p.pending) \cup OpsOf(snapshots), "terminal")
    BY <1>3
  <2>2. ClientTypes' /\ SameControl(p, p') /\ Keeps(HeldSeqs, "terminal")
    BY <1>2, <2>1, TerminalEffect
  <2> QED
    BY <1>1, <2>2 DEF SameLink
<1>4. CASE ~(known /\ p.close_request = r)
  <2>1. UNCHANGED <<p, snapshots, futVars>>
    BY <1>4
  <2>2. ClientTypes' /\ Keeps({}, "error")
    BY <1>2, <2>1, ControlEffect
  <2> QED
    BY <1>1, <1>2, <2>1, <2>2 DEF SameLink
<1> QED
  BY <1>3, <1>4

(* The retry leg. *)
LEMMA RetryEffect ==
    ASSUME Types, NEW found \in BOOLEAN, RetryProducerOpen(found)
    PROVE  /\ ClientTypes' /\ conn' = conn /\ IsConnected
           /\ \/ /\ Reopens /\ Keeps({}, "error") /\ Steady
                 /\ p'.broker_ready = p.broker_ready /\ p.open_request_id # NoReq
              \/ /\ Narrows /\ UNCHANGED <<nextReq, wire>>
                 /\ \/ Keeps({}, "error") /\ Steady
                    \/ Keeps(HeldSeqs, "terminal") /\ Ends
<1> USE DEF RetryProducerOpen
<1>1. /\ UNCHANGED <<conn, flush>> /\ p \in ProducerState /\ IsConnected
      /\ retry # NoReq /\ retry' = NoReq
  BY QueueFields DEF Types
<1>2. CASE RetryIsCurrent(retry) /\ found /\ Request("open", "Producer")
  <2>1. /\ Request("open", "Producer") /\ known /\ p.open_request_id # NoReq
        /\ p' = [p EXCEPT !.open_request_id = nextReq]
        /\ UNCHANGED <<known, snapshots, futVars>>
    BY <1>1, <1>2 DEF RetryIsCurrent
  <2>2. /\ nextReq \in Requests /\ nextReq' = nextReq + 1 /\ nextReq' \in Nat \ {0}
        /\ requests' \in [Requests -> Kinds]
        /\ wire' = Append(wire, Frame("Producer", nextReq))
        /\ wire' \in Seq(LiveFrames(p.next))
    BY <2>1, RequestTypes DEF Kinds
  <2>3. /\ p' \in ProducerState /\ SameQueue(p, p') /\ p'.open_request_id = nextReq
        /\ p'.broker_ready = p.broker_ready /\ p'.closed = p.closed
        /\ p'.has_ever_attached = p.has_ever_attached
    BY ONLY <1>1, <2>1, <2>2 DEF ProducerState, SameQueue
  <2>4. ConnTypes'
    BY <1>1, <2>1, <2>2 DEF Types, ConnTypes
  <2>5. ClientTypes' /\ Keeps({}, "error")
    BY <2>1, <2>2, <2>3, <2>4, ControlEffect
  <2> QED
    BY <1>1, <2>1, <2>2, <2>3, <2>5 DEF Reopens, Steady
<1>3. CASE RetryIsCurrent(retry) /\ FailProducerOpen /\ UNCHANGED <<nextReq, requests, wire>>
  <2>1. ConnTypes' /\ wire' \in Seq(LiveFrames(p.next)) /\ known
    BY <1>1, <1>3 DEF Types, ConnTypes, FailProducerOpen, RetryIsCurrent
  <2> QED
    BY <1>1, <1>3, <2>1, FailOpenEffect
<1>4. CASE UNCHANGED <<p, known, nextReq, requests, wire, snapshots, futVars>>
  <2>1. /\ ConnTypes' /\ wire' \in Seq(LiveFrames(p.next))
        /\ p' \in ProducerState /\ SameQueue(p, p')
    BY <1>1, <1>4 DEF Types, ConnTypes, SameQueue
  <2>2. ClientTypes' /\ Keeps({}, "error")
    BY <1>4, <2>1, ControlEffect
  <2> QED
    BY <1>1, <1>4, <2>2 DEF Narrows, Steady
<1> QED
  BY <1>2, <1>3, <1>4

(* The transport. *)
LEMMA TransportEffect ==
    ASSUME Types, Disconnect \/ Connected
    PROVE  /\ ClientTypes' /\ Keeps({}, "error") /\ Narrows /\ Steady /\ UNCHANGED <<nextReq, wire>>
<1>1. /\ UNCHANGED <<p, known, nextReq, requests, retry, wire, snapshots, futVars, flush>>
      /\ conn' \in ConnStates /\ p \in ProducerState
  BY QueueFields DEF Disconnect, Connected, ConnStates, Types
<1>2. /\ ConnTypes' /\ wire' \in Seq(LiveFrames(p.next))
      /\ p' \in ProducerState /\ SameQueue(p, p')
  BY <1>1 DEF Types, ConnTypes, SameQueue
<1>3. ClientTypes' /\ Keeps({}, "error")
  BY <1>1, <1>2, ControlEffect
<1> QED
  BY <1>1, <1>3 DEF Narrows, Steady

LEMMA TransmitEffect ==
    ASSUME Types, PollTransmit
    PROVE  /\ ClientTypes' /\ Keeps({}, "error") /\ SameLink
           /\ wire # <<>> /\ wire' = Tail(wire)
<1>1. /\ UNCHANGED <<p, known, conn, nextReq, requests, retry, snapshots, futVars, flush>>
      /\ wire # <<>> /\ wire' = Tail(wire) /\ p \in ProducerState
  BY QueueFields DEF PollTransmit, connVars, Types
<1>2. /\ ConnTypes' /\ wire' \in Seq(LiveFrames(p.next))
      /\ p' \in ProducerState /\ SameQueue(p, p') /\ SameControl(p, p')
  BY <1>1 DEF Types, ConnTypes, SameQueue, SameControl
<1>3. ClientTypes' /\ Keeps({}, "error")
  BY <1>1, <1>2, ControlEffect
<1> QED
  BY <1>1, <1>2, <1>3 DEF SameLink

(* CommandProducerSuccess: what was set aside goes in front of pending. *)
LEMMA SuccessEffect ==
    ASSUME Types, NEW r \in Requests, HandleProducerSuccess(r)
    PROVE  /\ ClientTypes' /\ UNCHANGED <<known, conn, nextReq, wire>> /\ Keeps({}, "error")
           /\ \/ /\ known /\ p.open_request_id = r /\ p'.open_request_id = NoReq
                 /\ p'.broker_ready /\ p'.closed = p.closed /\ p'.has_ever_attached
              \/ Narrows /\ Steady
<1> USE DEF HandleProducerSuccess
<1>1. /\ UNCHANGED <<known, conn, nextReq, retry, wire, futVars, flush>>
      /\ requests' \in [Requests -> Kinds]
  BY AnsweredTypes
<1>2. /\ ConnTypes' /\ wire' \in Seq(LiveFrames(p.next)) /\ p \in Queues /\ p \in ProducerState
  BY <1>1, QueueFields DEF Types, ConnTypes
<1>3. CASE OpenIsCurrent(r)
  <2> DEFINE s == ReplayPendingOutbound(p)
             t == Replayed(s, snapshots)
  <2>1. /\ p' = [t EXCEPT !.open_request_id = NoReq, !.broker_ready = TRUE,
                          !.has_ever_attached = TRUE, !.attempts = 0]
        /\ snapshots' = <<>>
    BY <1>3
  <2>2. s \in Queues /\ SameControl(p, s) /\ SamePending(p, s)
    BY <1>2, ReplayPendingOutboundIs
  <2> HIDE DEF s
  <2>3. /\ snapshots \in Seq(Ops) /\ Sorted(snapshots) /\ p.pending \in Seq(Ops)
        /\ SeqsOf(snapshots) = Keys(OpsOf(snapshots))
        /\ SeqsOf(p.pending) = Keys(OpsOf(p.pending))
        /\ \A a \in SeqsOf(snapshots) : a < p.next
        /\ \A a \in SeqsOf(snapshots), b \in SeqsOf(p.pending) : a < b
    BY <1>2, QueueFields, OpsAreOps DEF Types, SnapshotTypes
  <2>4. /\ \A op \in OpsOf(snapshots) : op.seq < s.next
        /\ \A x \in OpsOf(snapshots), y \in OpsOf(s.pending) : x.seq < y.seq
    BY <2>2, <2>3 DEF Keys, SamePending
  <2>5. /\ t \in Queues /\ SameControl(s, t) /\ t.next = s.next
        /\ t.pending = snapshots \o s.pending
    BY <2>2, <2>3, <2>4, ReplayedIs
  <2> HIDE DEF t
  <2>6. t \in ProducerState
    BY <2>5, QueueFields
  <2>7. /\ p' \in ProducerState /\ SameQueue(t, p') /\ p'.open_request_id = NoReq
        /\ p'.broker_ready /\ p'.closed = t.closed /\ p'.has_ever_attached
    BY ONLY <2>1, <2>6 DEF ProducerState, SameQueue, NoReq
  <2>8. p' \in Queues /\ p'.next = p.next /\ p'.pending = snapshots \o p.pending
    BY <2>2, <2>5, <2>7, ControlAssigned DEF SameQueue, SamePending
  <2>9. SeqsOf(p'.pending) = HeldSeqs
    <3>1. OpsOf(p'.pending) = OpsOf(snapshots) \cup OpsOf(p.pending) /\ p'.pending \in Seq(Ops)
      BY <2>3, <2>8, JoinOps
    <3>2. SeqsOf(p'.pending) = Keys(OpsOf(p'.pending))
      BY <3>1, OpsAreOps
    <3> QED
      BY <2>3, <3>1, <3>2 DEF Keys, HeldSeqs
  <2>10. SeqsOf(snapshots') = {} /\ HeldSeqs' = HeldSeqs
    BY <2>1, <2>9, NoOps DEF HeldSeqs
  <2>11. SnapshotTypes' /\ FutTypes'
    BY <1>1, <2>1, <2>10, NoOps DEF SnapshotTypes, Types, FutTypes, futVars
  <2>12. Keeps({}, "error")
    BY <1>1, <2>8, <2>10, NoSettlement DEF Keeps, Types
  <2>13. ClientTypes'
    BY <1>2, <2>8, <2>11 DEF ClientTypes
  <2>14. known /\ p.open_request_id = r /\ t.closed = p.closed
    BY <1>3, <2>2, <2>5 DEF OpenIsCurrent, SameControl
  <2> QED
    BY <1>1, <2>7, <2>12, <2>13, <2>14
<1>4. CASE ~OpenIsCurrent(r)
  <2>1. UNCHANGED <<p, snapshots>>
    BY <1>4
  <2>2. p' \in ProducerState /\ SameQueue(p, p')
    BY <1>2, <2>1 DEF SameQueue
  <2>3. ClientTypes' /\ Keeps({}, "error")
    BY <1>1, <1>2, <2>1, <2>2, ControlEffect
  <2> QED
    BY <1>1, <2>1, <2>3 DEF Narrows, Steady
<1> QED
  BY <1>3, <1>4

(* reset: batched sends fail, the others are set aside. *)
LEMMA ResetEffect ==
    ASSUME Types, Reset
    PROVE  /\ ClientTypes' /\ conn = "lost" /\ conn' = "handshaking" /\ nextReq' = nextReq
           /\ wire' = <<>> /\ Narrows /\ Steady /\ (known' => ~p'.broker_ready)
           /\ \E K : Keeps(K, "error")
<1> USE DEF Reset
<1>1. /\ UNCHANGED <<known, nextReq, flush>> /\ requests' \in [Requests -> Kinds]
      /\ conn = "lost" /\ conn' = "handshaking" /\ wire' = <<>> /\ slab' = {}
      /\ retry' \in {retry, NoReq}
  BY DEF Kinds
<1>2. /\ ConnTypes' /\ wire' \in Seq(LiveFrames(p.next)) /\ p \in Queues
  BY <1>1 DEF Types, ConnTypes, ConnStates
<1>3. FutTypes
  BY DEF Types
<1>4. CASE known
  <2> DEFINE t == Drained(p)
             whole == {op \in OpsOf(p.pending) : Replayable(op)}
             K == Keys(Dropped(p))
             awake == WokenBy(OpsOf(p.pending)) \cup (slab \ SeqsOf(p.pending))
  <2>1. /\ p' = [t EXCEPT !.broker_ready = FALSE]
        /\ snapshots' = snapshots \o Snapshots(p)
        /\ outcomes' = Record(K, "error") /\ fut' = Wake(awake)
    BY <1>4
  <2>2. /\ t \in Queues /\ SameControl(p, t) /\ t.next = p.next /\ t.pending = <<>>
    BY <1>2, DrainedIs
  <2> HIDE DEF t
  <2>3. t \in ProducerState
    BY <2>2, QueueFields
  <2>4. /\ p' \in ProducerState /\ SameQueue(t, p') /\ p'.open_request_id = t.open_request_id
        /\ ~p'.broker_ready /\ p'.closed = t.closed
        /\ p'.has_ever_attached = t.has_ever_attached
    BY ONLY <2>1, <2>3 DEF ProducerState, SameQueue
  <2>5. p' \in Queues /\ p'.next = p.next /\ p'.pending = <<>>
    BY <2>2, <2>4, ControlAssigned DEF SameQueue
  <2>6. /\ Snapshots(p) \in Seq(Ops) /\ Sorted(Snapshots(p)) /\ SeqsOf(Snapshots(p)) = Keys(whole)
    BY <1>2, SnapshotsAre
  <2>7. /\ snapshots \in Seq(Ops) /\ Sorted(snapshots) /\ p.pending \in Seq(Ops)
        /\ Sorted(p.pending)
        /\ SeqsOf(snapshots) = Keys(OpsOf(snapshots)) /\ SeqsOf(snapshots) \subseteq Seqs
        /\ SeqsOf(p.pending) = Keys(OpsOf(p.pending)) /\ SeqsOf(p.pending) \subseteq Seqs
        /\ \A a \in SeqsOf(snapshots) : a < p.next
        /\ \A a \in SeqsOf(snapshots), b \in SeqsOf(p.pending) : a < b
        /\ \A op \in OpsOf(p.pending) : op.seq < p.next
        /\ SeqsOf(Snapshots(p)) = Keys(OpsOf(Snapshots(p)))
    BY <1>2, <2>6, QueueFields, OpsAreOps DEF Types, SnapshotTypes
  <2>8. Keys(whole) \subseteq SeqsOf(p.pending) /\ K \subseteq SeqsOf(p.pending)
    BY <2>7 DEF Keys, Dropped
  <2>9. \A x \in OpsOf(snapshots), y \in OpsOf(Snapshots(p)) : x.seq < y.seq
    BY <2>6, <2>7, <2>8 DEF Keys
  <2>10. /\ snapshots' \in Seq(Ops) /\ Sorted(snapshots')
         /\ OpsOf(snapshots') = OpsOf(snapshots) \cup OpsOf(Snapshots(p))
    BY <2>1, <2>6, <2>7, <2>9, JoinOps
  <2>11. SeqsOf(snapshots') = SeqsOf(snapshots) \cup Keys(whole)
    <3>1. SeqsOf(snapshots') = Keys(OpsOf(snapshots'))
      BY <2>10, OpsAreOps
    <3>2. \A A, B : Keys(A \cup B) = Keys(A) \cup Keys(B)
      BY DEF Keys
    <3>3. SeqsOf(snapshots') = Keys(OpsOf(snapshots)) \cup Keys(OpsOf(Snapshots(p)))
      BY <2>10, <3>1, <3>2
    <3> QED
      BY <2>6, <2>7, <3>3
  <2>12. \A n \in Seqs : n \in Nat
    BY SendsAssumption DEF Seqs
  <2>13. SeqsOf(p.pending) = Keys(whole) \cup K /\ Keys(whole) \cap K = {}
    <3>1. \A x, y \in OpsOf(p.pending) : x.seq = y.seq => x = y
      <4> SUFFICES ASSUME NEW i \in 1..Len(p.pending), NEW j \in 1..Len(p.pending),
                          p.pending[i].seq = p.pending[j].seq
                   PROVE  i = j
        BY DEF OpsOf
      <4>1. Len(p.pending) \in Nat /\ p.pending[i].seq \in SeqsOf(p.pending)
        BY <2>7 DEF SeqsOf
      <4> QED
        BY SMTT(40), <2>7, <2>12, <4>1 DEF Sorted
    <3> QED
      BY <2>7, <3>1 DEF Keys, Dropped
  <2>14. SeqsOf(snapshots) \cap SeqsOf(p.pending) = {}
    BY <2>7, <2>12
  <2>15. SeqsOf(p'.pending) = {}
    BY <2>5, NoOps
  <2>16. HeldSeqs' = HeldSeqs \ K /\ K \subseteq HeldSeqs
    BY <2>8, <2>11, <2>13, <2>14, <2>15 DEF HeldSeqs
  <2>17. SnapshotTypes'
    <3>1. \A a \in SeqsOf(p.pending) : a < p.next
      BY <2>7 DEF Keys
    <3>2. \A a \in SeqsOf(snapshots') : a < p'.next
      BY <2>5, <2>7, <2>8, <2>11, <3>1
    <3> QED
      BY <2>10, <2>15, <3>2 DEF SnapshotTypes
  <2> HIDE DEF K, awake
  <2>18. Settles(K, "error")
    <3>1. "error" \in Results /\ slab' \subseteq Seqs
      BY <1>1 DEF Results
    <3> QED
      BY <1>3, <2>1, <3>1, WakeType, RecordType DEF Settles, Woken, FutTypes
  <2>19. Keeps(K, "error")
    BY <2>5, <2>16, <2>18 DEF Keeps
  <2>20. ClientTypes'
    BY <1>2, <2>5, <2>17, <2>18 DEF ClientTypes, Settles
  <2> QED
    BY <1>1, <2>2, <2>4, <2>19, <2>20 DEF Narrows, Steady, SameControl
<1>5. CASE ~known
  <2>1. fut' = Wake(slab) /\ UNCHANGED <<p, snapshots, outcomes>>
    BY <1>5
  <2>2. FutTypes' /\ Woken
    BY <1>1, <1>3, <2>1, WakeType DEF Woken, FutTypes
  <2>3. Settles({}, "error")
    BY <2>1, <2>2 DEF Settles
  <2>4. SnapshotTypes' /\ HeldSeqs' = HeldSeqs
    BY <2>1 DEF Types, SnapshotTypes, HeldSeqs
  <2>5. Keeps({}, "error")
    BY <2>1, <2>3, <2>4 DEF Keeps
  <2>6. ClientTypes'
    BY <1>2, <2>1, <2>2, <2>4 DEF ClientTypes
  <2> QED
    BY <1>1, <1>5, <2>1, <2>5, <2>6 DEF Narrows, Steady
<1> QED
  BY <1>4, <1>5

(* rebuild_producers *)
Forgets == p' = p /\ snapshots' = <<>> /\ UNCHANGED futVars

LEMMA RebuildEffect ==
    ASSUME Types, RebuildProducers
    PROVE  /\ ClientTypes' /\ conn = "rebuilding" /\ conn' = "connected" /\ Steady
           /\ \/ Reopens /\ Keeps({}, "error") /\ p'.broker_ready = p.broker_ready
              \/ Narrows /\ UNCHANGED <<nextReq, wire>> /\ Forgets /\ (~known \/ p.closed)
<1> USE DEF RebuildProducers
<1>1. /\ conn = "rebuilding" /\ conn' = "connected" /\ UNCHANGED <<known, retry, futVars, flush>>
      /\ p \in ProducerState
  BY QueueFields DEF Types
<1>2. CASE known /\ ~p.closed
  <2>1. /\ Request("open", "Producer") /\ UNCHANGED snapshots
        /\ p' = [p EXCEPT !.open_request_id = nextReq]
    BY <1>2
  <2>2. /\ nextReq \in Requests /\ nextReq' = nextReq + 1 /\ nextReq' \in Nat \ {0}
        /\ requests' \in [Requests -> Kinds]
        /\ wire' = Append(wire, Frame("Producer", nextReq))
        /\ wire' \in Seq(LiveFrames(p.next))
    BY <2>1, RequestTypes DEF Kinds
  <2>3. /\ p' \in ProducerState /\ SameQueue(p, p') /\ p'.open_request_id = nextReq
        /\ p'.broker_ready = p.broker_ready /\ p'.closed = p.closed
        /\ p'.has_ever_attached = p.has_ever_attached
    BY ONLY <1>1, <2>1, <2>2 DEF ProducerState, SameQueue
  <2>4. ConnTypes'
    BY <1>1, <2>2 DEF Types, ConnTypes, ConnStates
  <2>5. ClientTypes' /\ Keeps({}, "error")
    BY <1>1, <2>1, <2>2, <2>3, <2>4, ControlEffect
  <2> QED
    BY <1>1, <1>2, <2>2, <2>3, <2>5 DEF Reopens, Steady
<1>3. CASE ~(known /\ ~p.closed)
  <2>1. snapshots' = <<>> /\ UNCHANGED <<p, nextReq, requests, wire>>
    BY <1>3
  <2>2. SnapshotTypes'
    BY <2>1, NoOps DEF SnapshotTypes
  <2>3. ClientTypes'
    BY <1>1, <2>1, <2>2 DEF ClientTypes, Types, ConnTypes, ConnStates, FutTypes, futVars
  <2> QED
    BY <1>1, <1>3, <2>1, <2>3 DEF Narrows, Steady, Forgets
<1> QED
  BY <1>2, <1>3

(* fail_all_pending *)
LEMMA GiveUpEffect ==
    ASSUME Types, FailAllPending
    PROVE  /\ ClientTypes' /\ conn' = "failed" /\ UNCHANGED <<nextReq, wire>>
           /\ p'.next = p.next /\ p'.open_request_id = p.open_request_id
<1> USE DEF FailAllPending
<1> DEFINE ops == (IF known THEN OpsOf(p.pending) ELSE {}) \cup OpsOf(snapshots)
           K == Keys(ops) \cup slab
           awake == WokenBy(ops) \cup (slab \ Keys(ops))
           s == [p EXCEPT !.closed = TRUE]
<1>1. /\ conn' = "failed" /\ UNCHANGED <<known, nextReq, retry, wire, flush>>
      /\ requests' \in [Requests -> Kinds] /\ slab' = {} /\ snapshots' = <<>>
      /\ outcomes' = Record(K, "terminal") /\ fut' = Wake(awake)
      /\ p' = IF known THEN Drained(s) ELSE p
  BY DEF Kinds
<1>2. p \in ProducerState /\ p \in Queues /\ FutTypes
  BY QueueFields DEF Types
<1>3. s \in ProducerState /\ SameQueue(p, s) /\ s.open_request_id = p.open_request_id
  BY ONLY <1>2 DEF ProducerState, SameQueue, s
<1> HIDE DEF s, K, awake
<1>4. s \in Queues
  BY <1>2, <1>3, ControlAssigned
<1>5. p' \in Queues /\ p'.next = p.next /\ p'.open_request_id = p.open_request_id
  BY <1>1, <1>2, <1>3, <1>4, DrainedIs DEF SameQueue, SameControl
<1>6. FutTypes'
  <2>1. "terminal" \in Results /\ slab' \subseteq Seqs
    BY <1>1 DEF Results
  <2> QED
    BY <1>1, <1>2, <2>1, WakeType, RecordType DEF FutTypes
<1>7. SnapshotTypes'
  BY <1>1, NoOps DEF SnapshotTypes
<1>8. ConnTypes' /\ wire' \in Seq(LiveFrames(p'.next))
  BY <1>1, <1>5 DEF Types, ConnTypes, ConnStates
<1> QED
  BY <1>1, <1>5, <1>6, <1>7, <1>8 DEF ClientTypes

-----------------------------------------------------------------------------
(* The two wires and the log.                                              *)

In(list) == {list[i] : i \in 1..Len(list)}

LEMMA InList ==
    ASSUME NEW S, NEW list \in Seq(S)
    PROVE  /\ In(list) \subseteq S /\ In(<<>>) = {}
           /\ \A x \in S : Append(list, x) \in Seq(S) /\ In(Append(list, x)) = In(list) \cup {x}
           /\ \A more \in Seq(S) : In(list \o more) = In(list) \cup In(more)
           /\ list # <<>> => /\ Head(list) \in In(list) /\ Tail(list) \in Seq(S)
                             /\ In(list) = {Head(list)} \cup In(Tail(list))
<1>1. In(list) \subseteq S /\ In(<<>>) = {}
  BY DEF In
<1>2. ASSUME NEW x \in S
      PROVE  Append(list, x) \in Seq(S) /\ In(Append(list, x)) = In(list) \cup {x}
  <2> DEFINE all == Append(list, x)
  <2>1. /\ all \in Seq(S) /\ Len(all) = Len(list) + 1 /\ Len(list) \in Nat
        /\ \A i \in 1..Len(list) : all[i] = list[i]
        /\ all[Len(list) + 1] = x
    OBVIOUS
  <2> HIDE DEF all
  <2>2. 1..Len(all) = 1..Len(list) \cup {Len(list) + 1}
    BY <2>1
  <2>3. In(all) = In(list) \cup {x}
    BY <2>1, <2>2 DEF In
  <2> QED
    BY <2>1, <2>3 DEF all
<1>3. ASSUME NEW more \in Seq(S) PROVE In(list \o more) = In(list) \cup In(more)
  <2> DEFINE all == list \o more
  <2>1. /\ Len(all) = Len(list) + Len(more) /\ Len(list) \in Nat /\ Len(more) \in Nat
        /\ \A i \in 1..Len(list) : all[i] = list[i]
        /\ \A i \in 1..Len(more) : all[Len(list) + i] = more[i]
        /\ \A i \in 1..Len(all) : i \notin 1..Len(list) =>
              i - Len(list) \in 1..Len(more) /\ all[i] = more[i - Len(list)]
    OBVIOUS
  <2> HIDE DEF all
  <2>2. ASSUME NEW i \in 1..Len(all) PROVE all[i] \in In(list) \cup In(more)
    BY <2>1 DEF In
  <2>3. ASSUME NEW i \in 1..Len(list) PROVE list[i] \in In(all)
    <3>1. i \in 1..Len(all) /\ all[i] = list[i]
      BY <2>1
    <3> QED
      BY <3>1 DEF In
  <2>4. ASSUME NEW i \in 1..Len(more) PROVE more[i] \in In(all)
    <3>1. Len(list) + i \in 1..Len(all) /\ all[Len(list) + i] = more[i]
      BY <2>1
    <3> QED
      BY <3>1 DEF In
  <2>5. In(all) \subseteq In(list) \cup In(more)
    BY <2>2 DEF In
  <2>6. In(list) \subseteq In(all) /\ In(more) \subseteq In(all)
    BY <2>3, <2>4 DEF In
  <2> QED
    BY <2>5, <2>6 DEF all
<1>4. ASSUME list # <<>>
      PROVE  /\ Head(list) \in In(list) /\ Tail(list) \in Seq(S)
             /\ In(list) = {Head(list)} \cup In(Tail(list))
  <2> DEFINE rest == Tail(list)
  <2>1. /\ rest \in Seq(S) /\ Len(list) \in Nat /\ Len(list) >= 1
        /\ Len(rest) = Len(list) - 1 /\ Head(list) = list[1]
        /\ \A i \in 1..Len(rest) : rest[i] = list[i + 1]
    BY <1>4
  <2> HIDE DEF rest
  <2>2. ASSUME NEW i \in 1..Len(list) PROVE list[i] \in {Head(list)} \cup In(rest)
    <3>1. CASE i = 1
      BY <2>1, <3>1
    <3>2. CASE i # 1
      <4>1. i - 1 \in 1..Len(rest) /\ rest[i - 1] = list[i]
        BY <2>1, <3>2
      <4> QED
        BY <4>1 DEF In
    <3> QED
      BY <3>1, <3>2
  <2>3. ASSUME NEW i \in 1..Len(rest) PROVE rest[i] \in In(list)
    <3>1. i + 1 \in 1..Len(list) /\ rest[i] = list[i + 1]
      BY <2>1
    <3> QED
      BY <3>1 DEF In
  <2>4. Head(list) \in In(list)
    <3>1. 1 \in 1..Len(list)
      BY <2>1
    <3> QED
      BY <2>1, <3>1 DEF In
  <2>5. In(list) \subseteq {Head(list)} \cup In(rest)
    BY <2>2 DEF In
  <2>6. In(rest) \subseteq In(list)
    BY <2>3 DEF In
  <2> QED
    BY <2>1, <2>4, <2>5, <2>6 DEF rest
<1> QED
  BY <1>1, <1>2, <1>3, <1>4

(* Opens are numbered in order and no send follows an open on the wire. *)
Opens(f) == f.type = "Producer"
Ordered(w) ==
    \A i, j \in 1..Len(w) : i < j /\ Opens(w[i]) =>
       w[j].type # "Send" /\ (Opens(w[j]) => w[i].arg < w[j].arg)

NoOpen(w) == \A f \in In(w) : ~Opens(f)
OpensBelow(w, n) == \A f \in In(w) : Opens(f) => f.arg < n
HasSend(w) == \E f \in In(w) : f.type = "Send"

LEMMA OrderedTail ==
    ASSUME NEW S, NEW w \in Seq(S), w # <<>>, Ordered(w)
    PROVE  /\ Ordered(Tail(w))
           /\ Opens(Head(w)) => /\ ~HasSend(Tail(w))
                                /\ \A f \in In(Tail(w)) : Opens(f) => Head(w).arg < f.arg
<1> DEFINE rest == Tail(w)
<1>1. /\ rest \in Seq(S) /\ Len(w) \in Nat /\ Len(w) >= 1 /\ Len(rest) = Len(w) - 1
      /\ Head(w) = w[1] /\ \A i \in 1..Len(rest) : rest[i] = w[i + 1]
  OBVIOUS
<1> HIDE DEF rest
<1>2. \A i \in 1..Len(rest) : i + 1 \in 1..Len(w) /\ 1 \in 1..Len(w) /\ 1 < i + 1
  BY <1>1
<1>3. Ordered(rest)
  <2> SUFFICES ASSUME NEW i \in 1..Len(rest), NEW j \in 1..Len(rest), i < j, Opens(rest[i])
               PROVE  rest[j].type # "Send" /\ (Opens(rest[j]) => rest[i].arg < rest[j].arg)
    BY DEF Ordered
  <2>1. i + 1 < j + 1 /\ rest[i] = w[i + 1] /\ rest[j] = w[j + 1]
    BY <1>1
  <2> QED
    BY <1>2, <2>1 DEF Ordered
<1>4. ASSUME Opens(Head(w)), NEW i \in 1..Len(rest)
      PROVE  rest[i].type # "Send" /\ (Opens(rest[i]) => Head(w).arg < rest[i].arg)
  BY <1>1, <1>2, <1>4 DEF Ordered
<1> QED
  BY <1>3, <1>4 DEF rest, In, HasSend

LEMMA OrderedAppend ==
    ASSUME NEW S, NEW w \in Seq(S), NEW x \in S, Ordered(w), x.type # "Send",
           Opens(x) => OpensBelow(w, x.arg)
    PROVE  Ordered(Append(w, x))
<1> DEFINE all == Append(w, x)
<1>1. /\ all \in Seq(S) /\ Len(all) = Len(w) + 1 /\ Len(w) \in Nat
      /\ \A i \in 1..Len(w) : all[i] = w[i]
      /\ all[Len(w) + 1] = x
  OBVIOUS
<1> HIDE DEF all
<1> SUFFICES ASSUME NEW i \in 1..Len(all), NEW j \in 1..Len(all), i < j, Opens(all[i])
             PROVE  all[j].type # "Send" /\ (Opens(all[j]) => all[i].arg < all[j].arg)
  BY DEF Ordered, all
<1>2. i \in 1..Len(w) /\ all[i] = w[i] /\ w[i] \in In(w)
  BY <1>1 DEF In
<1>3. CASE j \in 1..Len(w)
  BY <1>1, <1>2, <1>3 DEF Ordered
<1>4. CASE j = Len(w) + 1
  BY <1>1, <1>2, <1>4 DEF OpensBelow
<1> QED
  BY <1>1, <1>3, <1>4

LEMMA OrderedSends ==
    ASSUME NEW S, NEW w \in Seq(S), NEW more \in Seq(S), NoOpen(w), NoOpen(more)
    PROVE  Ordered(w \o more) /\ NoOpen(w \o more)
<1> DEFINE all == w \o more
<1>1. In(all) = In(w) \cup In(more)
  BY InList
<1> HIDE DEF all
<1>2. NoOpen(all)
  BY <1>1 DEF NoOpen
<1>3. Ordered(all)
  BY <1>2 DEF NoOpen, Ordered, In
<1> QED
  BY <1>2, <1>3 DEF all

-----------------------------------------------------------------------------
(* The gate: a send is on the wire only while the broker holds the         *)
(* producer, and an answered open is the last one on the wire.             *)

Live == conn \notin {"lost", "failed"}

WireInv ==
    Live => /\ Ordered(wire)
            /\ OpensBelow(wire, nextReq)
            /\ known => OpensBelow(wire, p.open_request_id + 1)
            /\ HasSend(wire) => reg # "none"

FreshInv ==
    /\ known => p.open_request_id < nextReq
    /\ \A f \in In(inbound) : f.type = "ProducerSuccess" => f.arg < nextReq

DownInv ==
    conn # "connected" => /\ inbound = <<>> /\ reg = "none"
                          /\ Live /\ known => ~p.broker_ready

OpenAnswer == Frame("ProducerSuccess", p.open_request_id)
AttachedInv ==
    conn = "connected" /\ known =>
       /\ p.broker_ready => NoOpen(wire) /\ reg # "none" /\ p.open_request_id = NoReq
       /\ OpenAnswer \in In(inbound) => NoOpen(wire) /\ reg # "none"

GateInv == WireInv /\ FreshInv /\ DownInv /\ AttachedInv

LEMMA LinkFacts ==
    ASSUME Types
    PROVE  /\ nextReq \in Nat /\ p.open_request_id \in Nat /\ known \in BOOLEAN
           /\ p.broker_ready \in BOOLEAN /\ conn \in ConnStates
           /\ wire \in Seq(LiveFrames(p.next)) /\ inbound \in Seq(Answers(p.next))
           /\ \A f \in In(wire) : Opens(f) => f.arg \in Requests /\ f.arg \in Nat
           /\ \A f \in In(inbound) : f.type = "ProducerSuccess" => f.arg \in Requests /\ f.arg \in Nat
<1>1. \A r \in Requests : r \in Nat
  BY RequestsAssumption DEF Requests
<1>2. /\ wire \in Seq(LiveFrames(p.next)) /\ inbound \in Seq(Answers(p.next)) /\ p \in Queues
  BY DEF Types
<1>3. In(wire) \subseteq LiveFrames(p.next)
  BY <1>2, InList
<1>4. In(inbound) \subseteq Answers(p.next)
  BY <1>2, InList
<1>5. p.open_request_id \in Requests \cup {NoReq} /\ p.broker_ready \in BOOLEAN
  BY <1>2, QueueFields
<1>6. \A f \in In(wire) : Opens(f) => f.arg \in Requests
  BY <1>3 DEF LiveFrames, Sends, Opens
<1>7. \A f \in In(inbound) : f.type = "ProducerSuccess" => f.arg \in Requests
  BY <1>4 DEF Answers
<1> QED
  BY <1>1, <1>2, <1>5, <1>6, <1>7 DEF Types, ConnTypes, NoReq

LEMMA TransmitsWire ==
    ASSUME Types, GateInv, Transmits
    PROVE  /\ In(wire) \subseteq In(wire')
           /\ \A f \in In(wire') : f \in In(wire) \/ f.type = "Send"
           /\ Live => Ordered(wire')
           /\ Live /\ HasSend(wire') => reg # "none"
<1>1. PICK sends \in Seq(Sends(p.next)) :
         wire' = wire \o sends /\ (sends # <<>> => GateOpen(p))
  BY DEF Transmits
<1>2. wire \in Seq(LiveFrames(p.next))
  BY DEF Types
<1>3. sends \in Seq(LiveFrames(p.next)) /\ In(sends) \subseteq Sends(p.next)
  BY SeqMonotone, InList DEF LiveFrames
<1>4. In(wire') = In(wire) \cup In(sends)
  BY <1>1, <1>2, <1>3, InList
<1>5. \A f \in In(sends) : f.type = "Send" /\ ~Opens(f)
  BY <1>3 DEF Sends, Opens
<1>6. CASE sends = <<>>
  <2>1. wire' = wire
    BY <1>1, <1>2, <1>6
  <2> QED
    BY <2>1 DEF GateInv, WireInv
<1>7. CASE sends # <<>>
  <2>1. known /\ p.broker_ready /\ IsConnected
    BY <1>1, <1>7 DEF GateOpen
  <2>2. conn = "connected"
    BY <2>1 DEF GateInv, DownInv, IsConnected, Live
  <2>3. NoOpen(wire) /\ reg # "none"
    BY <2>1, <2>2 DEF GateInv, AttachedInv
  <2>4. NoOpen(sends)
    BY <1>5 DEF NoOpen
  <2>5. Ordered(wire')
    BY <1>1, <1>2, <1>3, <2>3, <2>4, OrderedSends
  <2> QED
    BY <1>4, <1>5, <2>3, <2>5
<1> QED
  BY <1>6, <1>7

LEMMA GateNarrow ==
    ASSUME Types, GateInv, Narrows, conn' = conn, nextReq' = nextReq, Transmits, reg' = reg,
           inbound' = inbound \/ conn = "connected", In(inbound') \subseteq In(inbound)
    PROVE  GateInv'
<1>1. /\ \A f \in In(wire') : f \in In(wire) \/ f.type = "Send"
      /\ Live => Ordered(wire')
      /\ Live /\ HasSend(wire') => reg # "none"
  BY TransmitsWire
<1>2. \A f \in In(wire') : Opens(f) => f \in In(wire)
  BY <1>1 DEF Opens
<1>3. /\ \A n : OpensBelow(wire, n) => OpensBelow(wire', n)
      /\ NoOpen(wire) => NoOpen(wire')
  BY <1>2 DEF OpensBelow, NoOpen
<1>4. WireInv'
  BY <1>1, <1>3 DEF GateInv, WireInv, Narrows, Live
<1>5. FreshInv'
  BY DEF GateInv, FreshInv, Narrows
<1>6. DownInv'
  BY DEF GateInv, DownInv, Narrows, Live
<1>7. AttachedInv'
  BY <1>3 DEF GateInv, AttachedInv, Narrows, OpenAnswer
<1> QED
  BY <1>4, <1>5, <1>6, <1>7 DEF GateInv

LEMMA GateClose ==
    ASSUME Types, GateInv, Narrows, nextReq' = nextReq + 1, nextReq \in Requests,
           wire' = Append(wire, Frame("CloseProducer", nextReq)),
           UNCHANGED <<conn, inbound, reg>>
    PROVE  GateInv'
<1> DEFINE f == Frame("CloseProducer", nextReq)
<1>1. f.type = "CloseProducer" /\ f \in LiveFrames(p.next) /\ ~Opens(f)
  BY DEF Frame, LiveFrames, Opens
<1>2. wire' = Append(wire, f) /\ wire \in Seq(LiveFrames(p.next))
  BY LinkFacts
<1> HIDE DEF f
<1>3. In(wire') = In(wire) \cup {f}
  BY <1>1, <1>2, InList
<1>4. Ordered(wire) => Ordered(wire')
  BY <1>1, <1>2, OrderedAppend
<1>5. /\ \A n : OpensBelow(wire, n) => OpensBelow(wire', n)
      /\ NoOpen(wire) => NoOpen(wire')
      /\ HasSend(wire') => HasSend(wire)
  BY <1>1, <1>3 DEF OpensBelow, NoOpen, HasSend
<1>6. OpensBelow(wire, nextReq) => OpensBelow(wire, nextReq')
  BY LinkFacts DEF OpensBelow
<1>7. WireInv'
  BY <1>4, <1>5, <1>6 DEF GateInv, WireInv, Narrows, Live
<1>8. FreshInv'
  BY LinkFacts DEF GateInv, FreshInv, Narrows
<1>9. DownInv'
  BY DEF GateInv, DownInv, Narrows, Live
<1>10. AttachedInv'
  BY <1>5 DEF GateInv, AttachedInv, Narrows, OpenAnswer
<1> QED
  BY <1>7, <1>8, <1>9, <1>10 DEF GateInv

LEMMA GateReopen ==
    ASSUME Types, GateInv, Reopens, ~p'.broker_ready, Live,
           conn' = conn \/ (conn = "rebuilding" /\ conn' = "connected"),
           reg' = reg, inbound' = inbound \/ conn = "connected", In(inbound') \subseteq In(inbound)
    PROVE  GateInv'
<1> DEFINE f == Frame("Producer", nextReq)
<1>0. /\ known /\ known' /\ nextReq \in Requests /\ nextReq' = nextReq + 1
      /\ p'.open_request_id = nextReq /\ wire' = Append(wire, f) /\ nextReq \in Nat
  BY LinkFacts DEF Reopens
<1>1. f.type = "Producer" /\ f.arg = nextReq /\ f \in LiveFrames(p.next)
  BY <1>0 DEF Frame, LiveFrames
<1>2. wire \in Seq(LiveFrames(p.next))
  BY LinkFacts
<1> HIDE DEF f
<1>3. In(wire') = In(wire) \cup {f}
  BY <1>0, <1>1, <1>2, InList
<1>4. Ordered(wire) /\ OpensBelow(wire, nextReq) /\ (HasSend(wire) => reg # "none")
  BY DEF GateInv, WireInv
<1>5. Ordered(wire')
  BY <1>0, <1>1, <1>2, <1>4, OrderedAppend DEF Opens
<1>6. OpensBelow(wire', nextReq + 1)
  BY <1>0, <1>1, <1>3, <1>4, LinkFacts DEF OpensBelow
<1>7. HasSend(wire') => HasSend(wire)
  BY <1>1, <1>3 DEF HasSend
<1>8. WireInv'
  BY <1>0, <1>4, <1>5, <1>6, <1>7 DEF WireInv
<1>9. FreshInv'
  BY <1>0, LinkFacts DEF GateInv, FreshInv
<1>10. DownInv'
  BY DEF GateInv, DownInv, Live
<1>11. OpenAnswer' \notin In(inbound')
  <2>1. OpenAnswer'.type = "ProducerSuccess" /\ OpenAnswer'.arg = nextReq
    BY <1>0 DEF OpenAnswer, Frame
  <2>2. ~(nextReq < nextReq)
    BY <1>0
  <2> QED
    BY <2>1, <2>2 DEF GateInv, FreshInv
<1>12. AttachedInv'
  BY <1>11 DEF AttachedInv
<1> QED
  BY <1>8, <1>9, <1>10, <1>12 DEF GateInv

LEMMA GateAttach ==
    ASSUME Types, GateInv, conn = "connected", known, inbound # <<>>, Head(inbound) = OpenAnswer,
           p'.open_request_id = NoReq, inbound' = Tail(inbound),
           UNCHANGED <<known, conn, nextReq, wire, reg>>
    PROVE  GateInv'
<1>1. inbound \in Seq(Answers(p.next)) /\ nextReq \in Nat
  BY LinkFacts
<1>2. In(inbound') \subseteq In(inbound) /\ OpenAnswer \in In(inbound)
  BY <1>1, InList
<1>3. NoOpen(wire) /\ reg # "none"
  BY <1>2 DEF GateInv, AttachedInv
<1>4. OpenAnswer.type = "ProducerSuccess"
  BY DEF OpenAnswer, Frame
<1>5. NoReq < nextReq
  <2>1. nextReq # 0
    BY DEF Types, ConnTypes
  <2> QED
    BY <1>1, <2>1 DEF NoReq
<1>6. FreshInv'
  BY <1>2, <1>5 DEF GateInv, FreshInv
<1>7. WireInv'
  BY <1>3 DEF GateInv, WireInv, OpensBelow, NoOpen, Live
<1>8. DownInv'
  BY DEF DownInv
<1>9. AttachedInv'
  BY <1>3 DEF AttachedInv
<1> QED
  BY <1>6, <1>7, <1>8, <1>9 DEF GateInv

(* The broker takes a frame that is not an open. *)
LEMMA GateTakes ==
    ASSUME Types, GateInv, SameLink, conn = "connected", wire # <<>>, wire' = Tail(wire),
           reg # "none" => reg' # "none",
           \A f \in In(inbound') : f \in In(inbound) \/ f.type # "ProducerSuccess"
    PROVE  GateInv'
<1>1. wire \in Seq(LiveFrames(p.next))
  BY LinkFacts
<1>2. In(wire') \subseteq In(wire)
  BY <1>1, InList
<1>3. Ordered(wire')
  BY <1>1, OrderedTail DEF GateInv, WireInv, Live
<1>4. /\ \A n : OpensBelow(wire, n) => OpensBelow(wire', n)
      /\ NoOpen(wire) => NoOpen(wire')
      /\ HasSend(wire') => HasSend(wire)
  BY <1>2 DEF OpensBelow, NoOpen, HasSend
<1>5. /\ known' = known /\ conn' = conn /\ nextReq' = nextReq
      /\ p'.open_request_id = p.open_request_id /\ p'.broker_ready = p.broker_ready
      /\ OpenAnswer' = OpenAnswer /\ OpenAnswer.type = "ProducerSuccess"
  BY DEF SameLink, SameControl, OpenAnswer, Frame
<1>6. WireInv'
  BY <1>3, <1>4, <1>5 DEF GateInv, WireInv, Live
<1>7. FreshInv'
  BY <1>5 DEF GateInv, FreshInv
<1>8. DownInv'
  BY <1>5 DEF DownInv
<1>9. AttachedInv'
  BY <1>4, <1>5 DEF GateInv, AttachedInv
<1> QED
  BY <1>6, <1>7, <1>8, <1>9 DEF GateInv

(* The broker takes an open, and grants or refuses it. *)
LEMMA GateTakesOpen ==
    ASSUME Types, GateInv, SameLink, conn = "connected", wire # <<>>, wire' = Tail(wire),
           Opens(Head(wire)),
           \A f \in In(inbound') : \/ f \in In(inbound) \/ f.type # "ProducerSuccess"
                                   \/ f = Frame("ProducerSuccess", Head(wire).arg) /\ reg' = "attached"
    PROVE  GateInv'
<1> DEFINE r == Head(wire).arg
<1>1. wire \in Seq(LiveFrames(p.next)) /\ nextReq \in Nat /\ p.open_request_id \in Nat
  BY LinkFacts
<1>2. In(wire') \subseteq In(wire) /\ Head(wire) \in In(wire)
  BY <1>1, InList
<1>3. r \in Nat /\ \A f \in In(wire') : Opens(f) => f.arg \in Nat
  BY <1>2, LinkFacts
<1>4. /\ Ordered(wire) /\ OpensBelow(wire, nextReq)
      /\ known => OpensBelow(wire, p.open_request_id + 1)
  BY DEF GateInv, WireInv, Live
<1>5. /\ Ordered(wire') /\ ~HasSend(wire')
      /\ \A f \in In(wire') : Opens(f) => r < f.arg
  BY <1>1, <1>4, OrderedTail
<1>6. /\ known' = known /\ conn' = conn /\ nextReq' = nextReq
      /\ p'.open_request_id = p.open_request_id /\ p'.broker_ready = p.broker_ready
      /\ OpenAnswer' = OpenAnswer /\ OpenAnswer.type = "ProducerSuccess"
      /\ OpenAnswer.arg = p.open_request_id
  BY DEF SameLink, SameControl, OpenAnswer, Frame
<1>7. r < nextReq /\ (known => r < p.open_request_id + 1)
  BY <1>2, <1>4 DEF OpensBelow
<1>8. ~NoOpen(wire)
  BY <1>2 DEF NoOpen
<1>9. WireInv'
  BY <1>2, <1>4, <1>5, <1>6 DEF WireInv, OpensBelow
<1>10. FreshInv'
  <2>1. Frame("ProducerSuccess", Head(wire).arg).arg = r
    BY DEF Frame
  <2> QED
    BY <1>6, <1>7, <2>1 DEF GateInv, FreshInv
<1>11. DownInv'
  BY <1>6 DEF DownInv
<1>12. AttachedInv'
  <2> SUFFICES ASSUME known PROVE AttachedInv'
    BY <1>6 DEF AttachedInv
  <2>1. ~p.broker_ready /\ OpenAnswer \notin In(inbound)
    BY <1>8 DEF GateInv, AttachedInv
  <2>2. ASSUME OpenAnswer \in In(inbound') PROVE NoOpen(wire') /\ reg' # "none"
    <3>1. OpenAnswer = Frame("ProducerSuccess", r) /\ reg' = "attached"
      BY <1>6, <2>1, <2>2
    <3>2. r = p.open_request_id
      BY <1>6, <3>1 DEF Frame
    <3>3. \A f \in In(wire') : Opens(f) => f.arg < p.open_request_id + 1
      BY <1>2, <1>4 DEF OpensBelow
    <3> HIDE DEF r
    <3>4. NoOpen(wire')
      BY <1>1, <1>3, <1>5, <3>2, <3>3 DEF NoOpen
    <3> QED
      BY <3>1, <3>4
  <2> QED
    BY <1>6, <2>1, <2>2 DEF AttachedInv
<1> QED
  BY <1>9, <1>10, <1>11, <1>12 DEF GateInv

(* The connection goes down, comes up and is rebuilt. *)
LEMMA GateDown ==
    ASSUME Types, GateInv, conn' \in {"lost", "failed"}, nextReq' = nextReq,
           known' => known /\ p'.open_request_id = p.open_request_id,
           inbound' = <<>>, reg' = "none"
    PROVE  GateInv'
<1>1. In(inbound') = {}
  BY DEF In
<1> QED
  BY <1>1 DEF GateInv, WireInv, FreshInv, DownInv, AttachedInv, Live

LEMMA GateReset ==
    ASSUME Types, GateInv, conn = "lost", conn' = "handshaking", nextReq' = nextReq, wire' = <<>>,
           Narrows, known' => ~p'.broker_ready, UNCHANGED <<inbound, reg>>
    PROVE  GateInv'
<1>1. In(wire') = {} /\ Len(wire') = 0
  BY DEF In
<1>2. WireInv'
  BY <1>1 DEF WireInv, Ordered, OpensBelow, HasSend
<1> QED
  BY <1>2 DEF GateInv, FreshInv, DownInv, AttachedInv, Live, Narrows

LEMMA GateUp ==
    ASSUME Types, GateInv, Narrows, UNCHANGED <<nextReq, wire, inbound, reg>>,
           \/ conn = "handshaking" /\ conn' = "rebuilding"
           \/ conn = "rebuilding" /\ conn' = "connected"
    PROVE  GateInv'
<1>1. inbound = <<>> /\ In(inbound) = {} /\ (known => ~p.broker_ready)
  BY DEF GateInv, DownInv, Live, In
<1>2. WireInv'
  BY DEF GateInv, WireInv, Live, Narrows
<1> QED
  BY <1>1, <1>2 DEF GateInv, FreshInv, DownInv, AttachedInv, Live, Narrows

-----------------------------------------------------------------------------
(* The steps of the session.                                               *)

(* The broker answers with a receipt what it has persisted. *)
Persisted(f) == [frame |-> f, persisted |-> TRUE]
ReceiptInv == \A f \in In(inbound) : f.type = "SendReceipt" => Persisted(f.arg) \in In(log)

SessionInv == Types /\ GateInv /\ ReceiptInv

Confirms ==
    \E f \in In(inbound) :
       f.type = "SendReceipt" /\ \E K \in SUBSET (f.arg.lo..f.arg.hi) : Keeps(K, "receipt")
Fails == \E K : Keeps(K, "error") \/ Keeps(K, "terminal")
Stores ==
    \E f \in In(wire), persisted \in BOOLEAN :
       /\ f.type = "Send"
       /\ log' = Append(log, [frame |-> f.arg, persisted |-> persisted])
       /\ UNCHANGED <<p, snapshots, futVars>>

(* What a step does to the sends. *)
LedgerStep ==
    /\ \/ Accepts
       \/ \E q \in Seqs : Polled(q)
       \/ Confirms
       \/ Fails
       \/ Forgets /\ conn = "rebuilding" /\ (~known \/ p.closed)
       \/ "giveup" \in may /\ p'.next = p.next
    /\ log' = log \/ Stores

(* What a step does to the application's handle. *)
AttachStep ==
    /\ may' = may
    /\ known' => known
    /\ p.has_ever_attached => p'.has_ever_attached
    /\ p'.has_ever_attached => p.has_ever_attached \/ known
    /\ p.closed => p'.closed
    /\ known /\ ~known' => \/ p'.closed /\ HeldSeqs' = {}
                           \/ ~p.has_ever_attached /\ ~p'.has_ever_attached
    /\ known' /\ p'.closed => p.closed \/ "close" \in may \/ "giveup" \in may
    /\ conn' # "connected" => conn # "connected" \/ "disconnect" \in may

Stepped == SessionInv' /\ LedgerStep /\ AttachStep

LEMMA TypesLift ==
    ASSUME Types, ClientTypes', p'.next >= p.next,
           inbound' \in Seq(Answers(p.next)), log' \in Seq(Entries(p.next)),
           reg' \in {"none", "attached", "closed"}
    PROVE  Types'
<1>1. p.next \in Nat /\ p'.next \in Nat
  BY QueueFields DEF Types, ClientTypes
<1>2. Answers(p.next) \subseteq Answers(p'.next) /\ Entries(p.next) \subseteq Entries(p'.next)
  BY <1>1, SoundGrows
<1>3. inbound' \in Seq(Answers(p'.next)) /\ log' \in Seq(Entries(p'.next))
  BY <1>2, SeqMonotone
<1> QED
  BY <1>3 DEF Types, ClientTypes

LEMMA FailsIf ==
    \A K : Keeps(K, "error") \/ Keeps(K, "terminal") => Fails
BY Zenon DEF Fails

LEMMA NextGrows ==
    ASSUME Types
    PROVE  /\ Accepts => p'.next >= p.next
           /\ \A q : Polled(q) => p'.next >= p.next
           /\ \A K, result : Keeps(K, result) => p'.next >= p.next
           /\ Fails => p'.next >= p.next
<1>1. p.next \in Nat
  BY QueueFields DEF Types
<1> QED
  BY <1>1 DEF Accepts, Polled, Keeps, Fails

(* The frames read by the client stay, or the first one goes. *)
LEMMA ReadOne ==
    ASSUME SessionInv, log' = log,
           inbound' = inbound \/ (inbound # <<>> /\ inbound' = Tail(inbound))
    PROVE  /\ inbound' \in Seq(Answers(p.next)) /\ log' \in Seq(Entries(p.next))
           /\ In(inbound') \subseteq In(inbound) /\ ReceiptInv'
<1>1. inbound \in Seq(Answers(p.next)) /\ log \in Seq(Entries(p.next))
  BY DEF SessionInv, Types
<1>2. inbound' \in Seq(Answers(p.next)) /\ In(inbound') \subseteq In(inbound)
  <2>1. CASE inbound' = inbound
    BY <1>1, <2>1
  <2>2. CASE inbound # <<>> /\ inbound' = Tail(inbound)
    <3>1. /\ Tail(inbound) \in Seq(Answers(p.next))
          /\ In(inbound) = {Head(inbound)} \cup In(Tail(inbound))
      BY <1>1, <2>2, InList
    <3> QED
      BY <2>2, <3>1
  <2> QED
    BY <2>1, <2>2
<1> QED
  BY <1>1, <1>2 DEF SessionInv, ReceiptInv

(* A step of the application or the driver that leaves the attach protocol *)
(* alone, and the answers that concern sends.                              *)
LEMMA QuietStep ==
    ASSUME SessionInv, ClientTypes', SameLink, Transmits, UNCHANGED <<reg, log, may>>,
           inbound' = inbound \/ (conn = "connected" /\ inbound # <<>> /\ inbound' = Tail(inbound)),
           Accepts \/ (\E q \in Seqs : Polled(q)) \/ Confirms
             \/ Fails
    PROVE  Stepped
<1>1. Types /\ GateInv
  BY DEF SessionInv
<1>2. /\ inbound' \in Seq(Answers(p.next)) /\ log' \in Seq(Entries(p.next))
      /\ In(inbound') \subseteq In(inbound) /\ ReceiptInv'
  BY ReadOne
<1>3. p'.next >= p.next
  BY <1>1, NextGrows DEF Confirms
<1>4. Types'
  <2>1. reg' \in {"none", "attached", "closed"}
    BY <1>1 DEF Types
  <2> QED
    BY <1>1, <1>2, <1>3, <2>1, TypesLift
<1>5. Narrows /\ Steady /\ conn' = conn /\ nextReq' = nextReq
  BY SameLinkIs
<1>6. GateInv'
  BY <1>1, <1>2, <1>5, GateNarrow
<1>7. LedgerStep
  BY DEF LedgerStep
<1>8. AttachStep
  BY <1>5 DEF AttachStep, Steady
<1> QED
  BY <1>2, <1>4, <1>6, <1>7, <1>8 DEF Stepped, SessionInv

(* An answer to an open: the gate closes at most. *)
LEMMA NarrowStep ==
    ASSUME SessionInv, ClientTypes', Narrows, UNCHANGED <<conn, nextReq, wire, reg, log, may>>,
           inbound' = inbound \/ (conn = "connected" /\ inbound # <<>> /\ inbound' = Tail(inbound)),
           Fails,
           \/ Steady \/ Ends
           \/ /\ known /\ ~p.has_ever_attached /\ p'.has_ever_attached = p.has_ever_attached
              /\ p'.closed = p.closed
    PROVE  Stepped
<1>1. Types /\ GateInv
  BY DEF SessionInv
<1>2. /\ inbound' \in Seq(Answers(p.next)) /\ log' \in Seq(Entries(p.next))
      /\ In(inbound') \subseteq In(inbound) /\ ReceiptInv'
  BY ReadOne
<1>3. Types'
  <2>1. reg' \in {"none", "attached", "closed"} /\ p'.next >= p.next
    BY <1>1, NextGrows DEF Types
  <2> QED
    BY <1>1, <1>2, <2>1, TypesLift
<1>4. GateInv'
  BY <1>1, <1>2, NothingTransmits, GateNarrow
<1>5. LedgerStep
  BY DEF LedgerStep
<1>6. AttachStep
  <2>1. p.closed \in BOOLEAN /\ p.has_ever_attached \in BOOLEAN
    BY <1>1, QueueFields DEF Types
  <2>2. CASE Steady
    BY <2>2 DEF AttachStep, Steady, Narrows
  <2>3. CASE Ends
    BY <2>3 DEF AttachStep, Ends, Narrows
  <2>4. CASE /\ known /\ ~p.has_ever_attached /\ p'.has_ever_attached = p.has_ever_attached
             /\ p'.closed = p.closed
    BY <2>4 DEF AttachStep, Narrows
  <2> QED
    BY <2>2, <2>3, <2>4
<1> QED
  BY <1>2, <1>3, <1>4, <1>5, <1>6 DEF Stepped, SessionInv

LEMMA AppSteps ==
    ASSUME SessionInv,
           \/ AppSend \/ (\E q \in Seqs : AppPoll(q)) \/ AppFlush \/ AppFlushed
           \/ DriverDrain \/ DriverBatchDue \/ DriverSendsLate
    PROVE  Stepped
<1>1. Types
  BY DEF SessionInv
<1>2. UNCHANGED <<inbound, reg, log, may>>
  BY DEF AppSend, AppPoll, AppFlush, AppFlushed, DriverDrain, DriverBatchDue, DriverSendsLate,
         bvars, Fault
<1>3. CASE AppSend
  <2>1. PICK way \in Ways : Send(way)
    BY <1>3 DEF AppSend
  <2>2. /\ ClientTypes' /\ SameLink /\ wire' = wire
        /\ Accepts \/ Keeps({}, "error")
    BY <1>1, <2>1, SendEffect
  <2>3. Transmits
    BY <1>1, <2>2, NothingTransmits
  <2> QED
    BY <1>2, <2>2, <2>3, FailsIf, QuietStep
<1>4. CASE \E q \in Seqs : AppPoll(q)
  <2>1. PICK q \in Seqs : Poll(q)
    BY <1>4 DEF AppPoll
  <2>2. ClientTypes' /\ SameLink /\ wire' = wire /\ Polled(q)
    BY <1>1, <2>1, PollEffect
  <2>3. Transmits
    BY <1>1, <2>2, NothingTransmits
  <2> QED
    BY <1>2, <2>2, <2>3, FailsIf, QuietStep
<1>5. CASE AppFlush \/ AppFlushed \/ DriverDrain
  <2>1. StartFlush \/ FlushReturns \/ DrainProducerOutbound
    BY <1>5 DEF AppFlush, AppFlushed, DriverDrain
  <2>2. ClientTypes' /\ SameLink /\ Transmits /\ Keeps({}, "error")
    BY <1>1, <2>1, StagingEffect
  <2> QED
    BY <1>2, <2>2, FailsIf, QuietStep
<1>6. CASE DriverBatchDue \/ DriverSendsLate
  <2>1. PICK due \in BOOLEAN, cut \in Nat \ {0} : HandleTimeout(due, cut)
    <3>1. p.next \in Nat
      BY <1>1, QueueFields DEF Types
    <3>2. 1 \in Nat \ {0} /\ TRUE \in BOOLEAN /\ \A cut \in 2..p.next : cut \in Nat \ {0}
      BY <3>1
    <3> QED
      BY <1>6, <3>2 DEF DriverBatchDue, DriverSendsLate
  <2>2. ClientTypes' /\ SameLink /\ Transmits /\ \E K : Keeps(K, "error")
    BY <1>1, <2>1, TimeoutEffect
  <2> QED
    BY <1>2, <2>2, FailsIf, QuietStep
<1> QED
  BY <1>3, <1>4, <1>5, <1>6

LEMMA CloseStep ==
    ASSUME SessionInv, AppClose
    PROVE  Stepped
<1>1. Types /\ GateInv /\ ReceiptInv
  BY DEF SessionInv
<1>2. UNCHANGED <<inbound, reg, log, may>> /\ "close" \in may /\ CloseProducer
  BY DEF AppClose, Fault
<1>3. /\ ClientTypes' /\ Keeps({}, "error") /\ Narrows /\ conn' = conn
      /\ known' = known /\ p'.has_ever_attached = p.has_ever_attached
      /\ nextReq \in Requests /\ nextReq' = nextReq + 1
      /\ wire' = Append(wire, Frame("CloseProducer", nextReq))
  BY <1>1, <1>2, CloseEffect
<1>4. p.closed => p'.closed
  BY <1>2 DEF CloseProducer
<1>5. Types'
  BY <1>1, <1>2, <1>3, NextGrows, TypesLift DEF Types
<1>6. GateInv'
  BY <1>1, <1>2, <1>3, GateClose
<1>7. LedgerStep
  BY <1>2, <1>3, FailsIf DEF LedgerStep
<1>8. AttachStep
  BY <1>2, <1>3, <1>4 DEF AttachStep
<1>9. ReceiptInv'
  BY <1>1, <1>2 DEF ReceiptInv
<1> QED
  BY <1>5, <1>6, <1>7, <1>8, <1>9 DEF Stepped, SessionInv

LEMMA ArrivesIs ==
    ASSUME SessionInv, NEW type, Arrives(type)
    PROVE  /\ conn = "connected" /\ inbound # <<>> /\ inbound' = Tail(inbound)
           /\ UNCHANGED <<reg, log, may>>
           /\ Head(inbound) \in In(inbound) /\ Head(inbound) \in Answers(p.next)
           /\ Head(inbound).type = type
<1>1. inbound # <<>> /\ inbound \in Seq(Answers(p.next))
  BY DEF Arrives, SessionInv, Types
<1>2. Head(inbound) \in In(inbound) /\ In(inbound) \subseteq Answers(p.next)
  BY <1>1, InList
<1> QED
  BY <1>1, <1>2 DEF Arrives, IsConnected, InLoop

(* A frame that changes nothing is read. *)
LEMMA IgnoredStep ==
    ASSUME SessionInv, UNCHANGED vars, UNCHANGED <<reg, log, may>>,
           conn = "connected" /\ inbound # <<>> /\ inbound' = Tail(inbound)
    PROVE  Stepped
<1>1. Types /\ p \in ProducerState
  BY QueueFields DEF SessionInv, Types
<1>2. UNCHANGED <<p, known, conn, nextReq, requests, retry, wire, snapshots, futVars, flush>>
  BY DEF vars, connVars
<1>3. /\ p' \in ProducerState /\ SameQueue(p, p') /\ ConnTypes' /\ wire' \in Seq(LiveFrames(p.next))
      /\ SameLink
  BY <1>1, <1>2 DEF Types, ConnTypes, SameQueue, SameLink, SameControl
<1>4. ClientTypes' /\ Keeps({}, "error")
  BY <1>1, <1>2, <1>3, ControlEffect
<1>5. Transmits
  BY <1>1, <1>2, NothingTransmits
<1> QED
  BY <1>3, <1>4, <1>5, FailsIf, QuietStep

LEMMA SendAnswered ==
    ASSUME SessionInv, ClientSendReceipt \/ ClientSendError \/ ClientSuccess
    PROVE  Stepped
<1>1. Types
  BY DEF SessionInv
<1>2. CASE ClientSendReceipt
  <2>1. Arrives("SendReceipt") /\ HandleSendReceipt(Arg.lo, Arg.hi)
    BY <1>2 DEF ClientSendReceipt
  <2>2. /\ conn = "connected" /\ inbound # <<>> /\ inbound' = Tail(inbound)
        /\ UNCHANGED <<reg, log, may>>
        /\ Head(inbound) \in In(inbound) /\ Head(inbound) \in Answers(p.next)
        /\ Head(inbound).type = "SendReceipt"
    BY <2>1, ArrivesIs
  <2>3. Arg \in Sound(p.next) /\ Arg = Head(inbound).arg
    BY <2>2 DEF Answers, Arg
  <2>4. Arg.lo \in Seqs /\ Arg.hi \in Seqs /\ Arg.lo <= Arg.hi
    BY <2>3 DEF Sound, SendFrames
  <2>5. /\ ClientTypes' /\ SameLink /\ wire' = wire
        /\ \E K \in SUBSET (Arg.lo..Arg.hi) : Keeps(K, "receipt")
    BY <1>1, <2>1, <2>4, ReceiptEffect
  <2>6. Confirms
    BY <2>2, <2>3, <2>5 DEF Confirms
  <2>7. Transmits
    BY <1>1, <2>5, NothingTransmits
  <2> QED
    BY <2>2, <2>5, <2>6, <2>7, FailsIf, QuietStep
<1>3. CASE ClientSendError
  <2>1. Arrives("SendError") /\ HandleSendError(Arg.lo)
    BY <1>3 DEF ClientSendError
  <2>2. /\ conn = "connected" /\ inbound # <<>> /\ inbound' = Tail(inbound)
        /\ UNCHANGED <<reg, log, may>> /\ Head(inbound) \in Answers(p.next)
        /\ Head(inbound).type = "SendError"
    BY <2>1, ArrivesIs
  <2>3. Arg.lo \in Seqs
    BY <2>2 DEF Answers, Arg, Sound, SendFrames
  <2>4. ClientTypes' /\ SameLink /\ wire' = wire /\ \E K : Keeps(K, "error")
    BY <1>1, <2>1, <2>3, ErrorEffect
  <2>5. Transmits
    BY <1>1, <2>4, NothingTransmits
  <2> QED
    BY <2>2, <2>4, <2>5, FailsIf, QuietStep
<1>4. CASE ClientSuccess
  <2>1. Arrives("Success") /\ (HandleCloseAcked(Arg) \/ Ignored(Arg))
    BY <1>4 DEF ClientSuccess
  <2>2. /\ conn = "connected" /\ inbound # <<>> /\ inbound' = Tail(inbound)
        /\ UNCHANGED <<reg, log, may>> /\ Head(inbound) \in Answers(p.next)
        /\ Head(inbound).type = "Success"
    BY <2>1, ArrivesIs
  <2>3. Arg \in Requests
    BY <2>2 DEF Answers, Arg
  <2>4. CASE HandleCloseAcked(Arg)
    <3>1. /\ ClientTypes' /\ SameLink /\ wire' = wire
          /\ Keeps({}, "error") \/ Keeps(HeldSeqs, "terminal")
      BY <1>1, <2>3, <2>4, CloseAckedEffect
    <3>2. Transmits
      BY <1>1, <3>1, NothingTransmits
    <3> QED
      BY <2>2, <3>1, <3>2, FailsIf, QuietStep
  <2>5. CASE Ignored(Arg)
    BY <2>2, <2>5, IgnoredStep DEF Ignored
  <2> QED
    BY <2>1, <2>4, <2>5
<1> QED
  BY <1>2, <1>3, <1>4

LEMMA OpenRefused ==
    ASSUME SessionInv, ClientNotReady \/ ClientDenied \/ DriverOpenExpires \/ DriverOpenLate
    PROVE  Stepped
<1>1. Types
  BY DEF SessionInv
<1>2. CASE ClientNotReady \/ ClientDenied
  <2>1. PICK type \in {"NotReady", "Denied"}, retryable \in BOOLEAN :
           Arrives(type) /\ (HandleOpenRefused(Arg, retryable) \/ Ignored(Arg))
    BY <1>2 DEF ClientNotReady, ClientDenied
  <2>2. /\ conn = "connected" /\ inbound # <<>> /\ inbound' = Tail(inbound)
        /\ UNCHANGED <<reg, log, may>> /\ Head(inbound) \in Answers(p.next)
        /\ Head(inbound).type = type
    BY <2>1, ArrivesIs
  <2>3. Arg \in Requests
    BY <2>2 DEF Answers, Arg
  <2>4. CASE HandleOpenRefused(Arg, retryable)
    <3>1. /\ ClientTypes' /\ Narrows /\ UNCHANGED <<conn, nextReq, wire>>
          /\ \/ Keeps({}, "error") /\ Steady
             \/ Keeps(HeldSeqs, "terminal") /\ Ends
             \/ /\ Keeps({}, "error") /\ known /\ ~p.has_ever_attached
                /\ p'.has_ever_attached = p.has_ever_attached /\ p'.closed = p.closed
      BY <1>1, <2>3, <2>4, RefusedEffect
    <3> QED
      BY <2>2, <3>1, FailsIf, NarrowStep
  <2>5. CASE Ignored(Arg)
    BY <2>2, <2>5, IgnoredStep DEF Ignored
  <2> QED
    BY <2>1, <2>4, <2>5
<1>3. CASE DriverOpenExpires \/ DriverOpenLate
  <2>1. PICK r \in Requests : ExpireProducerOpen(r)
    BY <1>3 DEF DriverOpenExpires, DriverOpenLate
  <2>2. UNCHANGED <<inbound, reg, log, may>>
    BY <1>3 DEF DriverOpenExpires, DriverOpenLate, bvars, Fault
  <2>3. /\ ClientTypes' /\ Narrows /\ UNCHANGED <<conn, nextReq, wire>>
        /\ \/ Keeps({}, "error") /\ Steady
           \/ Keeps(HeldSeqs, "terminal") /\ Ends
    BY <1>1, <2>1, ExpireEffect
  <2> QED
    BY <2>2, <2>3, FailsIf, NarrowStep
<1> QED
  BY <1>2, <1>3

LEMMA SuccessStep ==
    ASSUME SessionInv, ClientProducerSuccess
    PROVE  Stepped
<1>1. Types /\ GateInv /\ ReceiptInv
  BY DEF SessionInv
<1>2. Arrives("ProducerSuccess") /\ (HandleProducerSuccess(Arg) \/ Ignored(Arg))
  BY DEF ClientProducerSuccess
<1>3. /\ conn = "connected" /\ inbound # <<>> /\ inbound' = Tail(inbound)
      /\ UNCHANGED <<reg, log, may>> /\ Head(inbound) \in Answers(p.next)
      /\ Head(inbound).type = "ProducerSuccess"
  BY <1>2, ArrivesIs
<1>4. Arg \in Requests /\ Head(inbound) = Frame("ProducerSuccess", Arg)
  BY <1>3 DEF Answers, Arg, Frame
<1>5. CASE HandleProducerSuccess(Arg)
  <2>1. /\ ClientTypes' /\ UNCHANGED <<known, conn, nextReq, wire>> /\ Keeps({}, "error")
        /\ \/ /\ known /\ p.open_request_id = Arg /\ p'.open_request_id = NoReq
              /\ p'.broker_ready /\ p'.closed = p.closed /\ p'.has_ever_attached
           \/ Narrows /\ Steady
    BY <1>1, <1>4, <1>5, SuccessEffect
  <2>2. CASE Narrows /\ Steady
    BY <1>3, <2>1, <2>2, FailsIf, NarrowStep
  <2>3. CASE /\ known /\ p.open_request_id = Arg /\ p'.open_request_id = NoReq
             /\ p'.broker_ready /\ p'.closed = p.closed /\ p'.has_ever_attached
    <3>1. /\ inbound' \in Seq(Answers(p.next)) /\ log' \in Seq(Entries(p.next)) /\ ReceiptInv'
      BY <1>3, ReadOne
    <3>2. Types'
      <4>1. reg' \in {"none", "attached", "closed"} /\ p'.next >= p.next
        BY <1>1, <1>3, <2>1, NextGrows DEF Types
      <4> QED
        BY <1>1, <2>1, <3>1, <4>1, TypesLift
    <3>3. GateInv'
      <4>1. Head(inbound) = OpenAnswer
        BY <1>4, <2>3 DEF OpenAnswer
      <4> QED
        BY <1>1, <1>3, <2>1, <2>3, <4>1, GateAttach
    <3>4. LedgerStep
      BY <1>3, <2>1, FailsIf DEF LedgerStep
    <3>5. AttachStep
      BY <1>3, <2>1, <2>3 DEF AttachStep
    <3> QED
      BY <3>1, <3>2, <3>3, <3>4, <3>5 DEF Stepped, SessionInv
  <2> QED
    BY <2>1, <2>2, <2>3
<1>6. CASE Ignored(Arg)
  BY <1>3, <1>6, IgnoredStep DEF Ignored
<1> QED
  BY <1>2, <1>5, <1>6

(* An open is issued: by the broker's close, by a retry leg, or by rebuild. *)
LEMMA ReopenStep ==
    ASSUME SessionInv, ClientTypes', Reopens, Steady, ~p'.broker_ready, Live,
           Keeps({}, "error"), UNCHANGED <<reg, log, may>>,
           conn' = conn \/ (conn = "rebuilding" /\ conn' = "connected"),
           inbound' = inbound \/ (conn = "connected" /\ inbound # <<>> /\ inbound' = Tail(inbound))
    PROVE  Stepped
<1>1. Types /\ GateInv
  BY DEF SessionInv
<1>2. /\ inbound' \in Seq(Answers(p.next)) /\ log' \in Seq(Entries(p.next))
      /\ In(inbound') \subseteq In(inbound) /\ ReceiptInv'
  BY ReadOne
<1>3. Types'
  <2>1. reg' \in {"none", "attached", "closed"} /\ p'.next >= p.next
    BY <1>1, NextGrows DEF Types
  <2> QED
    BY <1>1, <1>2, <2>1, TypesLift
<1>4. GateInv'
  BY <1>1, <1>2, GateReopen
<1>5. LedgerStep
  BY FailsIf DEF LedgerStep
<1>6. AttachStep
  BY DEF AttachStep, Steady
<1> QED
  BY <1>2, <1>3, <1>4, <1>5, <1>6 DEF Stepped, SessionInv

LEMMA BrokerCloseStep ==
    ASSUME SessionInv, ClientCloseProducer
    PROVE  Stepped
<1>1. Types
  BY DEF SessionInv
<1>2. Arrives("CloseProducer") /\ HandleCloseProducer
  BY DEF ClientCloseProducer
<1>3. /\ conn = "connected" /\ inbound # <<>> /\ inbound' = Tail(inbound)
      /\ UNCHANGED <<reg, log, may>>
  BY <1>2, ArrivesIs
<1>4. /\ ClientTypes' /\ Keeps({}, "error") /\ Steady /\ conn' = conn
      /\ \/ Reopens /\ ~p'.broker_ready
         \/ Narrows /\ UNCHANGED <<nextReq, wire>>
  BY <1>1, <1>2, BrokerCloseEffect
<1>5. CASE Reopens /\ ~p'.broker_ready
  BY <1>3, <1>4, <1>5, ReopenStep DEF Live
<1>6. CASE Narrows /\ UNCHANGED <<nextReq, wire>>
  BY <1>3, <1>4, <1>6, FailsIf, NarrowStep
<1> QED
  BY <1>4, <1>5, <1>6

LEMMA RetryStep ==
    ASSUME SessionInv, DriverRetry \/ DriverLookupFails
    PROVE  Stepped
<1>1. Types /\ GateInv
  BY DEF SessionInv
<1>2. UNCHANGED <<inbound, reg, log, may>>
  BY DEF DriverRetry, DriverLookupFails, bvars
<1>3. PICK found \in BOOLEAN : RetryProducerOpen(found)
  BY DEF DriverRetry, DriverLookupFails
<1>4. /\ ClientTypes' /\ conn' = conn /\ IsConnected
      /\ \/ /\ Reopens /\ Keeps({}, "error") /\ Steady
            /\ p'.broker_ready = p.broker_ready /\ p.open_request_id # NoReq
         \/ /\ Narrows /\ UNCHANGED <<nextReq, wire>>
            /\ \/ Keeps({}, "error") /\ Steady
               \/ Keeps(HeldSeqs, "terminal") /\ Ends
  BY <1>1, <1>3, RetryEffect
<1>5. CASE /\ Reopens /\ Keeps({}, "error") /\ Steady
           /\ p'.broker_ready = p.broker_ready /\ p.open_request_id # NoReq
  <2>1. Live /\ ~p.broker_ready
    BY <1>1, <1>4, <1>5 DEF IsConnected, Live, GateInv, DownInv, AttachedInv, Reopens
  <2> QED
    BY <1>2, <1>4, <1>5, <2>1, ReopenStep
<1>6. CASE /\ Narrows /\ UNCHANGED <<nextReq, wire>>
           /\ \/ Keeps({}, "error") /\ Steady
              \/ Keeps(HeldSeqs, "terminal") /\ Ends
  BY <1>2, <1>4, <1>6, FailsIf, NarrowStep
<1> QED
  BY <1>4, <1>5, <1>6

(* The supervisor. *)
LEMMA SupervisorSteps ==
    ASSUME SessionInv,
           \/ TransportLost \/ SupervisorReset \/ SupervisorConnected
           \/ SupervisorRebuilds \/ SupervisorGivesUp
    PROVE  Stepped
<1>1. Types /\ GateInv /\ ReceiptInv
  BY DEF SessionInv
<1>2. log' = log /\ may' = may /\ log \in Seq(Entries(p.next))
  BY <1>1 DEF TransportLost, SupervisorReset, SupervisorConnected, SupervisorRebuilds,
              SupervisorGivesUp, bvars, Fault, Types
<1>3. inbound \in Seq(Answers(p.next)) /\ reg \in {"none", "attached", "closed"}
  BY <1>1 DEF Types
<1>4. CASE TransportLost
  <2>1. /\ Disconnect /\ inbound' = <<>> /\ reg' = "none" /\ "disconnect" \in may
        /\ conn' = "lost"
    BY <1>4 DEF TransportLost, Fault, Disconnect
  <2>2. /\ ClientTypes' /\ Keeps({}, "error") /\ Narrows /\ Steady /\ UNCHANGED <<nextReq, wire>>
    BY <1>1, <2>1, TransportEffect
  <2>3. Types'
    <3>1. <<>> \in Seq(Answers(p.next))
      OBVIOUS
    <3> QED
      BY <1>1, <1>2, <2>1, <2>2, <3>1, NextGrows, TypesLift
  <2>4. GateInv'
    BY <1>1, <2>1, <2>2, GateDown DEF Narrows
  <2>5. ReceiptInv'
    BY <2>1 DEF ReceiptInv, In
  <2>6. LedgerStep /\ AttachStep
    BY <1>2, <2>1, <2>2, FailsIf DEF LedgerStep, AttachStep, Steady
  <2> QED
    BY <2>3, <2>4, <2>5, <2>6 DEF Stepped, SessionInv
<1>5. CASE SupervisorReset \/ SupervisorConnected \/ SupervisorRebuilds
  <2>1. UNCHANGED <<inbound, reg>> /\ ReceiptInv'
    BY <1>1, <1>2, <1>5 DEF SupervisorReset, SupervisorConnected, SupervisorRebuilds, bvars, ReceiptInv
  <2>2. CASE SupervisorReset
    <3>1. /\ ClientTypes' /\ conn = "lost" /\ conn' = "handshaking" /\ nextReq' = nextReq
          /\ wire' = <<>> /\ Narrows /\ Steady /\ (known' => ~p'.broker_ready)
          /\ \E K : Keeps(K, "error")
      BY <1>1, <2>2, ResetEffect DEF SupervisorReset
    <3>2. Fails
      BY <3>1, FailsIf
    <3>3. Types'
      BY <1>1, <1>2, <1>3, <2>1, <3>1, <3>2, NextGrows, TypesLift
    <3>4. GateInv'
      BY <1>1, <2>1, <3>1, GateReset
    <3>5. LedgerStep /\ AttachStep
      BY <1>2, <3>1, <3>2 DEF LedgerStep, AttachStep, Steady
    <3> QED
      BY <2>1, <3>3, <3>4, <3>5 DEF Stepped, SessionInv
  <2>3. CASE SupervisorConnected
    <3>1. Connected /\ conn = "handshaking" /\ conn' = "rebuilding"
      BY <2>3 DEF SupervisorConnected, Connected
    <3>2. /\ ClientTypes' /\ Keeps({}, "error") /\ Narrows /\ Steady /\ UNCHANGED <<nextReq, wire>>
      BY <1>1, <3>1, TransportEffect
    <3>3. Types'
      BY <1>1, <1>2, <1>3, <2>1, <3>2, NextGrows, TypesLift
    <3>4. GateInv'
      BY <1>1, <2>1, <3>1, <3>2, GateUp
    <3>5. LedgerStep /\ AttachStep
      BY <1>2, <3>1, <3>2, FailsIf DEF LedgerStep, AttachStep, Steady
    <3> QED
      BY <2>1, <3>3, <3>4, <3>5 DEF Stepped, SessionInv
  <2>4. CASE SupervisorRebuilds
    <3>1. /\ ClientTypes' /\ conn = "rebuilding" /\ conn' = "connected" /\ Steady
          /\ \/ Reopens /\ Keeps({}, "error") /\ p'.broker_ready = p.broker_ready
             \/ Narrows /\ UNCHANGED <<nextReq, wire>> /\ Forgets /\ (~known \/ p.closed)
      BY <1>1, <2>4, RebuildEffect DEF SupervisorRebuilds
    <3>2. CASE Reopens /\ Keeps({}, "error") /\ p'.broker_ready = p.broker_ready
      <4>1. Live /\ ~p.broker_ready
        BY <1>1, <3>1, <3>2 DEF Live, GateInv, DownInv, Reopens
      <4> QED
        BY <1>2, <2>1, <3>1, <3>2, <4>1, ReopenStep
    <3>3. CASE Narrows /\ UNCHANGED <<nextReq, wire>> /\ Forgets /\ (~known \/ p.closed)
      <4>1. p'.next = p.next /\ p.next >= p.next
        BY <1>1, <3>3, QueueFields DEF Forgets, Types
      <4>2. Types'
        BY <1>1, <1>2, <1>3, <2>1, <3>1, <4>1, TypesLift
      <4>3. GateInv'
        BY <1>1, <2>1, <3>1, <3>3, GateUp
      <4>4. LedgerStep /\ AttachStep
        BY <1>2, <3>1, <3>3 DEF LedgerStep, AttachStep, Steady
      <4> QED
        BY <2>1, <4>2, <4>3, <4>4 DEF Stepped, SessionInv
    <3> QED
      BY <3>1, <3>2, <3>3
  <2> QED
    BY <1>5, <2>2, <2>3, <2>4
<1>6. CASE SupervisorGivesUp
  <2>1. /\ UNCHANGED <<inbound, reg>> /\ "giveup" \in may /\ FailAllPending
        /\ known' = known
    BY <1>6 DEF SupervisorGivesUp, Fault, FailAllPending
  <2>2. /\ ClientTypes' /\ conn' = "failed" /\ UNCHANGED <<nextReq, wire>>
        /\ p'.next = p.next /\ p'.open_request_id = p.open_request_id
    BY <1>1, <2>1, GiveUpEffect
  <2>3. p.next >= p.next /\ conn # "connected" /\ (conn # "connected" => inbound = <<>> /\ reg = "none")
    BY <1>1, <2>1, QueueFields DEF Types, GateInv, DownInv, FailAllPending
  <2>4. Types'
    BY <1>1, <1>2, <1>3, <2>1, <2>2, <2>3, TypesLift
  <2>5. GateInv'
    BY <1>1, <2>1, <2>2, <2>3, GateDown
  <2>6. ReceiptInv'
    BY <1>1, <1>2, <2>1 DEF ReceiptInv
  <2>7. LedgerStep
    BY <1>2, <2>1, <2>2 DEF LedgerStep
  <2>8. p'.has_ever_attached = p.has_ever_attached /\ (p.closed => p'.closed)
    <3> DEFINE s == [p EXCEPT !.closed = TRUE]
    <3>1. p \in Queues /\ p \in ProducerState
      BY <1>1, QueueFields DEF Types
    <3>2. s \in ProducerState /\ SameQueue(p, s) /\ s.closed = TRUE
          /\ s.has_ever_attached = p.has_ever_attached
      BY ONLY <3>1 DEF ProducerState, SameQueue, s
    <3>3. p' = IF known THEN Drained(s) ELSE p
      BY <2>1 DEF FailAllPending
    <3> HIDE DEF s
    <3>4. s \in Queues
      BY <3>1, <3>2, ControlAssigned
    <3>5. SameControl(s, Drained(s))
      BY <3>4, DrainedIs
    <3> QED
      BY <3>2, <3>3, <3>5 DEF SameControl
  <2>9. AttachStep
    BY <1>2, <2>1, <2>3, <2>8 DEF AttachStep
  <2> QED
    BY <2>4, <2>5, <2>6, <2>7, <2>9 DEF Stepped, SessionInv
<1> QED
  BY <1>4, <1>5, <1>6

(* The broker. *)
LEMMA TakesIs ==
    ASSUME SessionInv, NEW type, Takes(type)
    PROVE  /\ ClientTypes' /\ Keeps({}, "error") /\ SameLink /\ conn = "connected"
           /\ wire # <<>> /\ wire' = Tail(wire) /\ UNCHANGED <<p, snapshots, futVars>>
           /\ Head(wire) \in In(wire) /\ Head(wire) \in LiveFrames(p.next) /\ Head(wire).type = type
<1>1. Types /\ PollTransmit /\ wire # <<>> /\ wire \in Seq(LiveFrames(p.next))
  BY DEF Takes, SessionInv, Types
<1>2. Head(wire) \in In(wire) /\ In(wire) \subseteq LiveFrames(p.next)
  BY <1>1, InList
<1>3. conn = "connected" /\ Head(wire).type = type
  BY DEF Takes, IsConnected, InLoop
<1>4. UNCHANGED <<p, snapshots, futVars>>
  BY <1>1 DEF PollTransmit
<1> QED
  BY <1>1, <1>2, <1>3, <1>4, TransmitEffect

(* What the broker adds to the client's wire and to its log. *)
LEMMA BrokerStep ==
    ASSUME SessionInv, ClientTypes', Keeps({}, "error"), SameLink, GateInv',
           may' = may, reg' \in {"none", "attached", "closed"},
           inbound' = inbound \/ \E x \in Answers(p.next) :
              /\ inbound' = Append(inbound, x)
              /\ x.type = "SendReceipt" => Persisted(x.arg) \in In(log'),
           log' = log \/ (Stores /\ \E e \in Entries(p.next) : log' = Append(log, e))
    PROVE  Stepped
<1>1. Types /\ GateInv /\ ReceiptInv
  BY DEF SessionInv
<1>2. inbound \in Seq(Answers(p.next)) /\ log \in Seq(Entries(p.next))
  BY <1>1 DEF Types
<1>3. log' \in Seq(Entries(p.next)) /\ In(log) \subseteq In(log')
  <2>1. CASE log' = log
    BY <1>2, <2>1
  <2>2. CASE \E e \in Entries(p.next) : log' = Append(log, e)
    <3>1. PICK e \in Entries(p.next) : log' = Append(log, e)
      BY <2>2
    <3>2. Append(log, e) \in Seq(Entries(p.next)) /\ In(Append(log, e)) = In(log) \cup {e}
      BY <1>2, InList
    <3> QED
      BY <3>1, <3>2
  <2> QED
    BY <2>1, <2>2
<1>4. /\ inbound' \in Seq(Answers(p.next))
      /\ \A f \in In(inbound') : \/ f \in In(inbound)
                                 \/ f.type = "SendReceipt" => Persisted(f.arg) \in In(log')
  <2>1. CASE inbound' = inbound
    BY <1>2, <2>1
  <2>2. CASE inbound' # inbound
    <3>1. PICK x \in Answers(p.next) :
             /\ inbound' = Append(inbound, x)
             /\ x.type = "SendReceipt" => Persisted(x.arg) \in In(log')
      BY <2>2
    <3>2. /\ Append(inbound, x) \in Seq(Answers(p.next))
          /\ In(Append(inbound, x)) = In(inbound) \cup {x}
      BY <1>2, InList
    <3> QED
      BY <3>1, <3>2
  <2> QED
    BY <2>1, <2>2
<1>5. ReceiptInv'
  BY <1>1, <1>3, <1>4 DEF ReceiptInv
<1>6. Types'
  BY <1>1, <1>3, <1>4, NextGrows, TypesLift
<1>7. Narrows /\ Steady /\ conn' = conn
  BY SameLinkIs
<1>8. LedgerStep
  BY FailsIf DEF LedgerStep
<1>9. AttachStep
  BY <1>7 DEF AttachStep, Steady
<1> QED
  BY <1>5, <1>6, <1>8, <1>9 DEF Stepped, SessionInv

LEMMA BrokerOpenStep ==
    ASSUME SessionInv, BrokerProducer \/ BrokerRefusesProducer
    PROVE  Stepped
<1>1. Types /\ GateInv /\ inbound \in Seq(Answers(p.next))
  BY DEF SessionInv, Types
<1>2. Takes("Producer") /\ log' = log /\ may' = may
  BY DEF BrokerProducer, BrokerRefusesProducer, NoFault, Fault
<1>3. /\ ClientTypes' /\ Keeps({}, "error") /\ SameLink /\ conn = "connected"
      /\ wire # <<>> /\ wire' = Tail(wire)
      /\ Head(wire) \in LiveFrames(p.next) /\ Head(wire).type = "Producer"
  BY <1>2, TakesIs
<1>4. Opens(Head(wire)) /\ Taken = Head(wire).arg /\ Taken \in Requests
  BY <1>3 DEF Opens, Taken, LiveFrames, Sends
<1>5. PICK type \in {"ProducerSuccess", "NotReady", "Denied"} :
         /\ inbound' = inbound \/ inbound' = Append(inbound, Frame(type, Taken))
         /\ type = "ProducerSuccess" => reg' = "attached"
         /\ reg' \in {"none", "attached"}
  BY DEF BrokerProducer, BrokerRefusesProducer, Reply
<1> DEFINE x == Frame(type, Taken)
<1>6. /\ x \in Answers(p.next) /\ x.type # "SendReceipt" /\ x.type = type
      /\ inbound' = inbound \/ inbound' = Append(inbound, x)
  BY <1>4, <1>5 DEF Frame, Answers
<1>6a. x.type = "ProducerSuccess" => x = Frame("ProducerSuccess", Head(wire).arg) /\ reg' = "attached"
  BY <1>4, <1>5 DEF Frame
<1> HIDE DEF x
<1>7. \A f \in In(inbound') : f \in In(inbound) \/ f = x
  <2>1. In(Append(inbound, x)) = In(inbound) \cup {x}
    BY <1>1, <1>6, InList
  <2> QED
    BY <1>6, <2>1
<1>8. GateInv'
  <2>1. \A f \in In(inbound') :
           \/ f \in In(inbound) \/ f.type # "ProducerSuccess"
           \/ f = Frame("ProducerSuccess", Head(wire).arg) /\ reg' = "attached"
    BY <1>6a, <1>7
  <2> QED
    BY <1>1, <1>3, <1>4, <2>1, GateTakesOpen
<1> QED
  BY <1>2, <1>3, <1>5, <1>6, <1>8, BrokerStep

LEMMA BrokerSendStep ==
    ASSUME SessionInv, BrokerSend \/ BrokerRefusesSend \/ BrokerCloses
    PROVE  Stepped
<1>1. /\ Types /\ GateInv /\ inbound \in Seq(Answers(p.next)) /\ log \in Seq(Entries(p.next))
      /\ reg \in {"none", "attached", "closed"}
  BY DEF SessionInv, Types
<1>2. PICK type \in {"Send", "CloseProducer"} : Takes(type) /\ may' = may
  BY DEF BrokerSend, BrokerRefusesSend, BrokerCloses, NoFault, Fault
<1>3. /\ ClientTypes' /\ Keeps({}, "error") /\ SameLink /\ conn = "connected"
      /\ wire # <<>> /\ wire' = Tail(wire) /\ UNCHANGED <<p, snapshots, futVars>>
      /\ Head(wire) \in In(wire) /\ Head(wire) \in LiveFrames(p.next) /\ Head(wire).type = type
  BY <1>2, TakesIs
<1>4. GateInv' 
  <2>1. reg # "none" => reg' # "none"
    BY DEF BrokerSend, BrokerRefusesSend, BrokerCloses
  <2>2. \/ inbound' = inbound
        \/ \E t \in {"SendReceipt", "SendError", "Success"} : inbound' = Append(inbound, Frame(t, Taken))
    BY DEF BrokerSend, BrokerRefusesSend, BrokerCloses, Reply
  <2>3. \A f \in In(inbound') : f \in In(inbound) \/ f.type # "ProducerSuccess"
    <3>1. CASE inbound' = inbound
      BY <3>1
    <3>2. CASE \E t \in {"SendReceipt", "SendError", "Success"} :
                  inbound' = Append(inbound, Frame(t, Taken))
      <4>1. PICK t \in {"SendReceipt", "SendError", "Success"} :
               inbound' = Append(inbound, Frame(t, Taken))
        BY <3>2
      <4> DEFINE S == Answers(p.next) \cup {Frame(t, Taken)}
      <4>2. inbound \in Seq(S) /\ Frame(t, Taken) \in S
        BY <1>1, SeqMonotone
      <4> HIDE DEF S
      <4>3. In(inbound') = In(inbound) \cup {Frame(t, Taken)}
        BY <4>1, <4>2, InList
      <4>4. Frame(t, Taken).type # "ProducerSuccess"
        BY DEF Frame
      <4> QED
        BY <4>3, <4>4
    <3> QED
      BY <2>2, <3>1, <3>2
  <2> QED
    BY <1>1, <1>3, <2>1, <2>3, GateTakes
<1>5. CASE BrokerSend \/ BrokerRefusesSend
  <2>1. Takes("Send") /\ Head(wire).type = "Send" /\ reg' = reg
    BY <1>5 DEF BrokerSend, BrokerRefusesSend, Takes
  <2>2. Taken = Head(wire).arg /\ Taken \in Sound(p.next)
    BY <1>3, <2>1 DEF LiveFrames, Sends, Taken
  <2>3. CASE UNCHANGED <<log, inbound>>
    BY <1>1, <1>2, <1>3, <1>4, <2>1, <2>3, BrokerStep
  <2>4. CASE ~UNCHANGED <<log, inbound>>
    <3>1. PICK t \in {"SendReceipt", "SendError"}, persisted \in BOOLEAN :
             /\ inbound' = Append(inbound, Frame(t, Taken))
             /\ log' = Append(log, [frame |-> Taken, persisted |-> persisted])
             /\ t = "SendReceipt" => persisted
      BY <1>5, <2>4 DEF BrokerSend, BrokerRefusesSend, Reply, Took
    <3> DEFINE x == Frame(t, Taken)
               e == [frame |-> Taken, persisted |-> persisted]
    <3>2. x \in Answers(p.next) /\ e \in Entries(p.next) /\ x.type = t /\ x.arg = Taken
      BY <2>2 DEF Frame, Answers, Entries
    <3>3. t = "SendReceipt" => e = Persisted(Taken)
      BY <3>1 DEF Persisted
    <3> HIDE DEF x, e
    <3>4. inbound' = Append(inbound, x) /\ log' = Append(log, e)
      BY <3>1 DEF x, e
    <3>5. e \in In(log')
      BY <1>1, <3>2, <3>4, InList
    <3>6. Stores
      BY <1>3, <2>1, <2>2, <3>1 DEF Stores
    <3>7. x.type = "SendReceipt" => Persisted(x.arg) \in In(log')
      BY <3>2, <3>3, <3>5
    <3> QED
      BY <1>1, <1>2, <1>3, <1>4, <2>1, <3>2, <3>4, <3>6, <3>7, BrokerStep
  <2> QED
    BY <2>3, <2>4
<1>6. CASE BrokerCloses
  <2>1. /\ Takes("CloseProducer") /\ Head(wire).type = "CloseProducer" /\ reg' = "closed"
        /\ log' = log /\ inbound' = Append(inbound, Frame("Success", Taken))
    BY <1>6 DEF BrokerCloses, Takes, Reply
  <2>2. Taken \in Requests
    BY <1>3, <2>1 DEF LiveFrames, Sends, Taken
  <2> DEFINE x == Frame("Success", Taken)
  <2>3. x \in Answers(p.next) /\ x.type # "SendReceipt" /\ inbound' = Append(inbound, x)
    BY <2>1, <2>2 DEF Frame, Answers
  <2> HIDE DEF x
  <2> QED
    BY <1>1, <1>2, <1>3, <1>4, <2>1, <2>3, BrokerStep
<1> QED
  BY <1>5, <1>6

LEMMA UnloadStep ==
    ASSUME SessionInv, BrokerUnload
    PROVE  Stepped
<1> DEFINE x == Frame("CloseProducer", NoReq)
<1>1. /\ Types /\ GateInv /\ inbound \in Seq(Answers(p.next)) /\ p \in ProducerState
  BY QueueFields DEF SessionInv, Types
<1>2. /\ IsConnected /\ reg = "attached" /\ reg' = "closed" /\ log' = log /\ may' = may
      /\ inbound' = Append(inbound, x)
  BY DEF BrokerUnload, Fault, Reply
<1>3. UNCHANGED <<p, known, conn, nextReq, requests, retry, wire, snapshots, futVars, flush>>
  BY DEF BrokerUnload, vars, connVars
<1>4. x \in Answers(p.next) /\ x.type = "CloseProducer"
  BY DEF Frame, Answers
<1> HIDE DEF x
<1>5. /\ p' \in ProducerState /\ SameQueue(p, p') /\ ConnTypes' /\ wire' \in Seq(LiveFrames(p.next))
      /\ SameLink
  BY <1>1, <1>3 DEF Types, ConnTypes, SameQueue, SameLink, SameControl
<1>6. ClientTypes' /\ Keeps({}, "error")
  BY <1>1, <1>3, <1>5, ControlEffect
<1>7. In(inbound') = In(inbound) \cup {x}
  BY <1>1, <1>2, <1>4, InList
<1>8. conn = "connected"
  BY <1>1, <1>2 DEF GateInv, DownInv
<1>9. GateInv'
  <2>1. WireInv'
    BY <1>1, <1>2, <1>3 DEF GateInv, WireInv, Live
  <2>2. FreshInv'
    BY <1>1, <1>3, <1>4, <1>7 DEF GateInv, FreshInv
  <2>3. DownInv'
    BY <1>3, <1>8 DEF DownInv
  <2>4. OpenAnswer' = OpenAnswer /\ OpenAnswer # x
    BY <1>3, <1>4 DEF OpenAnswer, Frame
  <2>5. AttachedInv'
    BY <1>1, <1>2, <1>3, <1>7, <2>4 DEF GateInv, AttachedInv
  <2> QED
    BY <2>1, <2>2, <2>3, <2>5 DEF GateInv
<1> QED
  BY <1>1, <1>2, <1>4, <1>5, <1>6, <1>9, BrokerStep

LEMMA SessionSteps ==
    ASSUME SessionInv, SessionNext
    PROVE  Stepped
BY AppSteps, CloseStep, SendAnswered, OpenRefused, SuccessStep, BrokerCloseStep, RetryStep,
   SupervisorSteps, BrokerOpenStep, BrokerSendStep, UnloadStep
   DEF SessionNext

LEMMA SessionStutters ==
    ASSUME SessionInv, UNCHANGED svars
    PROVE  SessionInv'
<1>1. /\ UNCHANGED <<p, known, conn, nextReq, requests, retry, wire, snapshots, outcomes, slab, fut, flush>>
      /\ UNCHANGED <<inbound, reg, log>>
  BY DEF svars, vars, bvars, connVars, futVars
<1>2. Types'
  BY <1>1 DEF SessionInv, Types, ConnTypes, SnapshotTypes, FutTypes
<1>3. GateInv'
  BY <1>1 DEF SessionInv, GateInv, WireInv, FreshInv, DownInv, AttachedInv, OpenAnswer, Live
<1>4. ReceiptInv'
  BY <1>1 DEF SessionInv, ReceiptInv
<1> QED
  BY <1>2, <1>3, <1>4 DEF SessionInv

LEMMA FreshProducerIs ==
    /\ FreshProducer \in Queues /\ FreshProducer.next = 1 /\ FreshProducer.pending = <<>>
    /\ ~FreshProducer.closed /\ ~FreshProducer.broker_ready /\ ~FreshProducer.has_ever_attached
    /\ FreshProducer.open_request_id = 1
<1> DEFINE index == [q \in Seqs |-> 0]
<1>1. /\ index \in [Seqs -> Nat] /\ 1 \in Requests /\ 1 \in Nat \ {0} /\ 0 \in Nat
      /\ <<>> \in Seq(Ops) /\ <<>> \in Seq(Seqs) /\ <<>> \in Seq(SendFrames)
      /\ \A q \in Seqs : index[q] = 0
  BY RequestsAssumption DEF Requests
<1>2. FreshProducer =
        [next |-> 1, pending |-> <<>>, pending_index |-> index,
         batch |-> <<>>, outbound |-> <<>>, closed |-> FALSE, close_request |-> NoReq,
         broker_ready |-> FALSE, has_ever_attached |-> FALSE, open_request_id |-> 1,
         attempts |-> 0]
  BY DEF FreshProducer
<1> HIDE DEF index
<1>3. FreshProducer \in ProducerState
  BY ONLY <1>1, <1>2 DEF ProducerState
<1>4. /\ FreshProducer.next = 1 /\ FreshProducer.pending = <<>>
      /\ FreshProducer.pending_index = index /\ FreshProducer.batch = <<>>
      /\ FreshProducer.outbound = <<>>
      /\ ~FreshProducer.closed /\ ~FreshProducer.broker_ready
      /\ ~FreshProducer.has_ever_attached /\ FreshProducer.open_request_id = 1
  BY ONLY <1>2
<1>5. FreshProducer \in Queues
  <2>1. Len(FreshProducer.batch) = 0 /\ FreshProducer.outbound \in Seq(Sound(FreshProducer.next))
    BY <1>4
  <2>2. \A i \in 1..0 : FALSE
    OBVIOUS
  <2> QED
    BY ONLY <1>1, <1>3, <1>4, <2>1, <2>2, NoOps DEF Queues
<1> QED
  BY <1>4, <1>5

LEMMA SessionStarts ==
    ASSUME SessionInit
    PROVE  SessionInv
<1> DEFINE f == Frame("Producer", 1)
<1>1. /\ p = FreshProducer /\ known = TRUE /\ conn = "connected" /\ nextReq = 2
      /\ requests = [r \in Requests |-> IF r = 1 THEN "open" ELSE "none"]
      /\ retry = NoReq /\ wire = <<f>> /\ snapshots = <<>>
      /\ outcomes = [q \in Seqs |-> "none"] /\ slab = {} /\ fut = [q \in Seqs |-> "idle"]
      /\ flush = "idle" /\ inbound = <<>> /\ reg = "none" /\ log = <<>>
  BY DEF SessionInit, Init
<1>2. /\ p \in Queues /\ p.next = 1 /\ p.pending = <<>> /\ ~p.broker_ready /\ p.open_request_id = 1
  BY <1>1, FreshProducerIs
<1>3. f \in LiveFrames(p.next) /\ f.type = "Producer" /\ f.arg = 1
  <2>1. 1 \in Requests
    BY RequestsAssumption DEF Requests
  <2> QED
    BY <2>1 DEF Frame, LiveFrames
<1> HIDE DEF f
<1>4. wire \in Seq(LiveFrames(p.next)) /\ Len(wire) = 1 /\ wire[1] = f /\ In(wire) = {f}
  BY <1>1, <1>3 DEF In
<1>5. In(inbound) = {}
  BY <1>1 DEF In
<1>6. ConnTypes /\ FutTypes /\ SnapshotTypes
  <2>1. ConnTypes
    BY <1>1 DEF ConnTypes, ConnStates, Kinds
  <2>2. FutTypes
    BY <1>1 DEF FutTypes, Results, Futures
  <2>3. SnapshotTypes
    BY <1>1, NoOps DEF SnapshotTypes
  <2> QED
    BY <2>1, <2>2, <2>3
<1>7. Types
  <2>1. inbound \in Seq(Answers(p.next)) /\ log \in Seq(Entries(p.next))
    BY <1>1
  <2> QED
    BY <1>1, <1>2, <1>4, <1>6, <2>1 DEF Types
<1>8. WireInv
  <2>1. Ordered(wire)
    BY <1>4 DEF Ordered
  <2>2. OpensBelow(wire, nextReq) /\ OpensBelow(wire, p.open_request_id + 1) /\ ~HasSend(wire)
    BY <1>1, <1>2, <1>3, <1>4 DEF OpensBelow, HasSend
  <2> QED
    BY <2>1, <2>2 DEF WireInv
<1>9. FreshInv /\ DownInv /\ AttachedInv /\ ReceiptInv
  BY <1>1, <1>2, <1>5 DEF FreshInv, DownInv, AttachedInv, ReceiptInv
<1> QED
  BY <1>7, <1>8, <1>9 DEF SessionInv, GateInv

(* The inductive invariant of the session holds in every behaviour. *)
THEOREM SessionInvariant == SessionSpec => []SessionInv
<1>1. SessionInit => SessionInv
  BY SessionStarts
<1>2. SessionInv /\ [SessionNext]_svars => SessionInv'
  BY SessionSteps, SessionStutters DEF Stepped
<1> QED
  BY <1>1, <1>2, PTL DEF SessionSpec

(* drain_producer_outbound never lets a CommandSend out to a broker that   *)
(* does not hold the producer: NeverSentUnattached.                        *)
THEOREM GateTheorem == SessionSpec => []NeverSentUnattached
<1>1. SessionInv => NeverSentUnattached
  <2> SUFFICES ASSUME SessionInv, IsConnected, wire # <<>>, Head(wire).type = "Send"
               PROVE  reg # "none"
    BY DEF NeverSentUnattached
  <2>1. wire \in Seq(LiveFrames(p.next))
    BY DEF SessionInv, Types
  <2>2. Head(wire) \in In(wire)
    BY <2>1, InList
  <2>3. HasSend(wire) /\ Live
    BY <2>2 DEF HasSend, Live, IsConnected
  <2> QED
    BY <2>3 DEF SessionInv, GateInv, WireInv
<1> QED
  BY <1>1, SessionInvariant, PTL

-----------------------------------------------------------------------------
(* The ledger: while the supervisor does not give up, a send the producer  *)
(* holds is undecided, and an outcome waits for a future that is not done. *)

Waiting == {"ready", "parked"}
LedgerInv ==
    /\ "giveup" \notin may
    /\ \A q \in Seqs :
          /\ q < p.next <=> fut[q] # "idle"
          /\ q \in HeldSeqs => outcomes[q] = "none" /\ fut[q] \in Waiting
          /\ outcomes[q] # "none" => fut[q] \in Waiting

LEMMA HeldBelow ==
    ASSUME Types
    PROVE  \A q \in HeldSeqs : q \in Seqs /\ q < p.next
<1>1. /\ SeqsOf(snapshots) \subseteq Seqs /\ \A q \in SeqsOf(snapshots) : q < p.next
      /\ SeqsOf(p.pending) = Keys(OpsOf(p.pending)) /\ SeqsOf(p.pending) \subseteq Seqs
      /\ \A op \in OpsOf(p.pending) : op.seq < p.next
  BY QueueFields, OpsAreOps DEF Types, SnapshotTypes
<1>2. \A q \in SeqsOf(p.pending) : q < p.next
  BY <1>1 DEF Keys
<1> QED
  BY <1>1, <1>2 DEF HeldSeqs

LEMMA WokenWait ==
    ASSUME Woken, NEW q \in Seqs
    PROVE  /\ fut[q] \in Waiting <=> fut'[q] \in Waiting
           /\ fut[q] \notin Waiting => fut'[q] = fut[q]
BY DEF Woken, Waiting

LEMMA ForgetsHeld ==
    ASSUME Forgets
    PROVE  HeldSeqs' \subseteq HeldSeqs /\ UNCHANGED <<p, outcomes, slab, fut>>
BY NoOps DEF Forgets, HeldSeqs, futVars

LEMMA LedgerKept ==
    ASSUME Types, LedgerInv, LedgerStep, may' = may
    PROVE  LedgerInv'
<1>0. /\ p.next \in Nat /\ "giveup" \notin may
      /\ \A q \in Seqs : q \in Nat
  BY QueueFields, SendsAssumption DEF Types, LedgerInv, Seqs
<1>1. ASSUME NEW K, NEW result \in Results \ {"none"}, Keeps(K, result)
      PROVE  LedgerInv'
  <2>1. /\ p'.next = p.next /\ K \subseteq HeldSeqs /\ HeldSeqs' = HeldSeqs \ K /\ Woken
        /\ \A q \in Seqs : outcomes'[q] = IF q \in K THEN result ELSE outcomes[q]
    BY <1>1 DEF Keeps, Settles
  <2>2. ASSUME NEW q \in Seqs
        PROVE  /\ q < p'.next <=> fut'[q] # "idle"
               /\ q \in HeldSeqs' => outcomes'[q] = "none" /\ fut'[q] \in Waiting
               /\ outcomes'[q] # "none" => fut'[q] \in Waiting
    <3>1. /\ q < p.next <=> fut[q] # "idle"
          /\ q \in HeldSeqs => outcomes[q] = "none" /\ fut[q] \in Waiting
          /\ outcomes[q] # "none" => fut[q] \in Waiting
      BY DEF LedgerInv
    <3>2. /\ fut[q] \in Waiting <=> fut'[q] \in Waiting
          /\ fut[q] \notin Waiting => fut'[q] = fut[q]
      BY <2>1, WokenWait
    <3>3. "idle" \notin Waiting
      BY DEF Waiting
    <3> QED
      BY <2>1, <3>1, <3>2, <3>3
  <2> QED
    BY <1>0, <2>2 DEF LedgerInv
<1>2. CASE Accepts
  <2>1. /\ p.next \in Seqs /\ p'.next = p.next + 1 /\ HeldSeqs' = HeldSeqs \cup {p.next}
        /\ fut' = [fut EXCEPT ![p.next] = "ready"] /\ outcomes' = outcomes
        /\ fut \in [Seqs -> Futures]
    BY <1>2 DEF Accepts, Types, FutTypes
  <2>2. "ready" \in Waiting /\ "idle" \notin Waiting
    BY DEF Waiting
  <2> QED
    BY <1>0, <2>1, <2>2 DEF LedgerInv
<1>3. ASSUME NEW n \in Seqs, Polled(n) PROVE LedgerInv'
  <2>1. p'.next = p.next /\ HeldSeqs' = HeldSeqs /\ fut[n] \in Waiting
        /\ fut \in [Seqs -> Futures] /\ outcomes \in [Seqs -> Results]
    BY <1>3 DEF Polled, Waiting, Types, FutTypes
  <2>2. "parked" \in Waiting /\ "idle" \notin Waiting
    BY DEF Waiting
  <2>3. CASE outcomes[n] # "none"
    <3>1. /\ fut' = [fut EXCEPT ![n] = IF outcomes[n] = "receipt" THEN "ok" ELSE "err"]
          /\ outcomes' = [outcomes EXCEPT ![n] = "none"]
      BY <1>3, <2>3 DEF Polled
    <3>2. n \notin HeldSeqs
      BY <2>3 DEF LedgerInv
    <3> QED
      BY <1>0, <2>1, <2>2, <2>3, <3>1, <3>2 DEF LedgerInv
  <2>4. CASE outcomes[n] = "none"
    <3>1. fut' = [fut EXCEPT ![n] = "parked"] /\ outcomes' = outcomes
      BY <1>3, <2>4 DEF Polled
    <3> QED
      BY <1>0, <2>1, <2>2, <3>1 DEF LedgerInv
  <2> QED
    BY <2>3, <2>4
<1>4. CASE Confirms
  <2>1. PICK K : Keeps(K, "receipt")
    BY <1>4 DEF Confirms
  <2> QED
    BY <1>1, <2>1 DEF Results
<1>5. CASE Fails
  <2>1. PICK K : Keeps(K, "error") \/ Keeps(K, "terminal")
    BY <1>5 DEF Fails
  <2> QED
    BY <1>1, <2>1 DEF Results
<1>6. CASE Forgets
  <2>1. HeldSeqs' \subseteq HeldSeqs /\ UNCHANGED <<p, outcomes, slab, fut>>
    BY <1>6, ForgetsHeld
  <2> QED
    BY <1>0, <2>1 DEF LedgerInv
<1> QED
  BY <1>0, <1>2, <1>3, <1>4, <1>5, <1>6 DEF LedgerStep

(* What the abstract promise sees of a step. *)
VerdictOf(f, o) ==
    IF f = "idle" THEN "idle"
    ELSE IF f \in Done THEN f
    ELSE IF o = "none" THEN "open" ELSE IF o = "receipt" THEN "ok" ELSE "err"

LEMMA VerdictIs == Verdict = [q \in Seqs |-> VerdictOf(fut[q], outcomes[q])]
BY DEF Verdict, VerdictOf

LEMMA WaitingVerdict ==
    \A f \in Waiting : \A o : VerdictOf(f, o) =
        IF o = "none" THEN "open" ELSE IF o = "receipt" THEN "ok" ELSE "err"
BY DEF Waiting, Done, VerdictOf

(* A settlement gives every send of K the same verdict, and changes no     *)
(* other.                                                                  *)
LEMMA SettledVerdict ==
    ASSUME LedgerInv, Types, NEW K, NEW result \in Results \ {"none"}, Keeps(K, result)
    PROVE  /\ Verdict' = [q \in Seqs |-> IF q \in K
                            THEN IF result = "receipt" THEN "ok" ELSE "err" ELSE Verdict[q]]
           /\ K \subseteq {q \in Seqs : Verdict[q] = "open"}
<1>1. /\ K \subseteq HeldSeqs /\ Woken
      /\ \A q \in Seqs : outcomes'[q] = IF q \in K THEN result ELSE outcomes[q]
  BY DEF Keeps, Settles
<1>2. ASSUME NEW q \in Seqs, q \in K
      PROVE  /\ VerdictOf(fut'[q], outcomes'[q]) = IF result = "receipt" THEN "ok" ELSE "err"
             /\ VerdictOf(fut[q], outcomes[q]) = "open"
  <2>1. outcomes[q] = "none" /\ fut[q] \in Waiting /\ outcomes'[q] = result /\ result # "none"
    BY <1>1, <1>2 DEF LedgerInv
  <2>2. fut'[q] \in Waiting
    BY <1>1, <2>1, WokenWait
  <2> QED
    BY <2>1, <2>2, WaitingVerdict
<1>3. ASSUME NEW q \in Seqs, q \notin K
      PROVE  VerdictOf(fut'[q], outcomes'[q]) = VerdictOf(fut[q], outcomes[q])
  <2>1. outcomes'[q] = outcomes[q]
    BY <1>1, <1>3
  <2>2. CASE fut[q] \in Waiting
    <3>1. fut'[q] \in Waiting
      BY <1>1, <2>2, WokenWait
    <3> QED
      BY <2>1, <2>2, <3>1, WaitingVerdict
  <2>3. CASE fut[q] \notin Waiting
    BY <1>1, <2>1, <2>3, WokenWait
  <2> QED
    BY <2>2, <2>3
<1>4. Verdict' = [q \in Seqs |-> VerdictOf(fut'[q], outcomes'[q])]
  BY DEF Verdict, VerdictOf
<1>5. \A q \in Seqs : Verdict[q] = VerdictOf(fut[q], outcomes[q])
  BY VerdictIs
<1>6. K \subseteq Seqs
  BY <1>1, HeldBelow
<1> QED
  BY <1>2, <1>3, <1>4, <1>5, <1>6

LEMMA VerdictAt ==
    /\ \A q \in Seqs : Verdict[q] = VerdictOf(fut[q], outcomes[q])
    /\ Verdict' = [q \in Seqs |-> VerdictOf(fut'[q], outcomes'[q])]
    /\ \A o : VerdictOf("idle", o) = "idle"
    /\ \A f, o : f # "idle" => VerdictOf(f, o) # "idle"
<1>1. \A q \in Seqs : Verdict[q] = VerdictOf(fut[q], outcomes[q])
  BY VerdictIs
<1>2. Verdict' = [q \in Seqs |-> VerdictOf(fut'[q], outcomes'[q])]
  BY DEF Verdict, VerdictOf
<1>3. \A o : VerdictOf("idle", o) = "idle"
  BY DEF VerdictOf
<1>4. \A f, o : f # "idle" => VerdictOf(f, o) # "idle"
  BY DEF VerdictOf, Done
<1> QED
  BY <1>1, <1>2, <1>3, <1>4

(* A poll that takes an outcome, or finds none, changes no verdict. *)
LEMMA PolledVerdict ==
    ASSUME Types, NEW n \in Seqs, Polled(n)
    PROVE  Verdict' = Verdict
<1>1. /\ fut \in [Seqs -> Futures] /\ outcomes \in [Seqs -> Results] /\ fut[n] \in Waiting
  BY DEF Types, FutTypes, Polled, Waiting
<1>2. VerdictOf(fut'[n], outcomes'[n]) = VerdictOf(fut[n], outcomes[n])
  <2>1. CASE outcomes[n] = "none"
    <3>1. fut'[n] = "parked" /\ outcomes'[n] = outcomes[n] /\ "parked" \in Waiting
      BY <1>1, <2>1 DEF Polled, Waiting
    <3> QED
      BY <1>1, <3>1, WaitingVerdict
  <2>2. CASE outcomes[n] # "none"
    <3>1. fut'[n] = IF outcomes[n] = "receipt" THEN "ok" ELSE "err"
      BY <1>1, <2>2 DEF Polled
    <3>2. \A o : VerdictOf("ok", o) = "ok" /\ VerdictOf("err", o) = "err"
      BY DEF VerdictOf, Done
    <3> QED
      BY <1>1, <2>2, <3>1, <3>2, WaitingVerdict
  <2> QED
    BY <2>1, <2>2
<1>3. ASSUME NEW q \in Seqs, q # n
      PROVE  VerdictOf(fut'[q], outcomes'[q]) = VerdictOf(fut[q], outcomes[q])
  <2>1. fut'[q] = fut[q] /\ outcomes'[q] = outcomes[q]
    BY <1>1, <1>3 DEF Polled
  <2> QED
    BY <2>1
<1> QED
  BY <1>2, <1>3, VerdictAt, VerdictIs

LEMMA AcceptedVerdict ==
    ASSUME Types, LedgerInv, Accepts
    PROVE  /\ p.next \in Seqs /\ Verdict[p.next] = "idle"
           /\ \A r \in Seqs : r < p.next => Verdict[r] # "idle"
           /\ Verdict' = [Verdict EXCEPT ![p.next] = "open"]
<1>1. /\ p.next \in Seqs /\ fut' = [fut EXCEPT ![p.next] = "ready"] /\ outcomes' = outcomes
      /\ fut \in [Seqs -> Futures] /\ p.next \in Nat
  BY QueueFields DEF Types, FutTypes, Accepts
<1>2. fut[p.next] = "idle" /\ outcomes[p.next] = "none"
  BY <1>1 DEF LedgerInv, Waiting
<1>3. VerdictOf("ready", "none") = "open"
  BY DEF VerdictOf, Done
<1>4. \A r \in Seqs : r < p.next => Verdict[r] # "idle"
  <2> SUFFICES ASSUME NEW r \in Seqs, r < p.next PROVE Verdict[r] # "idle"
    OBVIOUS
  <2>1. fut[r] # "idle"
    BY DEF LedgerInv
  <2> QED
    BY <2>1, VerdictAt
<1>5. Verdict[p.next] = "idle"
  BY <1>1, <1>2, VerdictAt
<1>6. \A q \in Seqs : VerdictOf(fut'[q], outcomes'[q])
                        = IF q = p.next THEN "open" ELSE VerdictOf(fut[q], outcomes[q])
  BY <1>1, <1>2, <1>3
<1>7. DOMAIN Verdict = Seqs /\ Verdict = [q \in Seqs |-> Verdict[q]]
  BY VerdictIs
<1> QED
  BY <1>1, <1>4, <1>5, <1>6, <1>7, VerdictAt

Holds(e, q) == e.persisted /\ Carries(e.frame, q)

LEMMA StoredIs ==
    /\ Stored = {q \in Seqs : \E e \in In(log) : Holds(e, q)}
    /\ Stored' = {q \in Seqs : \E e \in In(log') : Holds(e, q)}
<1>1. Stored = {q \in Seqs : \E e \in In(log) : Holds(e, q)}
  BY DEF Stored, In, Holds
<1>2. Stored' = {q \in Seqs : \E e \in In(log') : Holds(e, q)}
  BY DEF Stored, In, Holds
<1> QED
  BY <1>1, <1>2

(* The broker persists a frame of sends that exist. *)
LEMMA StoresPromise ==
    ASSUME Types, LedgerInv, Stores
    PROVE  /\ Verdict' = Verdict
           /\ \E S \in SUBSET {q \in Seqs \ Stored : Verdict[q] # "idle"} :
                 Stored' = Stored \cup S
<1>1. PICK f \in In(wire), persisted \in BOOLEAN :
         /\ f.type = "Send"
         /\ log' = Append(log, [frame |-> f.arg, persisted |-> persisted])
         /\ UNCHANGED futVars
  BY DEF Stores
<1> DEFINE e == [frame |-> f.arg, persisted |-> persisted]
           S == {q \in Seqs \ Stored : Holds(e, q)}
<1>2. Verdict' = Verdict
  BY <1>1, VerdictAt, VerdictIs DEF futVars
<1>3. f.arg \in Sound(p.next)
  <2>1. f \in LiveFrames(p.next)
    BY InList DEF Types
  <2> QED
    BY <1>1, <2>1 DEF LiveFrames, Sends
<1>4. e.frame = f.arg /\ e \in Entries(p.next)
  BY <1>3 DEF Entries
<1>5. In(log') = In(log) \cup {e}
  <2>1. log \in Seq(Entries(p.next))
    BY DEF Types
  <2> HIDE DEF e
  <2> QED
    BY <1>1, <1>4, <2>1, InList DEF e
<1> HIDE DEF e
<1>6. ASSUME NEW q \in Seqs, Holds(e, q) PROVE Verdict[q] # "idle"
  <2>1. p.next \in Nat
    BY QueueFields DEF Types
  <2>2. f.arg.hi \in Seqs /\ f.arg.hi < p.next
    BY <1>3 DEF Sound, SendFrames
  <2>3. q <= f.arg.hi
    BY <1>4, <1>6 DEF Holds, Carries
  <2>4. q < p.next
    BY <2>1, <2>2, <2>3, SendsAssumption DEF Seqs
  <2>5. fut[q] # "idle"
    BY <2>4 DEF LedgerInv
  <2> QED
    BY <2>5, VerdictAt
<1>7. Stored' = Stored \cup S
  BY <1>5, StoredIs
<1>8. S \in SUBSET {q \in Seqs \ Stored : Verdict[q] # "idle"}
  BY <1>6
<1> QED
  BY <1>2, <1>7, <1>8

(* A receipt confirms what the broker has persisted. *)
LEMMA ConfirmsPromise ==
    ASSUME Types, LedgerInv, ReceiptInv, Confirms
    PROVE  \E K \in SUBSET ({q \in Seqs : Verdict[q] = "open"} \cap Stored) :
              Verdict' = [q \in Seqs |-> IF q \in K THEN "ok" ELSE Verdict[q]]
<1>1. PICK f \in In(inbound) :
         f.type = "SendReceipt" /\ \E K \in SUBSET (f.arg.lo..f.arg.hi) : Keeps(K, "receipt")
  BY DEF Confirms
<1>2. PICK K \in SUBSET (f.arg.lo..f.arg.hi) : Keeps(K, "receipt")
  BY <1>1
<1>3. /\ Verdict' = [q \in Seqs |-> IF q \in K THEN "ok" ELSE Verdict[q]]
      /\ K \subseteq {q \in Seqs : Verdict[q] = "open"}
  BY <1>2, SettledVerdict DEF Results
<1>4. K \subseteq Stored
  <2> SUFFICES ASSUME NEW q \in K PROVE q \in Stored
    OBVIOUS
  <2>1. Persisted(f.arg) \in In(log)
    BY <1>1 DEF ReceiptInv
  <2>2. f.arg \in Sound(p.next)
    <3>1. f \in Answers(p.next)
      BY InList DEF Types
    <3> QED
      BY <1>1, <3>1 DEF Answers
  <2>3. q \in Seqs /\ f.arg.lo \in Int /\ f.arg.hi \in Int /\ q \in f.arg.lo..f.arg.hi
    BY <1>3, <2>2 DEF Sound, SendFrames, Seqs
  <2>4. Holds(Persisted(f.arg), q)
    BY <2>3 DEF Holds, Persisted, Carries
  <2> QED
    BY <2>1, <2>3, <2>4, StoredIs
<1> QED
  BY <1>3, <1>4

LEMMA FailsPromise ==
    ASSUME Types, LedgerInv, Fails
    PROVE  \E K \in SUBSET {q \in Seqs : Verdict[q] = "open"} :
              Verdict' = [q \in Seqs |-> IF q \in K THEN "err" ELSE Verdict[q]]
<1>1. PICK K : Keeps(K, "error") \/ Keeps(K, "terminal")
  BY DEF Fails
<1>2. PICK result \in {"error", "terminal"} : Keeps(K, result)
  BY <1>1
<1>3. /\ Verdict' = [q \in Seqs |-> IF q \in K THEN "err" ELSE Verdict[q]]
      /\ K \subseteq {q \in Seqs : Verdict[q] = "open"}
  BY <1>2, SettledVerdict DEF Results
<1> QED
  BY <1>3

(* Every step of the session is one of the promise, or invisible to it. *)
LEMMA PromiseStep ==
    ASSUME Types, ReceiptInv, LedgerInv, LedgerStep
    PROVE  Promise!Next \/ (Verdict' = Verdict /\ Stored' = Stored)
<1>1. CASE Stores
  BY <1>1, StoresPromise DEF Promise!Next, Promise!Store
<1>2. CASE log' = log
  <2>1. Stored' = Stored
    BY <1>2, StoredIs
  <2>2. CASE Accepts
    BY <2>1, <2>2, AcceptedVerdict DEF Promise!Next, Promise!Accept
  <2>3. CASE \E q \in Seqs : Polled(q)
    BY <2>1, <2>3, PolledVerdict
  <2>4. CASE Confirms
    BY <2>1, <2>4, ConfirmsPromise DEF Promise!Next, Promise!Settle, Promise!Open
  <2>5. CASE Fails
    BY <2>1, <2>5, FailsPromise DEF Promise!Next, Promise!Settle, Promise!Open
  <2>6. CASE Forgets
    BY <2>1, <2>6, VerdictAt, VerdictIs DEF Forgets, futVars
  <2> QED
    BY <2>2, <2>3, <2>4, <2>5, <2>6 DEF LedgerStep, LedgerInv
<1> QED
  BY <1>1, <1>2 DEF LedgerStep

NoGiveUp == \A S \in Scenarios : "giveup" \notin S

LEMMA PromiseStarts ==
    ASSUME NoGiveUp, SessionInit
    PROVE  LedgerInv /\ Promise!Init
<1>1. /\ p = FreshProducer /\ snapshots = <<>> /\ log = <<>> /\ may \in Scenarios
      /\ outcomes = [q \in Seqs |-> "none"] /\ fut = [q \in Seqs |-> "idle"]
  BY DEF SessionInit, Init
<1>2. p.next = 1 /\ p.pending = <<>>
  BY <1>1, FreshProducerIs
<1>3. HeldSeqs = {}
  BY <1>1, <1>2, NoOps DEF HeldSeqs
<1>4. LedgerInv
  BY <1>1, <1>2, <1>3, SendsAssumption DEF LedgerInv, NoGiveUp, Seqs
<1>5. Stored = {}
  <2>1. In(log) = {}
    BY <1>1 DEF In
  <2> QED
    BY <2>1, StoredIs
<1>6. Verdict = [q \in Seqs |-> "idle"]
  BY <1>1 DEF Verdict
<1> QED
  BY <1>4, <1>5, <1>6 DEF Promise!Init

(* Unless the supervisor gives up for good, a session keeps PublishPromise *)
(* for any number of sends, disruptions and retries: each send gets one    *)
(* verdict, never revised, and none is confirmed that the broker did not   *)
(* persist.                                                                *)
THEOREM PromiseTheorem ==
    ASSUME NoGiveUp
    PROVE  SessionSpec => KeepsPromise
<1>1. SessionInit => SessionInv /\ LedgerInv /\ Promise!Init
  BY SessionStarts, PromiseStarts
<1>2. SessionInv /\ LedgerInv /\ [SessionNext]_svars
        => LedgerInv' /\ [Promise!Next]_(Promise!promise)
  <2> SUFFICES ASSUME SessionInv, LedgerInv, [SessionNext]_svars
               PROVE  LedgerInv' /\ [Promise!Next]_(Promise!promise)
    OBVIOUS
  <2>1. CASE SessionNext
    <3>1. Types /\ ReceiptInv /\ LedgerStep /\ may' = may
      BY <2>1, SessionSteps DEF Stepped, SessionInv, AttachStep
    <3>2. LedgerInv'
      BY <3>1, LedgerKept
    <3> QED
      BY <3>1, <3>2, PromiseStep DEF Promise!promise
  <2>2. CASE UNCHANGED svars
    <3>1. UNCHANGED <<p, snapshots, outcomes, slab, fut, log, may>>
      BY <2>2 DEF svars, vars, bvars, futVars
    <3>2. LedgerInv'
      BY <3>1 DEF LedgerInv, HeldSeqs
    <3>3. Verdict' = Verdict /\ Stored' = Stored
      BY <3>1, VerdictAt, VerdictIs, StoredIs
    <3> QED
      BY <3>2, <3>3 DEF Promise!promise
  <2> QED
    BY <2>1, <2>2
<1> QED
  BY <1>1, <1>2, SessionInvariant, PTL DEF SessionSpec, KeepsPromise, Promise!Spec

-----------------------------------------------------------------------------
(* Tracking: an undecided send is held.  A rebuild that finds the handle   *)
(* gone or closed drops what the reset set aside, so a session in which    *)
(* the application closes the producer is tracked only while its           *)
(* connection stays up.                                                    *)

HandleInv ==
    /\ ~p.has_ever_attached => p.next = 1
    /\ ~known => (p.closed \/ ~p.has_ever_attached) /\ HeldSeqs = {}
    /\ p.closed /\ known => "close" \in may
    /\ conn # "connected" => "disconnect" \in may
    /\ ~({"close", "disconnect"} \subseteq may)

TrackedInv ==
    \A q \in Seqs : fut[q] \in Waiting /\ outcomes[q] = "none" => q \in HeldSeqs

(* Only a send that is accepted joins the ones held. *)
LEMMA HeldShrinks ==
    ASSUME LedgerInv, LedgerStep
    PROVE  Accepts \/ (p'.next = p.next /\ HeldSeqs' \subseteq HeldSeqs)
<1>1. ASSUME NEW q \in Seqs, Polled(q) PROVE p'.next = p.next /\ HeldSeqs' \subseteq HeldSeqs
  BY <1>1 DEF Polled
<1>2. ASSUME NEW K, NEW result, Keeps(K, result)
      PROVE  p'.next = p.next /\ HeldSeqs' \subseteq HeldSeqs
  BY <1>2 DEF Keeps
<1>3. Confirms => p'.next = p.next /\ HeldSeqs' \subseteq HeldSeqs
  BY <1>2 DEF Confirms
<1>4. Fails => p'.next = p.next /\ HeldSeqs' \subseteq HeldSeqs
  BY <1>2 DEF Fails
<1>5. Forgets => p'.next = p.next /\ HeldSeqs' \subseteq HeldSeqs
  BY ForgetsHeld
<1> QED
  BY <1>1, <1>3, <1>4, <1>5 DEF LedgerStep, LedgerInv

LEMMA HandleKept ==
    ASSUME Types, Types', LedgerInv, LedgerStep, AttachStep, HandleInv
    PROVE  HandleInv'
<1>1. /\ may' = may /\ "giveup" \notin may
      /\ known' => known
      /\ p.has_ever_attached => p'.has_ever_attached
      /\ p'.has_ever_attached => p.has_ever_attached \/ known
      /\ p.closed => p'.closed
      /\ known /\ ~known' => \/ p'.closed /\ HeldSeqs' = {}
                             \/ ~p.has_ever_attached /\ ~p'.has_ever_attached
      /\ known' /\ p'.closed => p.closed \/ "close" \in may
      /\ conn' # "connected" => conn # "connected" \/ "disconnect" \in may
  BY DEF AttachStep, LedgerInv
<1>2. Accepts \/ (p'.next = p.next /\ HeldSeqs' \subseteq HeldSeqs)
  BY HeldShrinks
<1>3. Accepts => p.has_ever_attached /\ ~p.closed
  BY DEF Accepts
<1>4. ~p'.has_ever_attached => p'.next = 1
  BY <1>1, <1>2, <1>3 DEF HandleInv
<1>5. p'.next = 1 => HeldSeqs' = {}
  <2>1. \A q \in HeldSeqs' : q \in Seqs /\ q < p'.next
    <3>1. /\ SeqsOf(snapshots') \subseteq Seqs /\ \A q \in SeqsOf(snapshots') : q < p'.next
          /\ SeqsOf(p'.pending) = Keys(OpsOf(p'.pending)) /\ SeqsOf(p'.pending) \subseteq Seqs
          /\ \A op \in OpsOf(p'.pending) : op.seq < p'.next
      BY QueueFields, OpsAreOps DEF Types, SnapshotTypes
    <3>2. \A q \in SeqsOf(p'.pending) : q < p'.next
      BY <3>1 DEF Keys
    <3> QED
      BY <3>1, <3>2 DEF HeldSeqs
  <2> QED
    BY <2>1, SendsAssumption DEF Seqs
<1>6. ~known' => (p'.closed \/ ~p'.has_ever_attached) /\ HeldSeqs' = {}
  <2>1. CASE known
    BY <1>1, <1>4, <1>5, <2>1
  <2>2. CASE ~known
    BY <1>1, <1>2, <1>3, <2>2 DEF HandleInv
  <2> QED
    BY <2>1, <2>2
<1> QED
  BY <1>1, <1>4, <1>6 DEF HandleInv

LEMMA TrackedKept ==
    ASSUME Types, LedgerInv, LedgerStep, HandleInv, TrackedInv
    PROVE  TrackedInv'
<1>0. fut \in [Seqs -> Futures] /\ outcomes \in [Seqs -> Results]
  BY DEF Types, FutTypes
<1>1. ASSUME NEW K, NEW result \in Results \ {"none"}, Keeps(K, result)
      PROVE  TrackedInv'
  <2>1. /\ HeldSeqs' = HeldSeqs \ K /\ Woken
        /\ \A q \in Seqs : outcomes'[q] = IF q \in K THEN result ELSE outcomes[q]
    BY <1>1 DEF Keeps, Settles
  <2>2. \A q \in Seqs : fut'[q] \in Waiting => fut[q] \in Waiting
    BY <2>1, WokenWait
  <2> QED
    BY <2>1, <2>2 DEF TrackedInv
<1>2. CASE Accepts
  <2>1. /\ p.next \in Seqs /\ HeldSeqs' = HeldSeqs \cup {p.next}
        /\ fut' = [fut EXCEPT ![p.next] = "ready"] /\ outcomes' = outcomes
    BY <1>2 DEF Accepts
  <2> QED
    BY <1>0, <2>1 DEF TrackedInv
<1>3. ASSUME NEW n \in Seqs, Polled(n) PROVE TrackedInv'
  <2>1. HeldSeqs' = HeldSeqs /\ fut[n] \in Waiting
    BY <1>3 DEF Polled, Waiting
  <2>2. ASSUME NEW q \in Seqs, fut'[q] \in Waiting, outcomes'[q] = "none"
        PROVE  fut[q] \in Waiting /\ outcomes[q] = "none"
    <3>1. CASE q # n
      BY <1>0, <1>3, <2>2, <3>1 DEF Polled
    <3>2. CASE q = n /\ outcomes[n] # "none"
      <4>1. fut'[n] \in {"ok", "err"}
        BY <1>0, <1>3, <3>2 DEF Polled
      <4> QED
        BY <2>2, <3>2, <4>1 DEF Waiting
    <3>3. CASE q = n /\ outcomes[n] = "none"
      BY <2>1, <3>3
    <3> QED
      BY <3>1, <3>2, <3>3
  <2> QED
    BY <2>1, <2>2 DEF TrackedInv
<1>4. CASE Confirms
  <2>1. PICK K : Keeps(K, "receipt")
    BY <1>4 DEF Confirms
  <2> QED
    BY <1>1, <2>1 DEF Results
<1>5. CASE Fails
  <2>1. PICK K : Keeps(K, "error") \/ Keeps(K, "terminal")
    BY <1>5 DEF Fails
  <2> QED
    BY <1>1, <2>1 DEF Results
<1>6. CASE Forgets /\ conn = "rebuilding" /\ (~known \/ p.closed)
  <2>1. HeldSeqs = {}
    BY <1>6 DEF HandleInv
  <2>2. UNCHANGED <<outcomes, fut>>
    BY <1>6 DEF Forgets, futVars
  <2> QED
    BY <2>1, <2>2 DEF TrackedInv
<1> QED
  BY <1>2, <1>3, <1>4, <1>5, <1>6 DEF LedgerStep, LedgerInv

LEMMA TrackedImplies ==
    ASSUME Types, LedgerInv, TrackedInv
    PROVE  SendsTracked
<1>0. /\ p.pending \in Seq(Ops) /\ Sorted(p.pending)
      /\ snapshots \in Seq(Ops) /\ Sorted(snapshots)
      /\ \A a \in SeqsOf(snapshots), b \in SeqsOf(p.pending) : a < b
      /\ p.next \in Nat
  BY QueueFields DEF Types, SnapshotTypes
<1>1. \A x \in OpsOf(snapshots), y \in OpsOf(p.pending) : x.seq < y.seq
  BY <1>0 DEF OpsOf, SeqsOf
<1>2. /\ Held \in Seq(Ops) /\ Sorted(Held)
      /\ OpsOf(Held) = OpsOf(snapshots) \cup OpsOf(p.pending)
  BY <1>0, <1>1, JoinOps DEF Held
<1>3. SeqsOf(Held) = HeldSeqs
  <2>1. /\ SeqsOf(Held) = Keys(OpsOf(Held))
        /\ SeqsOf(snapshots) = Keys(OpsOf(snapshots))
        /\ SeqsOf(p.pending) = Keys(OpsOf(p.pending))
    BY <1>0, <1>2, OpsAreOps
  <2>2. Keys(OpsOf(snapshots) \cup OpsOf(p.pending))
          = Keys(OpsOf(snapshots)) \cup Keys(OpsOf(p.pending))
    BY DEF Keys
  <2> QED
    BY <1>2, <2>1, <2>2 DEF HeldSeqs
<1>4. \A i, j \in 1..Len(Held) : Held[i].seq = Held[j].seq => i = j
  <2> SUFFICES ASSUME NEW i \in 1..Len(Held), NEW j \in 1..Len(Held), Held[i].seq = Held[j].seq
               PROVE  i = j
    OBVIOUS
  <2>1. \A k \in 1..Len(Held) : Held[k].seq \in Nat
    <3>1. \A k \in 1..Len(Held) : Held[k] \in Ops
      BY <1>2
    <3> QED
      BY <3>1, SendsAssumption DEF Ops, Seqs
  <2>2. ~(i < j) /\ ~(j < i)
    BY <1>2, <2>1 DEF Sorted
  <2>3. i \in Int /\ j \in Int
    BY <1>2
  <2> QED
    BY <2>2, <2>3
<1>5. ASSUME NEW q \in Seqs
      PROVE  IF q < p.next THEN \E place \in Places(q) : Places(q) = {place}
                           ELSE Places(q) = {}
  <2>1. /\ q < p.next <=> fut[q] # "idle"
        /\ q \in HeldSeqs => outcomes[q] = "none" /\ fut[q] \in Waiting
        /\ outcomes[q] # "none" => fut[q] \in Waiting
        /\ fut[q] \in Waiting /\ outcomes[q] = "none" => q \in HeldSeqs
    BY DEF LedgerInv, TrackedInv
  <2>2. fut[q] \in Futures /\ Futures = {"idle"} \cup Waiting \cup Done
        /\ Waiting \cap Done = {} /\ "idle" \notin Waiting \cup Done
    BY DEF Types, FutTypes, Futures, Waiting, Done
  <2>3. Places(q) = {place \in {"held", "resolved", "returned"} :
                       \/ place = "held" /\ q \in HeldSeqs
                       \/ place = "resolved" /\ outcomes[q] # "none"
                       \/ place = "returned" /\ fut[q] \in Done}
    BY <1>3 DEF Places
  <2>4. CASE fut[q] = "idle"
    BY <2>1, <2>2, <2>3, <2>4
  <2>5. CASE fut[q] \in Done
    <3>1. Places(q) = {"returned"}
      BY <2>1, <2>2, <2>3, <2>5
    <3> QED
      BY <2>1, <2>2, <2>5, <3>1
  <2>6. CASE fut[q] \in Waiting /\ outcomes[q] = "none"
    <3>1. Places(q) = {"held"}
      BY <2>1, <2>2, <2>3, <2>6
    <3> QED
      BY <2>1, <2>2, <2>6, <3>1
  <2>7. CASE fut[q] \in Waiting /\ outcomes[q] # "none"
    <3>1. Places(q) = {"resolved"}
      BY <2>1, <2>2, <2>3, <2>7
    <3> QED
      BY <2>1, <2>2, <2>7, <3>1
  <2> QED
    BY <2>2, <2>4, <2>5, <2>6, <2>7
<1> QED
  BY <1>4, <1>5 DEF SendsTracked

CloseOrDisconnect == \A S \in Scenarios : ~({"close", "disconnect"} \subseteq S)

(* Unless the supervisor gives up, or the application closes the producer  *)
(* and the connection fails under it, every accepted send is at any time   *)
(* in exactly one place: held once, resolved and not yet taken, or         *)
(* returned.                                                               *)
THEOREM TrackedTheorem ==
    ASSUME NoGiveUp, CloseOrDisconnect
    PROVE  SessionSpec => []SendsTracked
<1> DEFINE Inv == LedgerInv /\ HandleInv /\ TrackedInv
<1>1. SessionInit => Inv
  <2> SUFFICES ASSUME SessionInit PROVE Inv
    OBVIOUS
  <2>1. /\ p = FreshProducer /\ known = TRUE /\ conn = "connected" /\ may \in Scenarios
        /\ fut = [q \in Seqs |-> "idle"]
    BY DEF SessionInit, Init
  <2>2. HandleInv
    BY <2>1, FreshProducerIs DEF HandleInv, CloseOrDisconnect
  <2>3. TrackedInv
    BY <2>1 DEF TrackedInv, Waiting
  <2> QED
    BY <2>2, <2>3, PromiseStarts
<1>2. SessionInv /\ SessionInv' /\ Inv /\ [SessionNext]_svars => Inv'
  <2> SUFFICES ASSUME SessionInv, SessionInv', Inv, [SessionNext]_svars
               PROVE  Inv'
    OBVIOUS
  <2>1. CASE SessionNext
    <3>1. Types /\ Types' /\ LedgerStep /\ AttachStep /\ may' = may
      BY <2>1, SessionSteps DEF Stepped, SessionInv, AttachStep
    <3> QED
      BY <3>1, LedgerKept, HandleKept, TrackedKept
  <2>2. CASE UNCHANGED svars
    <3>1. UNCHANGED <<p, known, conn, snapshots, outcomes, fut, may>>
      BY <2>2 DEF svars, vars, bvars, connVars, futVars
    <3> QED
      BY <3>1 DEF LedgerInv, HandleInv, TrackedInv, HeldSeqs
  <2> QED
    BY <2>1, <2>2
<1>3. SessionInv /\ Inv => SendsTracked
  BY TrackedImplies DEF SessionInv
<1> HIDE DEF Inv
<1> QED
  BY <1>1, <1>2, <1>3, SessionInvariant, PTL DEF SessionSpec

-----------------------------------------------------------------------------
(* The order of publishes.  A frame is in turn in a sequence of frames     *)
(* when every later frame in it follows a copy of that frame: whatever the *)
(* broker takes after them is then a frame it has had before.              *)

Sent(f) == Frame("Send", f)
Has(f, w) == Sent(f) \in In(w)
Passes(x, f) == x.type = "Send" /\ Before(f, x.arg)
InTurn(f, w) ==
    \A i \in 1..Len(w) : Passes(w[i], f) => \E k \in 1..(i - 1) : w[k] = Sent(f)

LEMMA InTurnJoin ==
    ASSUME NEW S, NEW a \in Seq(S), NEW b \in Seq(S), NEW f
    PROVE  /\ a \o b \in Seq(S)
           /\ Has(f, a \o b) <=> Has(f, a) \/ Has(f, b)
           /\ InTurn(f, a \o b) <=> InTurn(f, a) /\ (Has(f, a) \/ InTurn(f, b))
<1> DEFINE all == a \o b
<1>1. /\ all \in Seq(S) /\ Len(all) = Len(a) + Len(b) /\ Len(a) \in Nat /\ Len(b) \in Nat
      /\ \A i \in 1..Len(a) : all[i] = a[i]
      /\ \A i \in 1..Len(b) : all[Len(a) + i] = b[i]
  OBVIOUS
<1>2. Has(f, all) <=> Has(f, a) \/ Has(f, b)
  BY InList DEF Has
<1> HIDE DEF all
<1>3. ASSUME InTurn(f, all) PROVE InTurn(f, a) /\ (Has(f, a) \/ InTurn(f, b))
  <2>1. InTurn(f, a)
    <3> SUFFICES ASSUME NEW i \in 1..Len(a), Passes(a[i], f)
                 PROVE  \E k \in 1..(i - 1) : a[k] = Sent(f)
      BY DEF InTurn
    <3>1. i \in 1..Len(all) /\ Passes(all[i], f)
      BY <1>1
    <3>2. PICK k \in 1..(i - 1) : all[k] = Sent(f)
      BY <1>3, <3>1 DEF InTurn
    <3>3. k \in 1..Len(a)
      BY <1>1
    <3> QED
      BY <1>1, <3>2, <3>3
  <2>2. ASSUME ~Has(f, a) PROVE InTurn(f, b)
    <3> SUFFICES ASSUME NEW i \in 1..Len(b), Passes(b[i], f)
                 PROVE  \E k \in 1..(i - 1) : b[k] = Sent(f)
      BY DEF InTurn
    <3>1. Len(a) + i \in 1..Len(all) /\ Passes(all[Len(a) + i], f)
      BY <1>1
    <3>2. PICK k \in 1..(Len(a) + i - 1) : all[k] = Sent(f)
      BY <1>3, <3>1 DEF InTurn
    <3>3. k \notin 1..Len(a)
      BY <1>1, <2>2, <3>2 DEF Has, In
    <3>4. k - Len(a) \in 1..(i - 1) /\ k - Len(a) \in 1..Len(b) /\ Len(a) + (k - Len(a)) = k
      BY <1>1, <3>3
    <3>5. b[k - Len(a)] = Sent(f)
      BY <1>1, <3>2, <3>4
    <3> QED
      BY <3>4, <3>5
  <2> QED
    BY <2>1, <2>2
<1>4. ASSUME InTurn(f, a), Has(f, a) \/ InTurn(f, b) PROVE InTurn(f, all)
  <2> SUFFICES ASSUME NEW i \in 1..Len(all), Passes(all[i], f)
               PROVE  \E k \in 1..(i - 1) : all[k] = Sent(f)
    BY DEF InTurn
  <2>1. CASE i \in 1..Len(a)
    <3>1. PICK k \in 1..(i - 1) : a[k] = Sent(f)
      BY <1>1, <1>4, <2>1 DEF InTurn
    <3>2. k \in 1..Len(a)
      BY <1>1, <2>1
    <3> QED
      BY <1>1, <3>1, <3>2
  <2>2. CASE i \notin 1..Len(a)
    <3>1. i - Len(a) \in 1..Len(b) /\ Len(a) + (i - Len(a)) = i
      BY <1>1, <2>2
    <3>2. Passes(b[i - Len(a)], f)
      BY <1>1, <3>1
    <3>3. CASE Has(f, a)
      <4>1. PICK k \in 1..Len(a) : a[k] = Sent(f)
        BY <3>3 DEF Has, In
      <4>2. k \in 1..(i - 1)
        BY <1>1, <2>2
      <4> QED
        BY <1>1, <4>1, <4>2
    <3>4. CASE InTurn(f, b)
      <4>1. PICK k \in 1..(i - Len(a) - 1) : b[k] = Sent(f)
        BY <3>1, <3>2, <3>4 DEF InTurn
      <4>2. Len(a) + k \in 1..(i - 1) /\ k \in 1..Len(b)
        BY <1>1, <3>1
      <4>3. all[Len(a) + k] = Sent(f)
        BY <1>1, <4>1, <4>2
      <4> QED
        BY <4>2, <4>3
    <3> QED
      BY <1>4, <3>3, <3>4
  <2> QED
    BY <2>1, <2>2
<1> QED
  BY <1>1, <1>2, <1>3, <1>4 DEF all

LEMMA InTurnOne ==
    ASSUME NEW x, NEW f
    PROVE  /\ Has(f, <<x>>) <=> x = Sent(f)
           /\ InTurn(f, <<x>>) <=> ~Passes(x, f)
<1>1. Len(<<x>>) = 1 /\ <<x>>[1] = x /\ 1..1 = {1} /\ 1..(1 - 1) = {}
  OBVIOUS
<1>2. Has(f, <<x>>) <=> x = Sent(f)
  BY <1>1 DEF Has, In
<1>3. InTurn(f, <<x>>) <=> ~Passes(x, f)
  BY <1>1 DEF InTurn
<1> QED
  BY <1>2, <1>3

LEMMA InTurnAppend ==
    ASSUME NEW S, NEW a \in Seq(S), NEW x \in S, NEW f
    PROVE  /\ Append(a, x) \in Seq(S)
           /\ Has(f, Append(a, x)) <=> Has(f, a) \/ x = Sent(f)
           /\ InTurn(f, Append(a, x)) <=> InTurn(f, a) /\ (Has(f, a) \/ ~Passes(x, f))
<1>1. Append(a, x) = a \o <<x>> /\ <<x>> \in Seq(S)
  OBVIOUS
<1>2. /\ Has(f, <<x>>) <=> x = Sent(f)
      /\ InTurn(f, <<x>>) <=> ~Passes(x, f)
  BY InTurnOne
<1> DEFINE h == <<x>>
<1> HIDE DEF h
<1>3. /\ Append(a, x) = a \o h /\ h \in Seq(S)
      /\ Has(f, h) <=> x = Sent(f)
      /\ InTurn(f, h) <=> ~Passes(x, f)
  BY <1>1, <1>2 DEF h
<1>4. /\ a \o h \in Seq(S)
      /\ Has(f, a \o h) <=> Has(f, a) \/ Has(f, h)
      /\ InTurn(f, a \o h) <=> InTurn(f, a) /\ (Has(f, a) \/ InTurn(f, h))
  BY <1>3, InTurnJoin
<1> QED
  BY <1>3, <1>4

LEMMA InTurnHead ==
    ASSUME NEW S, NEW w \in Seq(S), w # <<>>, NEW f
    PROVE  /\ Tail(w) \in Seq(S) /\ Head(w) \in S
           /\ Has(f, w) <=> Head(w) = Sent(f) \/ Has(f, Tail(w))
           /\ InTurn(f, w) <=> ~Passes(Head(w), f) /\ (Head(w) = Sent(f) \/ InTurn(f, Tail(w)))
<1>1. /\ w = <<Head(w)>> \o Tail(w) /\ Tail(w) \in Seq(S) /\ Head(w) \in S
      /\ <<Head(w)>> \in Seq(S)
  BY HeadTailProperties
<1> DEFINE h == <<Head(w)>>
           t == Tail(w)
<1>2. /\ Has(f, h \o t) <=> Has(f, h) \/ Has(f, t)
      /\ InTurn(f, h \o t) <=> InTurn(f, h) /\ (Has(f, h) \/ InTurn(f, t))
  BY <1>1, InTurnJoin
<1>3. /\ Has(f, h) <=> Head(w) = Sent(f)
      /\ InTurn(f, h) <=> ~Passes(Head(w), f)
  BY InTurnOne
<1> HIDE DEF h, t
<1>4. w = h \o t
  BY <1>1 DEF h, t
<1>5. /\ Has(f, w) <=> Head(w) = Sent(f) \/ Has(f, t)
      /\ InTurn(f, w) <=> ~Passes(Head(w), f) /\ (Head(w) = Sent(f) \/ InTurn(f, t))
  BY <1>2, <1>3, <1>4
<1> QED
  BY <1>1, <1>5 DEF t

LEMMA NoSendInTurn ==
    ASSUME NEW w, ~HasSend(w), NEW f
    PROVE  ~Has(f, w) /\ InTurn(f, w)
<1>1. Sent(f).type = "Send"
  BY DEF Sent, Frame
<1>2. \A i \in 1..Len(w) : w[i] \in In(w)
  BY DEF In
<1>3. \A i \in 1..Len(w) : w[i].type # "Send"
  BY <1>2 DEF HasSend
<1> QED
  BY <1>1, <1>3 DEF HasSend, Has, InTurn, Passes

(* The frames of outbound, as the driver encodes them. *)
Encoded(o) == [i \in 1..Len(o) |-> Sent(o[i])]
Ascending(o) == \A i, j \in 1..Len(o) : i < j => Before(o[i], o[j])

LEMMA SentIs ==
    ASSUME NEW f, NEW g
    PROVE  (Sent(f) = Sent(g) <=> f = g) /\ Sent(f).type = "Send" /\ Sent(f).arg = f
<1>1. Sent(f).type = "Send" /\ Sent(f).arg = f /\ Sent(g).arg = g
  BY DEF Sent, Frame
<1> QED
  BY <1>1

LEMMA EncodedIs ==
    ASSUME NEW S, NEW a \in Seq(S)
    PROVE  /\ Encoded(a) \in Seq([type : {"Send"}, arg : S]) /\ Len(Encoded(a)) = Len(a)
           /\ \A i \in 1..Len(a) : Encoded(a)[i] = Sent(a[i])
           /\ \A f : Has(f, Encoded(a)) <=> f \in In(a)
           /\ \A b \in Seq(S) : Encoded(a \o b) = Encoded(a) \o Encoded(b)
<1>1. Len(a) \in Nat /\ \A i \in 1..Len(a) : a[i] \in S
  OBVIOUS
<1>2. \A i \in 1..Len(a) : Sent(a[i]) \in [type : {"Send"}, arg : S]
  BY <1>1 DEF Sent, Frame
<1>3. /\ Encoded(a) \in Seq([type : {"Send"}, arg : S]) /\ Len(Encoded(a)) = Len(a)
      /\ \A i \in 1..Len(a) : Encoded(a)[i] = Sent(a[i])
  BY <1>1, <1>2 DEF Encoded
<1>4. ASSUME NEW f PROVE Has(f, Encoded(a)) <=> f \in In(a)
  BY <1>3, SentIs DEF Has, In
<1>5. ASSUME NEW b \in Seq(S) PROVE Encoded(a \o b) = Encoded(a) \o Encoded(b)
  <2> DEFINE c == a \o b
             A == Encoded(a)
             B == Encoded(b)
  <2>1. /\ c \in Seq(S) /\ Len(c) = Len(a) + Len(b) /\ Len(a) \in Nat /\ Len(b) \in Nat
        /\ \A i \in 1..Len(a) : c[i] = a[i]
        /\ \A i \in 1..Len(b) : c[Len(a) + i] = b[i]
    OBVIOUS
  <2>2. /\ B \in Seq([type : {"Send"}, arg : S]) /\ Len(B) = Len(b)
        /\ \A i \in 1..Len(b) : B[i] = Sent(b[i])
    <3>1. \A i \in 1..Len(b) : Sent(b[i]) \in [type : {"Send"}, arg : S]
      BY DEF Sent, Frame
    <3> QED
      BY <2>1, <3>1 DEF Encoded
  <2>2a. /\ A \in Seq([type : {"Send"}, arg : S]) /\ Len(A) = Len(a)
         /\ \A i \in 1..Len(a) : A[i] = Sent(a[i])
    BY <1>3
  <2> HIDE DEF A, B, c
  <2> DEFINE E == [type : {"Send"}, arg : S]
             C == Encoded(c)
  <2>3. C \in Seq(E) /\ Len(C) = Len(a) + Len(b) /\ \A i \in 1..Len(c) : C[i] = Sent(c[i])
    <3>1. \A i \in 1..Len(c) : Sent(c[i]) \in E
      BY <2>1 DEF Sent, Frame
    <3> QED
      BY <2>1, <3>1 DEF Encoded
  <2> HIDE DEF C, E
  <2>4. A \in Seq(E) /\ B \in Seq(E)
    BY <2>2, <2>2a DEF E
  <2>4a. /\ A \o B \in Seq(E) /\ Len(A \o B) = Len(a) + Len(b)
         /\ \A i \in 1..Len(a) : (A \o B)[i] = A[i]
         /\ \A i \in 1..Len(b) : (A \o B)[Len(a) + i] = B[i]
    <3>1. /\ A \o B \in Seq(E) /\ Len(A \o B) = Len(A) + Len(B)
          /\ \A i \in 1..Len(A) : (A \o B)[i] = A[i]
          /\ \A i \in 1..Len(B) : (A \o B)[Len(A) + i] = B[i]
      BY ONLY <2>4
    <3> QED
      BY <2>2, <2>2a, <3>1
  <2>5. ASSUME NEW i \in 1..(Len(a) + Len(b)) PROVE C[i] = (A \o B)[i]
    <3>1. CASE i \in 1..Len(a)
      <4>1. C[i] = Sent(a[i])
        BY <2>1, <2>3, <3>1
      <4> QED
        BY <2>2a, <2>4a, <3>1, <4>1
    <3>2. CASE i \notin 1..Len(a)
      <4>1. i - Len(a) \in 1..Len(b) /\ Len(a) + (i - Len(a)) = i /\ i \in 1..Len(c)
        BY <2>1, <3>2
      <4>2. C[i] = Sent(b[i - Len(a)])
        BY <2>1, <2>3, <4>1
      <4>3. (A \o B)[i] = B[i - Len(a)]
        BY <2>4a, <4>1
      <4> QED
        BY <2>2, <4>1, <4>2, <4>3
    <3> QED
      BY <3>1, <3>2
  <2>6. C = A \o B
    <3> DEFINE D == A \o B
    <3>1. D \in Seq(E) /\ Len(D) = Len(C) /\ \A i \in 1..Len(C) : C[i] = D[i]
      BY <2>3, <2>4a, <2>5
    <3> HIDE DEF D
    <3>2. C = D
      BY <2>3, <3>1, SeqEqual
    <3> QED
      BY <3>2 DEF D
  <2> QED
    BY <2>6 DEF A, B, C, c
<1> QED
  BY <1>3, <1>4, <1>5

LEMMA AscendingInTurn ==
    ASSUME NEW o \in Seq(SendFrames), Ascending(o), NEW f \in In(o)
    PROVE  InTurn(f, Encoded(o))
<1>1. /\ Len(Encoded(o)) = Len(o) /\ \A i \in 1..Len(o) : Encoded(o)[i] = Sent(o[i])
      /\ Len(o) \in Nat
  <2>1. Len(o) \in Nat
    OBVIOUS
  <2> QED
    BY <2>1, EncodedIs
<1> SUFFICES ASSUME NEW i \in 1..Len(o), Passes(Encoded(o)[i], f)
             PROVE  \E k \in 1..(i - 1) : Encoded(o)[k] = Sent(f)
  BY <1>1 DEF InTurn
<1>2. Before(f, o[i])
  BY <1>1, SentIs DEF Passes
<1>3. PICK j \in 1..Len(o) : f = o[j]
  BY DEF In
<1>4. \A x \in SendFrames : x.lo \in Nat /\ x.part \in Nat
  <2>1. (\A q \in Seqs : q \in Nat) /\ (\A k \in 1..Parts : k \in Nat)
    BY SendsAssumption, PartsAssumption DEF Seqs
  <2> QED
    BY <2>1 DEF SendFrames
<1>5. o[i] \in SendFrames /\ o[j] \in SendFrames
  OBVIOUS
<1>6. ~(i < j) /\ i # j
  BY <1>2, <1>3, <1>4, <1>5, SMTT(40) DEF Ascending, Before
<1>7. j \in 1..(i - 1)
  BY <1>1, <1>6
<1> QED
  BY <1>1, <1>3, <1>7

LEMMA AscendingJoin ==
    ASSUME NEW S, NEW a \in Seq(S), NEW b \in Seq(S), Ascending(a), Ascending(b),
           \A x \in In(a), y \in In(b) : Before(x, y)
    PROVE  Ascending(a \o b)
<1> DEFINE all == a \o b
<1>1. /\ all \in Seq(S) /\ Len(all) = Len(a) + Len(b) /\ Len(a) \in Nat /\ Len(b) \in Nat
      /\ \A i \in 1..Len(a) : all[i] = a[i]
      /\ \A i \in 1..Len(b) : all[Len(a) + i] = b[i]
      /\ \A i \in 1..Len(all) : i \notin 1..Len(a) =>
            i - Len(a) \in 1..Len(b) /\ all[i] = b[i - Len(a)]
  OBVIOUS
<1> HIDE DEF all
<1> SUFFICES ASSUME NEW i \in 1..Len(all), NEW j \in 1..Len(all), i < j
             PROVE  Before(all[i], all[j])
  BY DEF Ascending, all
<1>2. CASE i \in 1..Len(a) /\ j \in 1..Len(a)
  BY <1>1, <1>2 DEF Ascending
<1>3. CASE i \in 1..Len(a) /\ j \notin 1..Len(a)
  <2>1. all[i] \in In(a) /\ all[j] \in In(b)
    BY <1>1, <1>3 DEF In
  <2> QED
    BY <2>1
<1>4. CASE i \notin 1..Len(a)
  <2>1. j \notin 1..Len(a) /\ i - Len(a) < j - Len(a)
    BY <1>1, <1>4
  <2>2. /\ i - Len(a) \in 1..Len(b) /\ all[i] = b[i - Len(a)]
        /\ j - Len(a) \in 1..Len(b) /\ all[j] = b[j - Len(a)]
    BY <1>1, <1>4, <2>1
  <2> QED
    BY <2>1, <2>2 DEF Ascending
<1> QED
  BY <1>2, <1>3, <1>4

(* The frames a set of ops keeps for a replay. *)
Replays(O) ==
    {f \in SendFrames : f.hi = f.lo /\ \E op \in O : op.seq = f.lo /\ f.part <= op.parts}

LEMMA ReplaysOf ==
    ASSUME NEW A, NEW B
    PROVE  /\ Replays(A \cup B) = Replays(A) \cup Replays(B)
           /\ A \subseteq B => Replays(A) \subseteq Replays(B)
           /\ Replays({}) = {} /\ Replays(A) \subseteq SendFrames
BY DEF Replays

LEMMA ReplayFramesAre ==
    ASSUME NEW op \in Ops
    PROVE  /\ ReplayFrames(op) \in Seq(SendFrames) /\ Ascending(ReplayFrames(op))
           /\ In(ReplayFrames(op)) = Replays({op})
           /\ \A f \in Replays({op}) : f.lo = op.seq
<1>1. op.seq \in Seqs /\ op.parts \in Nat /\ op.parts <= Parts /\ Parts \in Nat
  BY PartsAssumption DEF Ops
<1> DEFINE r == ReplayFrames(op)
<1>2. \A k \in 1..op.parts : k \in 1..Parts /\ SendFrame(op.seq, op.seq, k) \in SendFrames
  BY <1>1 DEF SendFrame, SendFrames
<1>3. /\ r \in Seq(SendFrames) /\ Len(r) = op.parts
      /\ \A k \in 1..op.parts : r[k] = SendFrame(op.seq, op.seq, k)
  BY <1>1, <1>2 DEF ReplayFrames
<1> HIDE DEF r
<1>4. Ascending(r)
  <2> SUFFICES ASSUME NEW i \in 1..op.parts, NEW j \in 1..op.parts, i < j
               PROVE  Before(r[i], r[j])
    BY <1>3 DEF Ascending
  <2>1. r[i] = SendFrame(op.seq, op.seq, i) /\ r[j] = SendFrame(op.seq, op.seq, j)
    BY <1>3
  <2>2. r[i].lo = r[j].lo /\ r[i].part = i /\ r[j].part = j
    BY <2>1 DEF SendFrame
  <2> QED
    BY <2>2 DEF Before
<1>5. ASSUME NEW f \in Replays({op}) PROVE f \in In(r) /\ f.lo = op.seq
  <2>1. /\ f \in SendFrames /\ f.hi = f.lo /\ f.lo = op.seq /\ f.part <= op.parts
    BY DEF Replays
  <2>2. f.part \in 1..op.parts
    BY <1>1, <2>1 DEF SendFrames
  <2>3. f = SendFrame(op.seq, op.seq, f.part)
    BY <2>1 DEF SendFrames, SendFrame
  <2> QED
    BY <1>3, <2>1, <2>2, <2>3 DEF In
<1>6. ASSUME NEW f \in In(r) PROVE f \in Replays({op})
  <2>1. PICK k \in 1..op.parts : f = SendFrame(op.seq, op.seq, k)
    BY <1>3 DEF In
  <2>2. f \in SendFrames /\ f.lo = op.seq /\ f.hi = op.seq /\ f.part = k
    BY <1>2, <2>1 DEF SendFrame
  <2> QED
    BY <2>2 DEF Replays
<1> QED
  BY <1>3, <1>4, <1>5, <1>6 DEF r

LEMMA ConcatIs ==
    ASSUME NEW ops \in Seq(Ops), Sorted(ops)
    PROVE  /\ Concat(ops) \in Seq(SendFrames) /\ Ascending(Concat(ops))
           /\ In(Concat(ops)) = Replays(OpsOf(ops))
<1>1. PICK f : ConcatBy(ops, f)
  BY ConcatUnfolds
<1>2. /\ Concat(ops) = f[Len(ops)] /\ f[0] = <<>>
      /\ \A n \in 1..Len(ops) : f[n] = f[n - 1] \o ReplayFrames(ops[n])
  BY <1>1 DEF ConcatBy
<1> DEFINE first(n) == {ops[i] : i \in 1..n}
           Good(n) == /\ f[n] \in Seq(SendFrames) /\ Ascending(f[n])
                      /\ In(f[n]) = Replays(first(n))
           T == {n \in Nat : n \in 0..Len(ops) => Good(n)}
<1>3. Len(ops) \in Nat /\ \A i \in 1..Len(ops) : ops[i] \in Ops
  OBVIOUS
<1>4. 0 \in T
  <2>1. first(0) = {} /\ <<>> \in Seq(SendFrames) /\ In(<<>>) = {} /\ Ascending(<<>>)
    BY DEF In, Ascending
  <2>2. Good(0)
    BY <1>2, <2>1, ReplaysOf
  <2> QED
    BY <2>2
<1>5. ASSUME NEW n \in Nat, n \in T PROVE n + 1 \in T
  <2> SUFFICES ASSUME n + 1 \in 0..Len(ops) PROVE Good(n + 1)
    OBVIOUS
  <2>1. n + 1 \in 1..Len(ops) /\ n \in 0..Len(ops) /\ (n + 1) - 1 = n
    OBVIOUS
  <2>2. Good(n)
    BY <1>5, <2>1
  <2> DEFINE r == ReplayFrames(ops[n + 1])
  <2>3. f[n + 1] = f[n] \o r
    BY <1>2, <2>1
  <2>4. ops[n + 1] \in Ops
    BY <1>3, <2>1
  <2>5. /\ r \in Seq(SendFrames) /\ Ascending(r) /\ In(r) = Replays({ops[n + 1]})
        /\ \A g \in In(r) : g.lo = ops[n + 1].seq
    BY <2>4, ReplayFramesAre
  <2>6. first(n + 1) = first(n) \cup {ops[n + 1]}
    <3>1. 1..(n + 1) = 1..n \cup {n + 1}
      OBVIOUS
    <3> QED
      BY <3>1
  <2>7. ASSUME NEW x \in In(f[n]), NEW y \in In(r) PROVE Before(x, y)
    <3>1. PICK i \in 1..n : ops[i].seq = x.lo
      BY <2>2 DEF Replays
    <3>2. ops[i].seq < ops[n + 1].seq
      BY <2>1 DEF Sorted
    <3> QED
      BY <2>5, <3>1, <3>2 DEF Before
  <2> HIDE DEF r
  <2>8. f[n] \o r \in Seq(SendFrames) /\ In(f[n] \o r) = In(f[n]) \cup In(r)
    <3>1. f[n] \in Seq(SendFrames)
      BY <2>2
    <3>2. f[n] \o r \in Seq(SendFrames)
      BY <2>5, <3>1
    <3> QED
      BY <2>5, <3>1, <3>2, InList
  <2>9. Ascending(f[n] \o r)
    BY <2>2, <2>5, <2>7, AscendingJoin
  <2>10. Replays(first(n + 1)) = Replays(first(n)) \cup Replays({ops[n + 1]})
    BY <2>6, ReplaysOf
  <2> QED
    BY <2>2, <2>3, <2>5, <2>8, <2>9, <2>10
<1>6. Nat \subseteq T
  <2> HIDE DEF T
  <2> QED
    BY <1>4, <1>5, Induction
<1>7. Good(Len(ops))
  <2>1. Len(ops) \in T /\ Len(ops) \in 0..Len(ops)
    <3> HIDE DEF T
    <3> QED
      BY <1>3, <1>6
  <2> HIDE DEF Good
  <2> QED
    BY <2>1
<1> QED
  BY <1>2, <1>7 DEF OpsOf

-----------------------------------------------------------------------------
(* The order invariant, over what the broker has taken (L), the wire (W),  *)
(* outbound (o), the open batch (b), the frames that pending ops (P) and   *)
(* snapshots (S) keep for a replay, whether the broker takes what is on    *)
(* the wire (att) and whether the driver may add outbound to it (rdy).     *)

(* No copy of f, wherever it comes from, would reach the broker too late. *)
OnTime(f, L, W, o, att, rdy) ==
    /\ InTurn(f, L)
    /\ \/ Has(f, L)
       \/ att => InTurn(f, W) /\ (Has(f, W) \/ (rdy => InTurn(f, Encoded(o))))

Around(f, L, W, o, P, S) == f \in P \/ f \in S \/ f \in In(o) \/ Has(f, L) \/ Has(f, W)

TurnInv(L, W, o, P, S, att, rdy) ==
    \A f \in SendFrames :
       f \in P \/ f \in S \/ f \in In(o) \/ Has(f, L) \/ (att /\ Has(f, W)) =>
         OnTime(f, L, W, o, att, rdy)

(* While the gate is open, all that may be replayed is under way. *)
SentInv(L, W, o, P, S, att, rdy) ==
    att /\ rdy => \A f \in P \cup S : Has(f, L) \/ Has(f, W) \/ f \in In(o)

(* Outbound ascends; an op that is not staged is older than what is. *)
StageInv(o, P, S) ==
    /\ Ascending(o)
    /\ \A f \in P : \/ \A g \in In(o) : f.lo < g.lo
                    \/ \A h \in P : h.lo = f.lo => h \in In(o)
    /\ \A f \in S, g \in In(o) : f.lo < g.lo

(* The open batch is younger than every frame. *)
BatchInv(L, W, o, b, P, S) ==
    b # <<>> => \A f \in SendFrames : Around(f, L, W, o, P, S) => f.lo < b[1]

FrameTypes(L, W, o, b, P, S) ==
    /\ L \in Seq(Frames) /\ W \in Seq(Frames) /\ o \in Seq(SendFrames)
    /\ b \in Seq(Seqs) /\ P \subseteq SendFrames /\ S \subseteq SendFrames

Order(L, W, o, b, P, S, att, rdy) ==
    /\ FrameTypes(L, W, o, b, P, S) /\ att \in BOOLEAN /\ rdy \in BOOLEAN
    /\ TurnInv(L, W, o, P, S, att, rdy)
    /\ SentInv(L, W, o, P, S, att, rdy)
    /\ StageInv(o, P, S)
    /\ BatchInv(L, W, o, b, P, S)

LEMMA FrameNumbers ==
    /\ \A f \in SendFrames : f.lo \in Nat /\ f.part \in Nat
    /\ \A q \in Seqs : q \in Nat
    /\ In(<<>>) = {} /\ Ascending(<<>>) /\ <<>> \in Seq(SendFrames)
    /\ Encoded(<<>>) = <<>> /\ \A f : InTurn(f, <<>>) /\ ~Has(f, <<>>)
<1>1. (\A q \in Seqs : q \in Nat) /\ (\A k \in 1..Parts : k \in Nat)
  BY SendsAssumption, PartsAssumption DEF Seqs
<1>2. \A f \in SendFrames : f.lo \in Nat /\ f.part \in Nat
  BY <1>1 DEF SendFrames
<1>3. In(<<>>) = {} /\ Ascending(<<>>) /\ <<>> \in Seq(SendFrames)
  BY DEF In, Ascending
<1>4. Encoded(<<>>) = <<>>
  BY DEF Encoded
<1>5. \A f : InTurn(f, <<>>) /\ ~Has(f, <<>>)
  BY DEF InTurn, Has, In
<1> QED
  BY <1>1, <1>2, <1>3, <1>4, <1>5

(* What is younger than every send in a list is in turn there. *)
LEMMA YoungInTurn ==
    ASSUME NEW w \in Seq(Frames), NEW f \in SendFrames,
           \A g \in SendFrames : Has(g, w) => g.lo < f.lo
    PROVE  InTurn(f, w)
<1> SUFFICES ASSUME NEW i \in 1..Len(w), Passes(w[i], f) PROVE FALSE
  BY DEF InTurn
<1>1. w[i] \in Frames /\ w[i].type = "Send" /\ Before(f, w[i].arg)
  BY DEF Passes
<1> DEFINE g == w[i].arg
<1>2. g \in SendFrames /\ w[i] = Sent(g)
  BY <1>1 DEF Frames, Sent, Frame
<1>3. Has(g, w)
  BY <1>2 DEF Has, In
<1> HIDE DEF g
<1>4. g.lo < f.lo /\ g.lo \in Nat /\ f.lo \in Nat
  BY <1>2, <1>3, FrameNumbers
<1> QED
  BY <1>1, <1>4 DEF Before, g

(* Sends are resolved, frames dropped, the link goes down, or something    *)
(* that is no send goes on the wire.                                       *)
LEMMA OrderShrinks ==
    ASSUME NEW L, NEW W, NEW o, NEW b, NEW P, NEW S, NEW att, NEW rdy,
           NEW W2 \in Seq(Frames), NEW o2 \in {o, <<>>}, NEW b2 \in {b, <<>>}, NEW P2, NEW S2,
           NEW att2 \in BOOLEAN, NEW rdy2 \in BOOLEAN,
           Order(L, W, o, b, P, S, att, rdy),
           P2 \subseteq P,
           S2 \subseteq S \/ (o2 = <<>> /\ b2 = <<>> /\ S2 \subseteq P \cup S),
           \A f : Has(f, W2) => Has(f, W),
           att2 => att /\ \A f : (InTurn(f, W) => InTurn(f, W2)) /\ (Has(f, W) => Has(f, W2)),
           att2 /\ rdy2 => (rdy /\ o2 = o) \/ (o2 = <<>> /\ P2 = {} /\ S2 = {})
    PROVE  Order(L, W2, o2, b2, P2, S2, att2, rdy2)
<1>1. FrameTypes(L, W, o, b, P, S) /\ att \in BOOLEAN /\ rdy \in BOOLEAN
  BY DEF Order
<1>2. P2 \subseteq P /\ S2 \subseteq P \cup S /\ In(o2) \subseteq In(o)
  BY FrameNumbers
<1>3. FrameTypes(L, W2, o2, b2, P2, S2)
  <2>1. /\ L \in Seq(Frames) /\ o \in Seq(SendFrames) /\ b \in Seq(Seqs)
        /\ P \subseteq SendFrames /\ S \subseteq SendFrames
    BY <1>1 DEF FrameTypes
  <2>2. <<>> \in Seq(SendFrames) /\ <<>> \in Seq(Seqs)
    OBVIOUS
  <2>3. o2 \in Seq(SendFrames) /\ b2 \in Seq(Seqs)
    BY <2>1, <2>2
  <2>4. P2 \subseteq SendFrames /\ S2 \subseteq SendFrames
    BY <1>2, <2>1
  <2> QED
    BY <2>1, <2>3, <2>4 DEF FrameTypes
<1>4. TurnInv(L, W2, o2, P2, S2, att2, rdy2)
  <2> SUFFICES ASSUME NEW f \in SendFrames,
                      f \in P2 \/ f \in S2 \/ f \in In(o2) \/ Has(f, L) \/ (att2 /\ Has(f, W2))
               PROVE  OnTime(f, L, W2, o2, att2, rdy2)
    BY DEF TurnInv
  <2>1. f \in P \/ f \in S \/ f \in In(o) \/ Has(f, L) \/ (att /\ Has(f, W))
    BY <1>2
  <2>2. OnTime(f, L, W, o, att, rdy)
    BY <2>1 DEF Order, TurnInv
  <2>3. o2 = <<>> => InTurn(f, Encoded(o2))
    BY FrameNumbers
  <2> QED
    BY <2>2, <2>3 DEF OnTime
<1>5. SentInv(L, W2, o2, P2, S2, att2, rdy2)
  BY <1>2 DEF Order, SentInv
<1>6. StageInv(o2, P2, S2)
  <2>1. CASE o2 = <<>>
    BY <2>1, FrameNumbers DEF StageInv
  <2>2. CASE o2 # <<>>
    <3>1. o2 = o /\ S2 \subseteq S
      BY <2>2
    <3> QED
      BY <3>1 DEF Order, StageInv
  <2> QED
    BY <2>1, <2>2
<1>7. BatchInv(L, W2, o2, b2, P2, S2)
  <2> SUFFICES ASSUME b2 # <<>>, NEW f \in SendFrames, Around(f, L, W2, o2, P2, S2)
               PROVE  f.lo < b2[1]
    BY DEF BatchInv
  <2>1. b2 = b /\ b # <<>> /\ S2 \subseteq S
    OBVIOUS
  <2>2. Around(f, L, W, o, P, S)
    BY <1>2, <2>1 DEF Around
  <2> QED
    BY <2>1, <2>2 DEF Order, BatchInv
<1> QED
  BY <1>3, <1>4, <1>5, <1>6, <1>7 DEF Order

(* The broker attaches the producer: no send is left on the wire. *)
LEMMA OrderAttaches ==
    ASSUME NEW L, NEW W, NEW o, NEW b, NEW P, NEW S, NEW att, NEW rdy,
           NEW W2 \in Seq(Frames), ~HasSend(W2), Order(L, W, o, b, P, S, att, rdy)
    PROVE  Order(L, W2, o, b, P, S, TRUE, FALSE)
<1>1. \A f : InTurn(f, W2) /\ ~Has(f, W2)
  BY NoSendInTurn
<1>2. FrameTypes(L, W2, o, b, P, S)
  BY DEF Order, FrameTypes
<1>3. TurnInv(L, W2, o, P, S, TRUE, FALSE)
  BY <1>1 DEF Order, TurnInv, OnTime
<1>4. BatchInv(L, W2, o, b, P, S)
  BY <1>1 DEF Order, BatchInv, Around
<1> QED
  BY <1>2, <1>3, <1>4 DEF Order, SentInv

(* An attached broker takes a send. *)
LEMMA OrderTakes ==
    ASSUME NEW L, NEW W, NEW o, NEW b, NEW P, NEW S, NEW rdy,
           Order(L, W, o, b, P, S, TRUE, rdy), W # <<>>, Head(W).type = "Send"
    PROVE  Order(Append(L, Head(W)), Tail(W), o, b, P, S, TRUE, rdy)
<1> DEFINE x == Head(W)
           L2 == Append(L, x)
           W2 == Tail(W)
<1>1. FrameTypes(L, W, o, b, P, S) /\ rdy \in BOOLEAN
  BY DEF Order
<1>2. L \in Seq(Frames) /\ W \in Seq(Frames)
  BY <1>1 DEF FrameTypes
<1>3. ASSUME NEW f
      PROVE  /\ W2 \in Seq(Frames) /\ x \in Frames
             /\ Has(f, W) <=> x = Sent(f) \/ Has(f, W2)
             /\ InTurn(f, W) <=> ~Passes(x, f) /\ (x = Sent(f) \/ InTurn(f, W2))
  BY <1>2, InTurnHead
<1>4. x \in Frames
  BY <1>3
<1>5. ASSUME NEW f
      PROVE  /\ L2 \in Seq(Frames)
             /\ Has(f, L2) <=> Has(f, L) \/ x = Sent(f)
             /\ InTurn(f, L2) <=> InTurn(f, L) /\ (Has(f, L) \/ ~Passes(x, f))
  BY <1>2, <1>4, InTurnAppend
<1>6. L2 \in Seq(Frames) /\ W2 \in Seq(Frames)
  BY <1>3, <1>5
<1> HIDE DEF x, L2, W2
<1>7. FrameTypes(L2, W2, o, b, P, S)
  BY <1>1, <1>6 DEF FrameTypes
<1>8. ASSUME NEW f PROVE OnTime(f, L, W, o, TRUE, rdy) => OnTime(f, L2, W2, o, TRUE, rdy)
  BY <1>3, <1>5 DEF OnTime
<1>9. \A f : Has(f, L2) \/ Has(f, W2) <=> Has(f, L) \/ Has(f, W)
  BY <1>3, <1>5
<1>10. TurnInv(L2, W2, o, P, S, TRUE, rdy)
  BY <1>8, <1>9 DEF Order, TurnInv
<1>11. SentInv(L2, W2, o, P, S, TRUE, rdy)
  BY <1>9 DEF Order, SentInv
<1>12. BatchInv(L2, W2, o, b, P, S)
  BY <1>9 DEF Order, BatchInv, Around
<1> QED
  BY <1>1, <1>7, <1>10, <1>11, <1>12 DEF Order, x, L2, W2

(* drain_producer_outbound: outbound goes on the wire. *)
LEMMA OrderDrains ==
    ASSUME NEW L, NEW W, NEW o, NEW b, NEW P, NEW S, NEW att,
           Order(L, W, o, b, P, S, att, TRUE)
    PROVE  Order(L, W \o Encoded(o), <<>>, b, P, S, att, TRUE)
<1> DEFINE W2 == W \o Encoded(o)
<1>1. FrameTypes(L, W, o, b, P, S) /\ att \in BOOLEAN
  BY DEF Order
<1>2. W \in Seq(Frames) /\ o \in Seq(SendFrames)
  BY <1>1 DEF FrameTypes
<1>3. Encoded(o) \in Seq(Frames) /\ \A f : Has(f, Encoded(o)) <=> f \in In(o)
  <2>1. [type : {"Send"}, arg : SendFrames] \subseteq Frames
    BY DEF Frames
  <2>2. /\ Encoded(o) \in Seq([type : {"Send"}, arg : SendFrames])
        /\ \A f : Has(f, Encoded(o)) <=> f \in In(o)
    BY <1>2, EncodedIs
  <2> QED
    BY <2>1, <2>2, SeqMonotone
<1>4. ASSUME NEW f
      PROVE  /\ W2 \in Seq(Frames)
             /\ Has(f, W2) <=> Has(f, W) \/ f \in In(o)
             /\ InTurn(f, W2) <=> InTurn(f, W) /\ (Has(f, W) \/ InTurn(f, Encoded(o)))
  <2>1. /\ W \o Encoded(o) \in Seq(Frames)
        /\ Has(f, W \o Encoded(o)) <=> Has(f, W) \/ Has(f, Encoded(o))
        /\ InTurn(f, W \o Encoded(o)) <=> InTurn(f, W) /\ (Has(f, W) \/ InTurn(f, Encoded(o)))
    BY <1>2, <1>3, InTurnJoin
  <2> QED
    BY <1>3, <2>1
<1>5. W2 \in Seq(Frames)
  BY <1>4
<1> HIDE DEF W2
<1>6. FrameTypes(L, W2, <<>>, b, P, S)
  BY <1>1, <1>5, FrameNumbers DEF FrameTypes
<1>7. ASSUME NEW f PROVE OnTime(f, L, W, o, att, TRUE) => OnTime(f, L, W2, <<>>, att, TRUE)
  BY <1>4, FrameNumbers DEF OnTime
<1>8. TurnInv(L, W2, <<>>, P, S, att, TRUE)
  BY <1>4, <1>7, FrameNumbers DEF Order, TurnInv
<1>9. SentInv(L, W2, <<>>, P, S, att, TRUE)
  BY <1>4 DEF Order, SentInv
<1>10. StageInv(<<>>, P, S)
  BY FrameNumbers DEF StageInv
<1>11. BatchInv(L, W2, <<>>, b, P, S)
  BY <1>4, FrameNumbers DEF Order, BatchInv, Around
<1> QED
  BY <1>1, <1>6, <1>8, <1>9, <1>10, <1>11 DEF Order, W2

(* emit_single, emit_chunked, flush_batch: younger frames are staged. *)
LEMMA OrderStages ==
    ASSUME NEW L, NEW W, NEW o, NEW b, NEW P, NEW S, NEW att, NEW rdy,
           Order(L, W, o, b, P, S, att, rdy),
           NEW add \in Seq(SendFrames), Ascending(add),
           \A f, g \in SendFrames : Around(f, L, W, o, P, S) /\ g \in In(add) => f.lo < g.lo,
           NEW P2, P2 = P \/ P2 = P \cup In(add)
    PROVE  Order(L, W, o \o add, <<>>, P2, S, att, rdy)
<1> DEFINE o2 == o \o add
<1>1. FrameTypes(L, W, o, b, P, S) /\ att \in BOOLEAN /\ rdy \in BOOLEAN
  BY DEF Order
<1>2. /\ L \in Seq(Frames) /\ W \in Seq(Frames) /\ o \in Seq(SendFrames)
      /\ P \subseteq SendFrames /\ S \subseteq SendFrames
  BY <1>1 DEF FrameTypes
<1>3. /\ o2 \in Seq(SendFrames) /\ In(o2) = In(o) \cup In(add)
      /\ In(o) \subseteq SendFrames /\ In(add) \subseteq SendFrames
  BY <1>2, InList
<1>4. /\ Encoded(o) \in Seq(Frames) /\ Encoded(add) \in Seq(Frames)
      /\ \A f : Has(f, Encoded(o)) <=> f \in In(o)
      /\ Encoded(o2) = Encoded(o) \o Encoded(add)
  <2>1. [type : {"Send"}, arg : SendFrames] \subseteq Frames
    BY DEF Frames
  <2>2. /\ Encoded(o) \in Seq([type : {"Send"}, arg : SendFrames])
        /\ \A f : Has(f, Encoded(o)) <=> f \in In(o)
        /\ Encoded(o \o add) = Encoded(o) \o Encoded(add)
    BY <1>2, EncodedIs, ZenonT(60)
  <2>3. Encoded(add) \in Seq([type : {"Send"}, arg : SendFrames])
    BY EncodedIs
  <2> QED
    BY <2>1, <2>2, <2>3, SeqMonotone
<1>5. ASSUME NEW f
      PROVE  InTurn(f, Encoded(o2)) <=>
               InTurn(f, Encoded(o)) /\ (f \in In(o) \/ InTurn(f, Encoded(add)))
  <2> DEFINE a == Encoded(o)
             c == Encoded(add)
  <2>1. InTurn(f, a \o c) <=> InTurn(f, a) /\ (Has(f, a) \/ InTurn(f, c))
    BY <1>4, InTurnJoin
  <2> QED
    BY <1>4, <2>1
<1> HIDE DEF o2
<1>6. FrameTypes(L, W, o2, <<>>, P2, S)
  <2>1. <<>> \in Seq(Seqs) /\ P2 \subseteq SendFrames
    BY <1>2, <1>3
  <2> QED
    BY <1>2, <1>3, <2>1 DEF FrameTypes
<1>7. TurnInv(L, W, o2, P2, S, att, rdy)
  <2> SUFFICES ASSUME NEW f \in SendFrames,
                      f \in P2 \/ f \in S \/ f \in In(o2) \/ Has(f, L) \/ (att /\ Has(f, W))
               PROVE  OnTime(f, L, W, o2, att, rdy)
    BY DEF TurnInv
  <2>1. CASE f \in P \/ f \in S \/ f \in In(o) \/ Has(f, L) \/ (att /\ Has(f, W))
    <3>1. OnTime(f, L, W, o, att, rdy)
      BY <2>1 DEF Order, TurnInv
    <3>2. att /\ rdy => Has(f, L) \/ Has(f, W) \/ f \in In(o)
      BY <2>1 DEF Order, SentInv
    <3> QED
      BY <1>5, <3>1, <3>2 DEF OnTime
  <2>2. CASE f \in In(add)
    <3>1. \A g \in SendFrames : Around(g, L, W, o, P, S) => g.lo < f.lo
      BY <2>2
    <3>2. /\ \A g \in SendFrames : Has(g, L) => g.lo < f.lo
          /\ \A g \in SendFrames : Has(g, W) => g.lo < f.lo
          /\ \A g \in SendFrames : Has(g, Encoded(o)) => g.lo < f.lo
      BY <1>4, <3>1 DEF Around
    <3>3. InTurn(f, L)
      BY <1>2, <3>2, YoungInTurn
    <3>4. InTurn(f, W)
      BY <1>2, <3>2, YoungInTurn
    <3>5. InTurn(f, Encoded(o))
      BY <1>4, <3>2, YoungInTurn
    <3>6. InTurn(f, Encoded(add))
      BY <2>2, AscendingInTurn
    <3> QED
      BY <1>5, <3>3, <3>4, <3>5, <3>6 DEF OnTime
  <2> QED
    BY <1>3, <2>1, <2>2
<1>8. SentInv(L, W, o2, P2, S, att, rdy)
  BY <1>3 DEF Order, SentInv
<1>9. StageInv(o2, P2, S)
  <2>1. Ascending(o) /\ \A f \in S, g \in In(o) : f.lo < g.lo
    BY DEF Order, StageInv
  <2>2. ASSUME NEW f \in SendFrames, NEW g \in In(add), f \in P \/ f \in S \/ f \in In(o)
        PROVE  f.lo < g.lo
    <3>1. g \in SendFrames /\ Around(f, L, W, o, P, S)
      BY <1>3, <2>2 DEF Around
    <3> QED
      BY <3>1
  <2>3. Ascending(o2)
    <3>1. \A x \in In(o), y \in In(add) : Before(x, y)
      BY <1>3, <2>2 DEF Before
    <3> QED
      BY <1>2, <2>1, <3>1, AscendingJoin DEF o2
  <2>4. ASSUME NEW f \in S, NEW g \in In(o2) PROVE f.lo < g.lo
    BY <1>2, <1>3, <2>1, <2>2
  <2>5. ASSUME NEW f \in P2
        PROVE  \/ \A g \in In(o2) : f.lo < g.lo
               \/ \A h \in P2 : h.lo = f.lo => h \in In(o2)
    <3>1. CASE f \in In(add)
      <4>1. ASSUME NEW h \in P2, h.lo = f.lo PROVE h \in In(o2)
        <5>1. h \notin P
          <6> SUFFICES ASSUME h \in P PROVE FALSE
            OBVIOUS
          <6>1. h.lo < f.lo /\ h \in SendFrames
            BY <1>2, <2>2, <3>1
          <6>2. h.lo \in Nat
            BY <6>1, FrameNumbers
          <6> QED
            BY <4>1, <6>1, <6>2
        <5> QED
          BY <1>3, <5>1
      <4> QED
        BY <4>1
    <3>2. CASE f \notin In(add)
      <4>1. f \in P /\ f \in SendFrames
        BY <1>2, <3>2
      <4>2. CASE \A g \in In(o) : f.lo < g.lo
        BY <1>3, <2>2, <4>1, <4>2
      <4>3. CASE \A h \in P : h.lo = f.lo => h \in In(o)
        BY <1>3, <4>3
      <4> QED
        BY <4>1, <4>2, <4>3 DEF Order, StageInv
    <3> QED
      BY <3>1, <3>2
  <2> QED
    BY <2>3, <2>4, <2>5 DEF StageInv
<1>10. BatchInv(L, W, o2, <<>>, P2, S)
  BY DEF BatchInv
<1> QED
  BY <1>1, <1>6, <1>7, <1>8, <1>9, <1>10 DEF Order, o2

(* add_to_batch: a younger send joins the batch. *)
LEMMA OrderBatches ==
    ASSUME NEW L, NEW W, NEW o, NEW b, NEW P, NEW S, NEW att, NEW rdy,
           Order(L, W, o, b, P, S, att, rdy), NEW q \in Seqs,
           \A f \in SendFrames : Around(f, L, W, o, P, S) => f.lo < q
    PROVE  Order(L, W, o, Append(b, q), P, S, att, rdy)
<1>1. FrameTypes(L, W, o, b, P, S)
  BY DEF Order
<1>2. b \in Seq(Seqs) /\ Append(b, q) \in Seq(Seqs)
  BY <1>1 DEF FrameTypes
<1>3. FrameTypes(L, W, o, Append(b, q), P, S)
  BY <1>1, <1>2 DEF FrameTypes
<1>4. BatchInv(L, W, o, Append(b, q), P, S)
  <2>1. CASE b = <<>>
    <3>1. Append(b, q)[1] = q
      BY <2>1
    <3> QED
      BY <3>1 DEF BatchInv
  <2>2. CASE b # <<>>
    <3>1. Append(b, q)[1] = b[1]
      BY <1>2, <2>2
    <3> QED
      BY <2>2, <3>1 DEF Order, BatchInv
  <2> QED
    BY <2>1, <2>2
<1> QED
  BY <1>3, <1>4 DEF Order

(* replay_pending_outbound and replay_snapshots: what is not staged goes   *)
(* in front of what is, and the gate opens.                                *)
LEMMA OrderReplays ==
    ASSUME NEW L, NEW W, NEW o, NEW b, NEW P, NEW S, NEW att, NEW rdy,
           Order(L, W, o, b, P, S, att, rdy), att => ~HasSend(W),
           \A f \in S, g \in P : f.lo < g.lo,
           NEW u \in Seq(SendFrames), Ascending(u),
           In(u) = {f \in P : \A g \in In(o) : f.lo # g.lo},
           NEW c \in Seq(SendFrames), Ascending(c), In(c) = S
    PROVE  Order(L, W, c \o (u \o o), b, S \cup P, {}, att, TRUE)
<1> DEFINE v == u \o o
           o2 == c \o v
<1>1. FrameTypes(L, W, o, b, P, S) /\ att \in BOOLEAN
  BY DEF Order
<1>2. /\ L \in Seq(Frames) /\ W \in Seq(Frames) /\ o \in Seq(SendFrames)
      /\ b \in Seq(Seqs) /\ P \subseteq SendFrames /\ S \subseteq SendFrames
  BY <1>1 DEF FrameTypes
<1>3. v \in Seq(SendFrames) /\ In(v) = In(u) \cup In(o) /\ In(o) \subseteq SendFrames
  BY <1>2, InList
<1>4. StageInv(o, P, S)
  BY DEF Order
<1>5. ASSUME NEW f \in In(u), NEW g \in In(o) PROVE f.lo < g.lo
  <2>1. f \in P /\ f.lo # g.lo /\ f \notin In(o)
    BY <1>5
  <2> QED
    BY <1>5, <2>1, <1>4 DEF StageInv
<1>6. Ascending(v)
  <2>1. \A x \in In(u), y \in In(o) : Before(x, y)
    BY <1>5 DEF Before
  <2>2. Ascending(o)
    BY <1>4 DEF StageInv
  <2> QED
    BY <1>2, <2>1, <2>2, AscendingJoin
<1> HIDE DEF v
<1>7. o2 \in Seq(SendFrames) /\ In(o2) = In(c) \cup In(v)
  BY <1>3, InList
<1>8. Ascending(o2)
  <2>1. \A x \in In(c), y \in In(v) : x.lo < y.lo
    BY <1>3, <1>4 DEF StageInv
  <2>2. \A x \in In(c), y \in In(v) : Before(x, y)
    BY <2>1 DEF Before
  <2> QED
    BY <1>3, <1>6, <2>2, AscendingJoin
<1> HIDE DEF o2
<1>9. ASSUME NEW f \in P PROVE f \in In(u) \/ f \in In(o)
  <2> SUFFICES ASSUME f \notin In(u) PROVE f \in In(o)
    OBVIOUS
  <2>1. PICK g \in In(o) : f.lo = g.lo
    OBVIOUS
  <2>2. f.lo \in Nat /\ ~(f.lo < g.lo)
    BY <1>2, <2>1, FrameNumbers
  <2> QED
    BY <1>4, <2>1, <2>2 DEF StageInv
<1>10. In(o2) = S \cup P \cup In(o)
  BY <1>3, <1>7, <1>9
<1>11. FrameTypes(L, W, o2, b, S \cup P, {})
  BY <1>2, <1>7 DEF FrameTypes
<1>12. TurnInv(L, W, o2, S \cup P, {}, att, TRUE)
  <2> SUFFICES ASSUME NEW f \in SendFrames,
                      f \in S \cup P \/ f \in {} \/ f \in In(o2) \/ Has(f, L) \/ (att /\ Has(f, W))
               PROVE  OnTime(f, L, W, o2, att, TRUE)
    BY DEF TurnInv
  <2>1. f \in In(o2) \/ Has(f, L)
    BY <1>10, NoSendInTurn
  <2>2. InTurn(f, L)
    BY <1>10, <2>1 DEF Order, TurnInv, OnTime
  <2>3. att => InTurn(f, W)
    BY NoSendInTurn
  <2>4. f \in In(o2) => InTurn(f, Encoded(o2))
    BY <1>7, <1>8, AscendingInTurn
  <2> QED
    BY <2>1, <2>2, <2>3, <2>4 DEF OnTime
<1>13. SentInv(L, W, o2, S \cup P, {}, att, TRUE)
  BY <1>10 DEF SentInv
<1>14. StageInv(o2, S \cup P, {})
  BY <1>8, <1>10 DEF StageInv
<1>15. BatchInv(L, W, o2, b, S \cup P, {})
  BY <1>10 DEF Order, BatchInv, Around
<1> QED
  BY <1>1, <1>11, <1>12, <1>13, <1>14, <1>15 DEF Order, o2, v

-----------------------------------------------------------------------------
(* The methods of ProducerState keep the order.                            *)

Redo(s) == Replays(OpsOf(s.pending))

OrderAt(L, W, s, S, att, rdy) ==
    Order(L, W, s.outbound, s.batch, Redo(s), S, att, rdy)

(* Every frame is older than the next send. *)
Young(L, W, s, S) ==
    \A f \in SendFrames : Around(f, L, W, s.outbound, Redo(s), S) => f.lo < s.next

LEMMA FlushBatchOrder ==
    ASSUME NEW s \in Queues, NEW L, NEW W, NEW S, NEW att, NEW rdy,
           OrderAt(L, W, s, S, att, rdy)
    PROVE  /\ OrderAt(L, W, FlushBatch(s), S, att, rdy)
           /\ ~s.closed => FlushBatch(s).batch = <<>>
<1>1. CASE s.batch = <<>> \/ s.closed
  <2>1. FlushBatch(s) = s
    BY <1>1 DEF FlushBatch
  <2> QED
    BY <1>1, <2>1
<1>2. CASE ~(s.batch = <<>> \/ s.closed)
  <2> DEFINE f == SendFrame(s.batch[1], s.batch[Len(s.batch)], 1)
             t == [s EXCEPT !.outbound = Append(@, f), !.batch = <<>>]
  <2>1. /\ s \in ProducerState /\ s.batch \in Seq(Seqs) /\ s.outbound \in Seq(SendFrames)
        /\ Len(s.batch) \in Nat /\ Len(s.batch) >= 1
    BY <1>2, QueueFields
  <2>2. s.batch[1] \in Seqs /\ s.batch[Len(s.batch)] \in Seqs
    BY <2>1
  <2>3. f \in SendFrames /\ f.lo = s.batch[1]
    BY <2>2, PartsAssumption DEF SendFrame, SendFrames
  <2> HIDE DEF f
  <2>4. /\ t.outbound = s.outbound \o <<f>> /\ t.batch = <<>> /\ t.pending = s.pending
    BY <2>1, <2>3 DEF ProducerState
  <2>5. FlushBatch(s) = t
    BY <1>2 DEF FlushBatch, f
  <2> HIDE DEF t
  <2>6. <<f>> \in Seq(SendFrames) /\ Ascending(<<f>>) /\ In(<<f>>) = {f}
    BY <2>3 DEF Ascending, In
  <2>7. \A g, h \in SendFrames :
           Around(g, L, W, s.outbound, Redo(s), S) /\ h \in In(<<f>>) => g.lo < h.lo
    BY <1>2, <2>3, <2>6 DEF OrderAt, Order, BatchInv
  <2>8. Order(L, W, s.outbound \o <<f>>, <<>>, Redo(s), S, att, rdy)
    <3> DEFINE add == <<f>>
    <3>1. /\ add \in Seq(SendFrames) /\ Ascending(add)
          /\ \A g, h \in SendFrames :
               Around(g, L, W, s.outbound, Redo(s), S) /\ h \in In(add) => g.lo < h.lo
      BY <2>6, <2>7
    <3> HIDE DEF add
    <3>2. Order(L, W, s.outbound \o add, <<>>, Redo(s), S, att, rdy)
      BY <3>1, OrderStages DEF OrderAt
    <3> QED
      BY <3>2 DEF add
  <2> QED
    BY <2>4, <2>5, <2>8 DEF OrderAt, Redo
<1> QED
  BY <1>1, <1>2

LEMMA PushOpPending ==
    ASSUME NEW s \in Queues, s.next \in Seqs, NEW parts \in {0, 1, Parts}
    PROVE  LET op == [seq |-> s.next, parts |-> parts, waker |-> NoWaker]
           IN  /\ op \in Ops
               /\ PushOp(s, parts) \in ProducerState
               /\ PushOp(s, parts).pending = Append(s.pending, op)
               /\ PushOp(s, parts).outbound = s.outbound
               /\ PushOp(s, parts).batch = s.batch
<1> DEFINE op == [seq |-> s.next, parts |-> parts, waker |-> NoWaker]
<1>1. op \in Ops
  BY DEF Ops, NoWaker
<1>2. s \in ProducerState
  BY QueueFields
<1>3. PushOp(s, parts) \in ProducerState /\ PushOp(s, parts).outbound = s.outbound
        /\ PushOp(s, parts).batch = s.batch
  BY PushOpIs, QueueFields DEF Pushed
<1>4. PushOp(s, parts).pending = Append(s.pending, op)
  BY <1>2 DEF PushOp, ProducerState
<1> QED
  BY <1>1, <1>3, <1>4

LEMMA EmitOrder ==
    ASSUME NEW s \in Queues, s.next \in Seqs, NEW parts \in {0, 1, Parts}, s.batch = <<>>,
           NEW L, NEW W, NEW S, NEW att, NEW rdy,
           OrderAt(L, W, s, S, att, rdy), Young(L, W, s, S)
    PROVE  OrderAt(L, W, Emit(s, parts), S, att, rdy)
<1> DEFINE op == [seq |-> s.next, parts |-> parts, waker |-> NoWaker]
           u == PushOp(s, parts)
           add == ReplayFrames(op)
           t == [u EXCEPT !.outbound = @ \o add]
<1>1. /\ op \in Ops /\ u \in ProducerState /\ u.pending = Append(s.pending, op)
      /\ u.outbound = s.outbound /\ u.batch = s.batch
  BY PushOpPending
<1>2. Emit(s, parts) = t
  BY DEF Emit
<1>3. op.seq = s.next
  OBVIOUS
<1> HIDE DEF op, u
<1>4. t.pending = Append(s.pending, op) /\ t.outbound = s.outbound \o add /\ t.batch = <<>>
  BY <1>1 DEF ProducerState
<1>5. /\ add \in Seq(SendFrames) /\ Ascending(add) /\ In(add) = Replays({op})
      /\ \A f \in In(add) : f.lo = s.next
  BY <1>1, <1>3, ReplayFramesAre
<1> HIDE DEF t, add
<1>6. Redo(t) = Redo(s) \cup In(add)
  <2>1. OpsOf(t.pending) = OpsOf(s.pending) \cup {op}
    BY <1>1, <1>4, QueueFields, AppendOps
  <2> QED
    BY <1>5, <2>1, ReplaysOf DEF Redo
<1>7. \A f, g \in SendFrames :
         Around(f, L, W, s.outbound, Redo(s), S) /\ g \in In(add) => f.lo < g.lo
  BY <1>5 DEF Young
<1>8. Order(L, W, s.outbound \o add, <<>>, Redo(t), S, att, rdy)
  <2>1. Order(L, W, s.outbound, s.batch, Redo(s), S, att, rdy)
    BY DEF OrderAt
  <2>3. add \in Seq(SendFrames) /\ Ascending(add)
    BY <1>5
  <2> DEFINE o == s.outbound
             b == s.batch
             P == Redo(s)
             P2 == Redo(t)
  <2>4. /\ Order(L, W, o, b, P, S, att, rdy) /\ P2 = P \cup In(add)
        /\ \A f, g \in SendFrames : Around(f, L, W, o, P, S) /\ g \in In(add) => f.lo < g.lo
    BY <1>6, <1>7, <2>1
  <2> HIDE DEF o, b, P, P2
  <2>5. Order(L, W, o \o add, <<>>, P2, S, att, rdy)
    BY <2>3, <2>4, OrderStages
  <2> QED
    BY <2>5 DEF o, P2
<1> QED
  BY <1>2, <1>4, <1>8 DEF OrderAt

LEMMA AddToBatchOrder ==
    ASSUME NEW s \in Queues, s.next \in Seqs,
           NEW L, NEW W, NEW S, NEW att, NEW rdy,
           OrderAt(L, W, s, S, att, rdy), Young(L, W, s, S)
    PROVE  OrderAt(L, W, AddToBatch(s), S, att, rdy)
<1> DEFINE op == [seq |-> s.next, parts |-> 0, waker |-> NoWaker]
           u == PushOp(s, 0)
           t == [u EXCEPT !.batch = Append(@, s.next)]
<1>1. /\ op \in Ops /\ u \in ProducerState /\ u.pending = Append(s.pending, op)
      /\ u.outbound = s.outbound /\ u.batch = s.batch
  BY PushOpPending
<1>2. AddToBatch(s) = t
  BY DEF AddToBatch
<1>3. op.parts = 0
  OBVIOUS
<1> HIDE DEF op, u
<1>4. /\ t.pending = Append(s.pending, op) /\ t.outbound = s.outbound
      /\ t.batch = Append(s.batch, s.next)
  BY <1>1 DEF ProducerState
<1> HIDE DEF t
<1>5. Redo(t) = Redo(s)
  <2>1. OpsOf(t.pending) = OpsOf(s.pending) \cup {op}
    BY <1>1, <1>4, QueueFields, AppendOps
  <2>2. Replays({op}) = {}
    <3>1. \A f \in SendFrames : f.part \in 1..Parts
      BY DEF SendFrames
    <3>2. \A f \in SendFrames : ~(f.part <= 0)
      BY <3>1, PartsAssumption
    <3> QED
      BY <1>3, <3>2 DEF Replays
  <2>3. Replays(OpsOf(s.pending) \cup {op}) = Replays(OpsOf(s.pending)) \cup Replays({op})
    BY ReplaysOf
  <2> QED
    BY <2>1, <2>2, <2>3 DEF Redo
<1>6. Order(L, W, s.outbound, Append(s.batch, s.next), Redo(s), S, att, rdy)
  BY OrderBatches DEF OrderAt, Young
<1> QED
  BY <1>2, <1>4, <1>5, <1>6 DEF OrderAt

LEMMA QueueSendOrder ==
    ASSUME NEW s \in Queues, s.next \in Seqs, ~s.closed, NEW way \in Ways,
           NEW L, NEW W, NEW S, NEW att, NEW rdy,
           OrderAt(L, W, s, S, att, rdy), Young(L, W, s, S)
    PROVE  OrderAt(L, W, QueueSend(s, way), S, att, rdy)
<1> DEFINE u == FlushBatch(s)
<1>1. /\ u \in Queues /\ SameControl(s, u) /\ u.next = s.next /\ u.pending = s.pending
      /\ OrderAt(L, W, u, S, att, rdy) /\ u.batch = <<>>
  BY FlushBatchIs, FlushBatchOrder
<1>2. Young(L, W, u, S)
  <2>1. CASE s.batch = <<>>
    BY <2>1 DEF FlushBatch
  <2>2. CASE s.batch # <<>>
    <3> DEFINE f == SendFrame(s.batch[1], s.batch[Len(s.batch)], 1)
               t == [s EXCEPT !.outbound = Append(@, f), !.batch = <<>>]
    <3>1. /\ s \in ProducerState /\ s.batch \in Seq(Seqs) /\ s.outbound \in Seq(SendFrames)
          /\ Len(s.batch) \in Nat /\ Len(s.batch) >= 1
          /\ \A i \in 1..Len(s.batch) : s.batch[i] < s.next
      BY <2>2, QueueFields
    <3>2. s.batch[1] \in Seqs /\ s.batch[Len(s.batch)] \in Seqs /\ s.batch[1] < s.next
      BY <3>1
    <3>3. f \in SendFrames /\ f.lo = s.batch[1]
      BY <3>2, PartsAssumption DEF SendFrame, SendFrames
    <3>4. u = t
      BY <2>2 DEF FlushBatch
    <3> HIDE DEF f, u
    <3>5. u.outbound = Append(s.outbound, f)
      BY <3>1, <3>4 DEF ProducerState
    <3>6. In(u.outbound) = In(s.outbound) \cup {f}
      BY <3>1, <3>3, <3>5, InList
    <3> HIDE DEF t
    <3> QED
      BY <1>1, <3>2, <3>3, <3>6 DEF Young, Around, Redo
  <2> QED
    BY <2>1, <2>2
<1> HIDE DEF u
<1>3. ASSUME NEW t \in Queues, OrderAt(L, W, t, S, att, rdy)
      PROVE  OrderAt(L, W, FlushBatchIfFull(t), S, att, rdy)
  BY <1>3, FlushBatchOrder DEF FlushBatchIfFull
<1>4. ASSUME NEW t \in Queues, t.next \in Seqs, OrderAt(L, W, t, S, att, rdy), Young(L, W, t, S)
      PROVE  OrderAt(L, W, FlushBatchIfFull(AddToBatch(t)), S, att, rdy)
  <2>1. AddToBatch(t) \in Queues
    BY <1>4, AddToBatchIs DEF Pushed
  <2>2. OrderAt(L, W, AddToBatch(t), S, att, rdy)
    BY <1>4, AddToBatchOrder
  <2> QED
    BY <1>3, <2>1, <2>2
<1>5. CASE way = "batch"
  <2>1. OrderAt(L, W, FlushBatchIfFull(AddToBatch(s)), S, att, rdy)
    BY <1>4
  <2> QED
    BY <1>5, <2>1 DEF QueueSend
<1>6. CASE way = "misfit"
  <2>1. OrderAt(L, W, FlushBatchIfFull(AddToBatch(u)), S, att, rdy)
    BY <1>1, <1>2, <1>4
  <2> QED
    BY <1>6, <2>1 DEF QueueSend, u
<1>7. CASE way = "single"
  <2>1. OrderAt(L, W, Emit(u, 1), S, att, rdy)
    BY <1>1, <1>2, EmitOrder
  <2> QED
    BY <1>7, <2>1 DEF QueueSend, u
<1>8. CASE way = "chunked"
  <2>1. OrderAt(L, W, Emit(u, Parts), S, att, rdy)
    BY <1>1, <1>2, EmitOrder
  <2> QED
    BY <1>8, <2>1 DEF QueueSend, u
<1>9. CASE way = "oversized"
  BY <1>1, <1>9 DEF QueueSend, u
<1> QED
  BY <1>5, <1>6, <1>7, <1>8, <1>9, WaysAssumption

LEMMA EmittedOrder ==
    ASSUME NEW s \in Queues, NEW L, NEW W \in Seq(Frames), NEW S, NEW att, NEW rdy,
           OrderAt(L, W, s, S, att, rdy), GateOpen(s) => rdy = TRUE
    PROVE  OrderAt(L, W \o Emitted(s), AfterDrain(s), S, att, rdy)
<1>1. CASE ~GateOpen(s)
  <2>1. Emitted(s) = <<>> /\ AfterDrain(s) = s /\ W \o <<>> = W
    BY <1>1 DEF Emitted, AfterDrain
  <2> QED
    BY <2>1
<1>2. CASE GateOpen(s)
  <2>1. s \in ProducerState
    BY QueueFields
  <2>2. Emitted(s) = Encoded(s.outbound)
    BY <1>2 DEF Emitted, Encoded, Sent
  <2> DEFINE t == [s EXCEPT !.outbound = <<>>]
  <2>3. t.outbound = <<>> /\ t.batch = s.batch /\ t.pending = s.pending
    BY <2>1 DEF ProducerState
  <2>4. AfterDrain(s) = t
    BY <1>2 DEF AfterDrain
  <2> HIDE DEF t
  <2>5. Order(L, W, s.outbound, s.batch, Redo(s), S, att, TRUE)
    BY <1>2 DEF OrderAt
  <2>6. Order(L, W \o Encoded(s.outbound), <<>>, s.batch, Redo(s), S, att, TRUE)
    BY <2>5, OrderDrains
  <2> QED
    BY <1>2, <2>2, <2>3, <2>4, <2>6 DEF OrderAt, Redo
<1> QED
  BY <1>1, <1>2

LEMMA ResolvesRedo ==
    ASSUME NEW s, NEW t, NEW Q, Resolves(s, t, Q)
    PROVE  Redo(t) \subseteq Redo(s)
<1>1. OpsOf(t.pending) \subseteq OpsOf(s.pending)
  BY DEF Resolves
<1> QED
  BY <1>1, ReplaysOf DEF Redo

LEMMA ResolvesOrder ==
    ASSUME NEW s, NEW t, NEW Q, Resolves(s, t, Q),
           NEW L, NEW W, NEW S, NEW att, NEW rdy, NEW S2, S2 \subseteq S,
           OrderAt(L, W, s, S, att, rdy)
    PROVE  OrderAt(L, W, t, S2, att, rdy)
<1>1. Redo(t) \subseteq Redo(s) /\ t.outbound = s.outbound /\ t.batch = s.batch
  BY ResolvesRedo DEF Resolves
<1>2. /\ Order(L, W, s.outbound, s.batch, Redo(s), S, att, rdy)
      /\ W \in Seq(Frames) /\ att \in BOOLEAN /\ rdy \in BOOLEAN
  BY DEF OrderAt, Order, FrameTypes
<1> DEFINE o == s.outbound
           b == s.batch
           P == Redo(s)
           P2 == Redo(t)
<1>3. Order(L, W, o, b, P, S, att, rdy) /\ P2 \subseteq P
  BY <1>1, <1>2
<1> HIDE DEF o, b, P, P2
<1>4. Order(L, W, o, b, P2, S2, att, rdy)
  BY <1>2, <1>3, OrderShrinks
<1> QED
  BY <1>1, <1>4 DEF OrderAt, o, b, P2

LEMMA DrainedFields ==
    ASSUME NEW s \in Queues
    PROVE  /\ Drained(s).outbound = <<>> /\ Drained(s).batch = <<>>
           /\ Redo(Drained(s)) = {}
<1>1. s \in ProducerState
  BY QueueFields
<1>2. Drained(s).outbound = <<>> /\ Drained(s).batch = <<>> /\ Drained(s).pending = <<>>
  BY <1>1 DEF Drained, ProducerState
<1> QED
  BY <1>2, NoOps, ReplaysOf DEF Redo

LEMMA SnapshotsRedo ==
    ASSUME NEW s \in Queues
    PROVE  Replays(OpsOf(Snapshots(s))) \subseteq Redo(s)
<1> DEFINE whole == {op \in OpsOf(s.pending) : Replayable(op)}
           kept == Kept(s.pending, whole)
           bare(i) == [kept[i] EXCEPT !.waker = NoWaker]
           snaps == [i \in 1..Len(kept) |-> bare(i)]
<1>1. s.pending \in Seq(Ops)
  BY QueueFields
<1>2. Snapshots(s) = snaps
  BY DEF Snapshots
<1>3. kept \in Seq(Ops) /\ OpsOf(kept) \subseteq OpsOf(s.pending)
  <2> HIDE DEF whole
  <2> QED
    BY <1>1, KeptOps
<1> HIDE DEF kept
<1>4. Len(kept) \in Nat /\ \A i \in 1..Len(kept) : kept[i] \in Ops
  BY <1>3
<1>5. \A i \in 1..Len(kept) : bare(i).seq = kept[i].seq /\ bare(i).parts = kept[i].parts
  BY <1>4 DEF Ops
<1> HIDE DEF bare
<1>6. Len(snaps) = Len(kept) /\ \A i \in 1..Len(kept) : snaps[i] = bare(i)
  BY <1>4
<1> HIDE DEF snaps
<1>7. ASSUME NEW op \in OpsOf(snaps)
      PROVE  \E o \in OpsOf(s.pending) : o.seq = op.seq /\ o.parts = op.parts
  <2>1. PICK i \in 1..Len(kept) : op = bare(i)
    BY <1>6 DEF OpsOf
  <2>2. kept[i] \in OpsOf(s.pending)
    BY <1>3 DEF OpsOf
  <2> QED
    BY <1>5, <2>1, <2>2
<1> QED
  BY <1>2, <1>7 DEF Replays, Redo

LEMMA WakerRedo ==
    ASSUME NEW s \in Queues, NEW k \in 1..Len(s.pending), NEW q \in Seqs
    PROVE  LET t == [s EXCEPT !.pending[k].waker = q]
           IN  /\ Redo(t) \subseteq Redo(s)
               /\ t.outbound = s.outbound /\ t.batch = s.batch
               /\ t.broker_ready = s.broker_ready
<1> DEFINE ops == [s.pending EXCEPT ![k] = [s.pending[k] EXCEPT !.waker = q]]
           t == [s EXCEPT !.pending = ops]
<1>1. s \in ProducerState /\ s.pending \in Seq(Ops) /\ s.pending[k] \in Ops
  BY QueueFields
<1>2. [s EXCEPT !.pending[k].waker = q] = t
  BY <1>1 DEF ProducerState
<1>3. /\ [s.pending[k] EXCEPT !.waker = q].seq = s.pending[k].seq
      /\ [s.pending[k] EXCEPT !.waker = q].parts = s.pending[k].parts
      /\ [s.pending[k] EXCEPT !.waker = q] \in Ops
  BY <1>1 DEF Ops
<1>4. /\ Len(ops) = Len(s.pending)
      /\ \A i \in 1..Len(s.pending) :
           ops[i].seq = s.pending[i].seq /\ ops[i].parts = s.pending[i].parts
  BY <1>1, <1>3
<1> HIDE DEF ops
<1>5. /\ t.pending = ops /\ t.outbound = s.outbound /\ t.batch = s.batch
      /\ t.broker_ready = s.broker_ready
  BY <1>1 DEF ProducerState
<1> HIDE DEF t
<1>6. ASSUME NEW op \in OpsOf(ops)
      PROVE  \E o \in OpsOf(s.pending) : o.seq = op.seq /\ o.parts = op.parts
  <2>1. PICK i \in 1..Len(s.pending) : op = ops[i]
    BY <1>4 DEF OpsOf
  <2>2. s.pending[i] \in OpsOf(s.pending)
    BY DEF OpsOf
  <2> QED
    BY <1>4, <2>1, <2>2
<1>7. Redo(t) \subseteq Redo(s)
  BY <1>5, <1>6 DEF Replays, Redo
<1> QED
  BY <1>2, <1>5, <1>7

LEMMA SuccessOrder ==
    ASSUME NEW s \in Queues, NEW ops \in Seq(Ops), Sorted(ops),
           \A op \in OpsOf(ops) : op.seq < s.next,
           \A x \in OpsOf(ops), y \in OpsOf(s.pending) : x.seq < y.seq,
           NEW L, NEW W, NEW att, NEW rdy,
           OrderAt(L, W, s, Replays(OpsOf(ops)), att, rdy), att => ~HasSend(W)
    PROVE  OrderAt(L, W, Replayed(ReplayPendingOutbound(s), ops), {}, att, TRUE)
<1> DEFINE staged == {s.outbound[i].lo : i \in 1..Len(s.outbound)}
           missing == {op \in OpsOf(s.pending) : op.seq \notin staged}
           unsent == Kept(s.pending, missing)
           u == Concat(unsent)
           c == Concat(ops)
           m == ReplayPendingOutbound(s)
           t == Replayed(m, ops)
<1>1. s \in ProducerState /\ s.pending \in Seq(Ops) /\ Sorted(s.pending)
  BY QueueFields
<1>2. m = [s EXCEPT !.outbound = u \o s.outbound]
  BY <1>1 DEF ReplayPendingOutbound, ProducerState
<1>3. unsent \in Seq(Ops) /\ Sorted(unsent) /\ OpsOf(unsent) = missing
  <2>1. missing \subseteq OpsOf(s.pending)
    OBVIOUS
  <2> HIDE DEF missing
  <2> QED
    BY <1>1, <2>1, KeptOps
<1> HIDE DEF unsent
<1>4. u \in Seq(SendFrames) /\ Ascending(u) /\ In(u) = Replays(missing)
  BY <1>3, ConcatIs
<1>5. c \in Seq(SendFrames) /\ Ascending(c) /\ In(c) = Replays(OpsOf(ops))
  BY ConcatIs
<1> HIDE DEF u, c
<1>6. /\ m \in ProducerState /\ m.outbound = u \o s.outbound /\ m.pending = s.pending
      /\ m.batch = s.batch /\ m.next = s.next
  <2>1. m \in Queues
    BY ReplayPendingOutboundIs
  <2>2. m \in ProducerState
    BY <2>1, QueueFields
  <2> QED
    BY <1>1, <1>2, <2>2 DEF ProducerState
<1> HIDE DEF m
<1>7. /\ t.outbound = c \o m.outbound /\ t.pending = ops \o m.pending /\ t.batch = m.batch
  <2>1. CASE ops = <<>>
    <3>1. c = <<>> /\ m.outbound \in Seq(SendFrames) /\ m.pending \in Seq(Ops)
      BY <1>6, <2>1, ConcatNone DEF ProducerState, c
    <3>2. <<>> \o m.outbound = m.outbound /\ <<>> \o m.pending = m.pending
      BY <3>1
    <3> QED
      BY <2>1, <3>1, <3>2 DEF Replayed
  <2>2. CASE ops # <<>>
    BY <1>6, <2>2 DEF Replayed, ReplaySnapshots, ProducerState, c
  <2> QED
    BY <2>1, <2>2
<1>8. /\ t.outbound = c \o (u \o s.outbound) /\ t.pending = ops \o s.pending
      /\ t.batch = s.batch
  BY <1>6, <1>7
<1> HIDE DEF t
<1>9. Redo(t) = Replays(OpsOf(ops)) \cup Redo(s)
  <2>1. OpsOf(t.pending) = OpsOf(ops) \cup OpsOf(s.pending)
    BY <1>1, <1>8, JoinOps
  <2> QED
    BY <2>1, ReplaysOf DEF Redo
<1>10. In(u) = {f \in Redo(s) : \A g \in In(s.outbound) : f.lo # g.lo}
  <2>1. \A q : q \in staged <=> \E g \in In(s.outbound) : q = g.lo
    BY DEF In
  <2> HIDE DEF staged
  <2> QED
    BY <1>4, <2>1 DEF Redo, Replays
<1>11. ASSUME NEW f \in Replays(OpsOf(ops)), NEW g \in Redo(s) PROVE f.lo < g.lo
  <2>1. PICK x \in OpsOf(ops) : x.seq = f.lo
    BY DEF Replays
  <2>2. PICK y \in OpsOf(s.pending) : y.seq = g.lo
    BY DEF Replays, Redo
  <2> QED
    BY <2>1, <2>2
<1> DEFINE o == s.outbound
           b == s.batch
           P == Redo(s)
           S == Replays(OpsOf(ops))
<1>12. /\ Order(L, W, o, b, P, S, att, rdy) /\ In(c) = S
       /\ In(u) = {f \in P : \A g \in In(o) : f.lo # g.lo}
       /\ \A f \in S, g \in P : f.lo < g.lo
  BY <1>5, <1>10, <1>11 DEF OrderAt
<1> HIDE DEF o, b, P, S
<1>13. Order(L, W, c \o (u \o o), b, S \cup P, {}, att, TRUE)
  BY <1>4, <1>5, <1>12, OrderReplays
<1>14. OrderAt(L, W, t, {}, att, TRUE)
  BY <1>8, <1>9, <1>13 DEF OrderAt, o, b, P, S
<1> QED
  BY <1>14 DEF t, m

-----------------------------------------------------------------------------
(* The steps of the session keep the order.                                *)

Logged(entries) == [i \in 1..Len(entries) |-> Sent(entries[i].frame)]
Aside == Replays(OpsOf(snapshots))
Taking == reg = "attached"
Ready == known /\ p.broker_ready

TurnsInv == OrderAt(Logged(log), wire, p, Aside, Taking, Ready)

(* An attach that the client has not read yet leaves no send on the wire. *)
AnswerInv == known /\ Taking /\ OpenAnswer \in In(inbound) => ~HasSend(wire)

SequenceInv == TurnsInv /\ AnswerInv

LEMMA LiveAreFrames ==
    ASSUME NEW n
    PROVE  /\ LiveFrames(n) \subseteq Frames
           /\ \A w \in Seq(LiveFrames(n)) : w \in Seq(Frames)
<1>1. LiveFrames(n) \subseteq Frames
  BY DEF LiveFrames, Sends, Sound, Frames
<1> QED
  BY <1>1, SeqMonotone

LEMMA QueueSame ==
    ASSUME NEW s, NEW t, SameQueue(s, t)
    PROVE  t.outbound = s.outbound /\ t.batch = s.batch /\ Redo(t) = Redo(s)
BY DEF SameQueue, Redo

(* The queue, from s to t, and what is set aside, from S to S2. *)
Wanes(s, t, S, S2) ==
    /\ t.outbound \in {s.outbound, <<>>} /\ t.batch \in {s.batch, <<>>}
    /\ Redo(t) \subseteq Redo(s)
    /\ \/ S2 \subseteq S
       \/ t.outbound = <<>> /\ t.batch = <<>> /\ S2 \subseteq Redo(s) \cup S
Emptied(t, S2) == t.outbound = <<>> /\ Redo(t) = {} /\ S2 = {}

(* The wire gets nothing that is a send. *)
Silent ==
    \/ wire' = wire
    \/ wire' = <<>> /\ ~Taking'
    \/ wire # <<>> /\ wire' = Tail(wire) /\ ~Taking'
    \/ \E x \in LiveFrames(p.next) : x.type # "Send" /\ wire' = Append(wire, x)

LEMMA SilentWire ==
    ASSUME Types, Types', Silent
    PROVE  /\ wire \in Seq(Frames) /\ wire' \in Seq(Frames)
           /\ \A f : Has(f, wire') => Has(f, wire)
           /\ Taking' => \A f : /\ InTurn(f, wire) => InTurn(f, wire')
                                /\ Has(f, wire) => Has(f, wire')
           /\ HasSend(wire') => HasSend(wire)
<1>1. wire \in Seq(LiveFrames(p.next)) /\ wire \in Seq(Frames) /\ wire' \in Seq(Frames)
  BY LiveAreFrames DEF Types
<1>2. CASE wire' = wire
  BY <1>1, <1>2
<1>3. CASE wire' = <<>> /\ ~Taking'
  BY <1>1, <1>3, FrameNumbers DEF HasSend
<1>4. CASE wire # <<>> /\ wire' = Tail(wire) /\ ~Taking'
  <2>1. In(wire') \subseteq In(wire)
    BY <1>1, <1>4, InList
  <2> QED
    BY <1>1, <1>4, <2>1 DEF Has, HasSend
<1>5. ASSUME NEW x \in LiveFrames(p.next), x.type # "Send", wire' = Append(wire, x)
      PROVE  /\ \A f : Has(f, wire') <=> Has(f, wire)
             /\ \A f : InTurn(f, wire') <=> InTurn(f, wire)
             /\ HasSend(wire') => HasSend(wire)
  <2>1. ASSUME NEW f
        PROVE  /\ Has(f, Append(wire, x)) <=> Has(f, wire) \/ x = Sent(f)
               /\ InTurn(f, Append(wire, x)) <=> InTurn(f, wire) /\ (Has(f, wire) \/ ~Passes(x, f))
    BY <1>1, <1>5, InTurnAppend
  <2>2. ASSUME NEW f PROVE x # Sent(f) /\ ~Passes(x, f)
    BY <1>5, SentIs DEF Passes
  <2>3. In(wire') = In(wire) \cup {x}
    BY <1>1, <1>5, InList
  <2> QED
    BY <1>5, <2>1, <2>2, <2>3 DEF HasSend
<1> QED
  BY <1>1, <1>2, <1>3, <1>4, <1>5 DEF Silent

LEMMA AnswerKept ==
    ASSUME SessionInv, SessionInv', AnswerInv, known' => known,
           reg' = reg \/ ~Taking',
           \A x \in In(inbound') : x.type = "ProducerSuccess" => x \in In(inbound),
           HasSend(wire') => HasSend(wire) \/ (GateOpen(p) /\ p'.broker_ready = p.broker_ready),
           \/ p'.open_request_id = p.open_request_id
           \/ p'.open_request_id = NoReq
           \/ ~NoOpen(wire')
    PROVE  AnswerInv'
<1> SUFFICES ASSUME known', Taking', OpenAnswer' \in In(inbound'), HasSend(wire')
             PROVE  FALSE
  BY DEF AnswerInv
<1>1. Types' /\ DownInv' /\ AttachedInv'
  BY DEF SessionInv, GateInv
<1>2. conn' = "connected"
  BY <1>1 DEF DownInv, Taking
<1>3. OpenAnswer'.type = "ProducerSuccess" /\ OpenAnswer'.arg = p'.open_request_id
  BY DEF OpenAnswer, Frame
<1>4. p'.open_request_id \in Requests
  <2>1. In(inbound') \subseteq Answers(p'.next)
    BY <1>1, InList DEF Types
  <2>2. OpenAnswer' \in Answers(p'.next)
    BY <2>1
  <2> QED
    BY <1>3, <2>2 DEF Answers
<1>5. p'.open_request_id # NoReq
  BY <1>4, RequestsAssumption DEF Requests, NoReq
<1>6. ~p'.broker_ready /\ NoOpen(wire')
  BY <1>1, <1>2, <1>5 DEF AttachedInv
<1>7. OpenAnswer' = OpenAnswer
  BY <1>5, <1>6 DEF OpenAnswer
<1>8. HasSend(wire)
  BY <1>6 DEF GateOpen
<1> QED
  BY <1>3, <1>7, <1>8 DEF AnswerInv, Taking

LEMMA CalmStep ==
    ASSUME SessionInv, SessionInv', SequenceInv, known' => known,
           log' = log, reg' = reg \/ ~Taking',
           \A x \in In(inbound') : x.type = "ProducerSuccess" => x \in In(inbound),
           Silent, Wanes(p, p', Aside, Aside'),
           Taking' /\ Ready' => (Ready /\ p'.outbound = p.outbound) \/ Emptied(p', Aside'),
           \/ p'.open_request_id = p.open_request_id
           \/ p'.open_request_id = NoReq
           \/ ~NoOpen(wire')
    PROVE  SequenceInv'
<1>1. Types /\ Types' /\ TurnsInv /\ AnswerInv
  BY DEF SessionInv, SequenceInv
<1>2. /\ wire \in Seq(Frames) /\ wire' \in Seq(Frames)
      /\ \A f : Has(f, wire') => Has(f, wire)
      /\ Taking' => \A f : /\ InTurn(f, wire) => InTurn(f, wire')
                           /\ Has(f, wire) => Has(f, wire')
      /\ HasSend(wire') => HasSend(wire)
  BY <1>1, SilentWire
<1>3. AnswerInv'
  BY <1>1, <1>2, AnswerKept
<1>4. Taking' => Taking
  BY DEF Taking
<1>5. Taking' \in BOOLEAN /\ Ready' \in BOOLEAN
  <2>1. known' \in BOOLEAN /\ p'.broker_ready \in BOOLEAN
    BY <1>1, QueueFields DEF Types, ConnTypes
  <2> QED
    BY <2>1 DEF Taking, Ready
<1> DEFINE L == Logged(log)
           o == p.outbound
           b == p.batch
           P == Redo(p)
           o2 == p'.outbound
           b2 == p'.batch
           P2 == Redo(p')
           att2 == Taking'
           rdy2 == Ready'
           S2 == Aside'
<1>6. /\ Order(L, wire, o, b, P, Aside, Taking, Ready)
      /\ o2 \in {o, <<>>} /\ b2 \in {b, <<>>} /\ P2 \subseteq P
      /\ S2 \subseteq Aside \/ (o2 = <<>> /\ b2 = <<>> /\ S2 \subseteq P \cup Aside)
      /\ att2 /\ rdy2 => (Ready /\ o2 = o) \/ (o2 = <<>> /\ P2 = {} /\ S2 = {})
  BY <1>1 DEF TurnsInv, OrderAt, Wanes, Emptied
<1>7. /\ att2 \in BOOLEAN /\ rdy2 \in BOOLEAN
      /\ att2 => Taking /\ \A f : /\ InTurn(f, wire) => InTurn(f, wire')
                                  /\ Has(f, wire) => Has(f, wire')
  BY <1>2, <1>4, <1>5
<1> HIDE DEF L, o, b, P, o2, b2, P2, att2, rdy2, S2
<1>8. Order(L, wire', o2, b2, P2, S2, att2, rdy2)
  BY <1>2, <1>6, <1>7, OrderShrinks
<1>9. TurnsInv'
  BY <1>8 DEF TurnsInv, OrderAt, L, o2, b2, P2, att2, rdy2, S2
<1> QED
  BY <1>3, <1>9 DEF SequenceInv

LEMMA InAppend ==
    ASSUME NEW S, NEW list \in Seq(S), NEW x
    PROVE  In(Append(list, x)) = In(list) \cup {x}
<1>1. list \in Seq(S \cup {x}) /\ x \in S \cup {x}
  BY SeqMonotone
<1> QED
  BY <1>1, InList

(* No attach is answered. *)
Unanswering ==
    \/ inbound' = inbound \/ inbound' = <<>>
    \/ inbound # <<>> /\ inbound' = Tail(inbound)
    \/ \E x : x.type # "ProducerSuccess" /\ inbound' = Append(inbound, x)

LEMMA NoNewAnswer ==
    ASSUME Types, Unanswering
    PROVE  \A x \in In(inbound') : x.type = "ProducerSuccess" => x \in In(inbound)
<1>1. inbound \in Seq(Answers(p.next))
  BY DEF Types
<1>2. CASE inbound' = inbound \/ inbound' = <<>>
  BY <1>2, FrameNumbers
<1>3. CASE inbound # <<>> /\ inbound' = Tail(inbound)
  BY <1>1, <1>3, InList
<1>4. ASSUME NEW x, x.type # "ProducerSuccess", inbound' = Append(inbound, x)
      PROVE  In(inbound') = In(inbound) \cup {x}
  BY <1>1, <1>4, InAppend
<1> QED
  BY <1>2, <1>3, <1>4 DEF Unanswering

Given == SessionInv /\ SessionInv' /\ SequenceInv
Apart ==
    /\ known' => known
    /\ log' = log
    /\ reg' = reg \/ ~Taking'
    /\ Unanswering /\ Silent
    /\ \/ p'.open_request_id = p.open_request_id
       \/ p'.open_request_id = NoReq
       \/ ~NoOpen(wire')

LEMMA StillStep ==
    ASSUME Given, Apart, SameQueue(p, p'), p'.broker_ready => p.broker_ready,
           Aside' \subseteq Aside
    PROVE  SequenceInv'
<1>1. Wanes(p, p', Aside, Aside')
  BY QueueSame DEF Wanes
<1>2. Ready' => Ready /\ p'.outbound = p.outbound
  BY QueueSame DEF Ready, Apart
<1>3. \A x \in In(inbound') : x.type = "ProducerSuccess" => x \in In(inbound)
  BY NoNewAnswer DEF Apart, Given, SessionInv
<1> QED
  BY <1>1, <1>2, <1>3, CalmStep DEF Given, Apart

LEMMA EndStep ==
    ASSUME Given, Apart, p'.outbound = <<>>, p'.batch = <<>>, Redo(p') = {}, Aside' = {}
    PROVE  SequenceInv'
<1>1. Wanes(p, p', Aside, Aside') /\ Emptied(p', Aside')
  BY DEF Wanes, Emptied
<1>2. \A x \in In(inbound') : x.type = "ProducerSuccess" => x \in In(inbound)
  BY NoNewAnswer DEF Apart, Given, SessionInv
<1> QED
  BY <1>1, <1>2, CalmStep DEF Given, Apart

LEMMA ResolvesStep ==
    ASSUME Given, Apart, NEW Q, Resolves(p, p', Q), Aside' \subseteq Aside
    PROVE  SequenceInv'
<1>1. p'.outbound = p.outbound /\ p'.batch = p.batch /\ SameControl(p, p')
  BY DEF Resolves
<1>2. Redo(p') \subseteq Redo(p)
  BY ResolvesRedo
<1>3. Wanes(p, p', Aside, Aside')
  BY <1>1, <1>2 DEF Wanes
<1>4. Ready' => Ready /\ p'.outbound = p.outbound
  BY <1>1 DEF Ready, Apart, SameControl
<1>5. \A x \in In(inbound') : x.type = "ProducerSuccess" => x \in In(inbound)
  BY NoNewAnswer DEF Apart, Given, SessionInv
<1> QED
  BY <1>3, <1>4, <1>5, CalmStep DEF Given, Apart

(* Nothing moves but the link. *)
LEMMA LinkStep ==
    ASSUME Given, UNCHANGED <<p, snapshots, known, log>>, Unanswering, Silent,
           reg' = reg \/ ~Taking'
    PROVE  SequenceInv'
<1>1. SameQueue(p, p') /\ Aside' \subseteq Aside
  BY DEF SameQueue, Aside
<1> QED
  BY <1>1, StillStep DEF Apart

LEMMA IssuesOpen ==
    ASSUME Types, Request("open", "Producer")
    PROVE  Silent /\ ~NoOpen(wire')
<1> DEFINE x == Frame("Producer", nextReq)
<1>1. wire' = Append(wire, x) /\ nextReq \in Requests
  BY DEF Request
<1>2. x \in LiveFrames(p.next) /\ x.type = "Producer"
  BY <1>1 DEF Frame, LiveFrames
<1> HIDE DEF x
<1>3. x \in In(wire')
  BY <1>1, InAppend DEF Types
<1> QED
  BY <1>1, <1>2, <1>3 DEF Silent, NoOpen, Opens

LEMMA QueueFits ==
    ASSUME Types
    PROVE  p \in Queues /\ p \in ProducerState
BY QueueFields DEF Types

(* fail_producer_open_with_broker_error *)
LEMMA FailOpenStep ==
    ASSUME Given, FailProducerOpen, UNCHANGED <<wire, log, reg>>, Unanswering
    PROVE  SequenceInv'
<1> DEFINE s == [p EXCEPT !.closed = TRUE, !.broker_ready = FALSE]
<1>1. Types /\ p \in Queues /\ p \in ProducerState
  BY QueueFits DEF Given, SessionInv
<1>2. s \in ProducerState /\ SameQueue(p, s) /\ s.open_request_id = p.open_request_id
  BY <1>1 DEF ProducerState, SameQueue
<1>3. p' = Drained(s) /\ snapshots' = <<>> /\ known' = FALSE
  BY DEF FailProducerOpen
<1> HIDE DEF s
<1>4. s \in Queues
  BY <1>1, <1>2, ControlAssigned
<1>5. p'.outbound = <<>> /\ p'.batch = <<>> /\ Redo(p') = {} /\ p'.open_request_id = p.open_request_id
  BY <1>2, <1>3, <1>4, DrainedFields, DrainedIs DEF SameControl
<1>6. Aside' = {}
  BY <1>3, NoOps, ReplaysOf DEF Aside
<1> QED
  BY <1>3, <1>5, <1>6, EndStep DEF Apart, Silent

LEMMA OpenFailedStep ==
    ASSUME Given, NEW r, OpenFailed(r), UNCHANGED <<wire, log, reg>>, Unanswering
    PROVE  SequenceInv'
<1>1. p \in ProducerState
  BY QueueFits DEF Given, SessionInv
<1>2. CASE /\ p' = [p EXCEPT !.broker_ready = FALSE, !.attempts = @ + 1]
           /\ UNCHANGED <<known, snapshots, futVars>>
  <2>1. /\ SameQueue(p, p') /\ ~p'.broker_ready /\ p'.open_request_id = p.open_request_id
    BY <1>1, <1>2 DEF ProducerState, SameQueue
  <2>2. Aside' = Aside
    BY <1>2 DEF Aside
  <2> QED
    BY <1>2, <2>1, <2>2, StillStep DEF Apart, Silent
<1>3. CASE FailProducerOpen
  BY <1>3, FailOpenStep
<1> QED
  BY <1>2, <1>3 DEF OpenFailed

(* Steps of the broker and of the link alone. *)
LEMMA LinkSteps ==
    ASSUME Given,
           \/ AppFlushed \/ SupervisorConnected \/ TransportLost \/ BrokerUnload
           \/ BrokerRefusesProducer \/ BrokerCloses \/ (BrokerSend /\ ~Taking)
    PROVE  SequenceInv'
<1>1. SessionInv
  BY DEF Given
<1>2. CASE AppFlushed
  BY <1>2, LinkStep DEF AppFlushed, FlushReturns, bvars, Unanswering, Silent
<1>3. CASE SupervisorConnected
  BY <1>3, LinkStep DEF SupervisorConnected, Connected, bvars, Unanswering, Silent
<1>4. CASE TransportLost
  <2>1. UNCHANGED <<p, snapshots, known, log, wire>> /\ inbound' = <<>> /\ ~Taking'
    BY <1>4 DEF TransportLost, Disconnect, Taking
  <2> QED
    BY <2>1, LinkStep DEF Unanswering, Silent
<1>5. CASE BrokerUnload
  <2>1. /\ UNCHANGED <<p, snapshots, known, log, wire>> /\ ~Taking'
        /\ inbound' = Append(inbound, Frame("CloseProducer", NoReq))
    BY <1>5 DEF BrokerUnload, Taking, vars, Reply
  <2>2. Frame("CloseProducer", NoReq).type # "ProducerSuccess"
    BY DEF Frame
  <2> QED
    BY <2>1, <2>2, LinkStep DEF Unanswering, Silent
<1>6. CASE BrokerRefusesProducer
  <2>1. /\ UNCHANGED <<p, snapshots, known, log>> /\ wire # <<>> /\ wire' = Tail(wire) /\ ~Taking'
        /\ \/ inbound' = Append(inbound, Frame("NotReady", Taken))
           \/ inbound' = Append(inbound, Frame("Denied", Taken))
           \/ inbound' = inbound
    BY <1>6 DEF BrokerRefusesProducer, Takes, PollTransmit, Taking, Reply
  <2>2. /\ Frame("NotReady", Taken).type # "ProducerSuccess"
        /\ Frame("Denied", Taken).type # "ProducerSuccess"
    BY DEF Frame
  <2> QED
    BY <2>1, <2>2, LinkStep DEF Unanswering, Silent
<1>7. CASE BrokerCloses
  <2>1. /\ UNCHANGED <<p, snapshots, known, log>> /\ wire # <<>> /\ wire' = Tail(wire) /\ ~Taking'
        /\ inbound' = Append(inbound, Frame("Success", Taken))
    BY <1>7 DEF BrokerCloses, Takes, PollTransmit, Taking, Reply
  <2>2. Frame("Success", Taken).type # "ProducerSuccess"
    BY DEF Frame
  <2> QED
    BY <2>1, <2>2, LinkStep DEF Unanswering, Silent
<1>8. CASE BrokerSend /\ ~Taking
  <2>1. /\ UNCHANGED <<p, snapshots, known, log, inbound>> /\ wire # <<>> /\ wire' = Tail(wire)
        /\ ~Taking'
    BY <1>8 DEF BrokerSend, Takes, PollTransmit, Taking
  <2> QED
    BY <2>1, LinkStep DEF Unanswering, Silent
<1> QED
  BY <1>2, <1>3, <1>4, <1>5, <1>6, <1>7, <1>8

(* A frame is read. *)
LEMMA ReadsOne ==
    ASSUME Given, NEW type, Arrives(type)
    PROVE  UNCHANGED <<reg, log>> /\ Unanswering
BY DEF Arrives, Unanswering

LEMMA IgnoredKeeps ==
    ASSUME Given, NEW type, Arrives(type), UNCHANGED vars
    PROVE  SequenceInv'
<1>1. UNCHANGED <<p, snapshots, known, wire>>
  BY DEF vars
<1> QED
  BY <1>1, ReadsOne, LinkStep DEF Silent

(* CommandError for an open. *)
LEMMA RefusedKeeps ==
    ASSUME Given, ClientNotReady \/ ClientDenied
    PROVE  SequenceInv'
<1>1. ASSUME NEW type, Arrives(type), NEW r, NEW retryable, HandleOpenRefused(r, retryable)
      PROVE  SequenceInv'
  <2>1. UNCHANGED <<reg, log, wire>> /\ Unanswering
    BY <1>1, ReadsOne DEF HandleOpenRefused
  <2>2. CASE UNCHANGED <<p, known, snapshots>>
    BY <2>1, <2>2, LinkStep DEF Silent
  <2>3. CASE OpenFailed(r)
    BY <2>1, <2>3, OpenFailedStep
  <2>4. CASE FailProducerOpen
    BY <2>1, <2>4, FailOpenStep
  <2>5. CASE known' = FALSE /\ UNCHANGED <<p, snapshots>>
    <3>1. SameQueue(p, p') /\ Aside' \subseteq Aside
      BY <2>5 DEF SameQueue, Aside
    <3> QED
      BY <2>1, <2>5, <3>1, StillStep DEF Apart, Silent
  <2> QED
    BY <1>1, <2>2, <2>3, <2>4, <2>5 DEF HandleOpenRefused
<1> QED
  BY <1>1, IgnoredKeeps DEF ClientNotReady, ClientDenied, Ignored

(* The receipt and the send error resolve sends. *)
LEMMA ResolvedKeeps ==
    ASSUME Given, ClientSendReceipt \/ ClientSendError
    PROVE  SequenceInv'
<1>1. SessionInv /\ p \in Queues
  BY QueueFits DEF Given, SessionInv
<1>2. ASSUME UNCHANGED <<known, wire, snapshots, log, reg>>, Unanswering,
             p' = p \/ \E Q : Resolves(p, p', Q)
      PROVE  SequenceInv'
  <2>1. CASE p' = p
    BY <1>2, <2>1, LinkStep DEF Silent
  <2>2. ASSUME NEW Q, Resolves(p, p', Q) PROVE SequenceInv'
    <3>1. Apart /\ Aside' \subseteq Aside
      BY <1>2, <2>2 DEF Apart, Silent, Aside, Resolves, SameControl
    <3> QED
      BY <2>2, <3>1, ResolvesStep
  <2> QED
    BY <1>2, <2>1, <2>2
<1>3. CASE ClientSendReceipt
  <2>1. Arrives("SendReceipt") /\ HandleSendReceipt(Arg.lo, Arg.hi)
    BY <1>3 DEF ClientSendReceipt
  <2>2. Head(inbound) \in Answers(p.next) /\ Head(inbound).type = "SendReceipt"
    BY <1>1, <2>1, ArrivesIs
  <2>3. Arg.lo \in Seqs /\ Arg.hi \in Seqs /\ Arg.lo <= Arg.hi
    BY <2>2 DEF Answers, Arg, Sound, SendFrames
  <2>4. Resolves(p, ApplyRange(p, Arg.lo, Arg.hi), Arg.lo..Arg.hi)
    BY <1>1, <2>3, ApplyRangeIs
  <2>5. /\ p' = p \/ p' = ApplyRange(p, Arg.lo, Arg.hi)
        /\ UNCHANGED <<known, wire, snapshots>>
    BY <2>1 DEF HandleSendReceipt
  <2>6. UNCHANGED <<reg, log>> /\ Unanswering
    BY <2>1, ReadsOne
  <2> QED
    BY <1>2, <2>4, <2>5, <2>6
<1>4. CASE ClientSendError
  <2>1. Arrives("SendError") /\ HandleSendError(Arg.lo)
    BY <1>4 DEF ClientSendError
  <2>2. Head(inbound) \in Answers(p.next) /\ Head(inbound).type = "SendError"
    BY <1>1, <2>1, ArrivesIs
  <2>3. Arg.lo \in Seqs
    BY <2>2 DEF Answers, Arg, Sound, SendFrames
  <2>4. Resolves(p, ApplyOne(p, Arg.lo), {Arg.lo})
    BY <1>1, <2>3, ApplyOneIs
  <2>5. /\ p' = p \/ p' = ApplyOne(p, Arg.lo)
        /\ UNCHANGED <<known, wire, snapshots>>
    BY <2>1 DEF HandleSendError
  <2>6. UNCHANGED <<reg, log>> /\ Unanswering
    BY <2>1, ReadsOne
  <2> QED
    BY <1>2, <2>4, <2>5, <2>6
<1> QED
  BY <1>3, <1>4

(* close_producer: the producer goes on as it is, behind a CommandCloseProducer. *)
LEMMA CloseKeeps ==
    ASSUME Given, AppClose
    PROVE  SequenceInv'
<1> DEFINE x == Frame("CloseProducer", nextReq)
<1>1. p \in ProducerState
  BY QueueFits DEF Given, SessionInv
<1>2. /\ wire' = Append(wire, x) /\ nextReq \in Requests
      /\ p' = [p EXCEPT !.closed = TRUE, !.close_request = nextReq]
      /\ UNCHANGED <<known, snapshots, inbound, reg, log>>
  BY DEF AppClose, CloseProducer, Request
<1>3. x \in LiveFrames(p.next) /\ x.type = "CloseProducer"
  BY <1>2 DEF Frame, LiveFrames
<1> HIDE DEF x
<1>4. /\ SameQueue(p, p') /\ p'.broker_ready = p.broker_ready
      /\ p'.open_request_id = p.open_request_id
  BY <1>1, <1>2 DEF ProducerState, SameQueue
<1>5. Apart /\ Aside' \subseteq Aside
  BY <1>2, <1>3, <1>4 DEF Apart, Silent, Unanswering, Aside
<1> QED
  BY <1>4, <1>5, StillStep

(* An open is issued. *)
LEMMA ReopensKeeps ==
    ASSUME Given, Request("open", "Producer"),
           p' = [p EXCEPT !.open_request_id = nextReq]
             \/ p' = [p EXCEPT !.broker_ready = FALSE, !.open_request_id = nextReq],
           UNCHANGED <<known, snapshots, log, reg>>, Unanswering
    PROVE  SequenceInv'
<1>1. p \in ProducerState /\ Types
  BY QueueFits DEF Given, SessionInv
<1>2. SameQueue(p, p') /\ (p'.broker_ready => p.broker_ready)
  BY <1>1 DEF ProducerState, SameQueue
<1>3. Silent /\ ~NoOpen(wire')
  BY <1>1, IssuesOpen
<1>4. Apart /\ Aside' \subseteq Aside
  BY <1>3 DEF Apart, Aside
<1> QED
  BY <1>2, <1>4, StillStep

(* CommandCloseProducer from the broker. *)
LEMMA BrokerCloseKeeps ==
    ASSUME Given, ClientCloseProducer
    PROVE  SequenceInv'
<1>1. p \in ProducerState
  BY QueueFits DEF Given, SessionInv
<1>2. UNCHANGED <<reg, log, known, snapshots>> /\ Unanswering
  BY ReadsOne DEF ClientCloseProducer, HandleCloseProducer
<1>3. CASE /\ Request("open", "Producer")
           /\ p' = [p EXCEPT !.broker_ready = FALSE, !.open_request_id = nextReq]
  BY <1>2, <1>3, ReopensKeeps
<1>4. CASE wire' = wire /\ (p' = p \/ p' = [p EXCEPT !.broker_ready = FALSE])
  <2>1. /\ SameQueue(p, p') /\ (p'.broker_ready => p.broker_ready)
        /\ p'.open_request_id = p.open_request_id
    BY <1>1, <1>4 DEF ProducerState, SameQueue
  <2>2. Apart /\ Aside' \subseteq Aside
    BY <1>2, <1>4, <2>1 DEF Apart, Silent, Aside
  <2> QED
    BY <2>1, <2>2, StillStep
<1> QED
  BY <1>3, <1>4 DEF ClientCloseProducer, HandleCloseProducer

(* CommandSuccess for a close. *)
LEMMA CloseAckedKeeps ==
    ASSUME Given, ClientSuccess
    PROVE  SequenceInv'
<1>1. p \in Queues
  BY QueueFits DEF Given, SessionInv
<1>2. CASE HandleCloseAcked(Arg)
  <2>1. UNCHANGED <<reg, log, known, wire>> /\ Unanswering
    BY <1>2, ReadsOne DEF ClientSuccess, HandleCloseAcked
  <2>2. CASE UNCHANGED <<p, snapshots>>
    BY <2>1, <2>2, LinkStep DEF Silent
  <2>3. CASE p' = Drained(p) /\ snapshots' = <<>>
    <3>1. /\ p'.outbound = <<>> /\ p'.batch = <<>> /\ Redo(p') = {}
          /\ p'.open_request_id = p.open_request_id
      BY <1>1, <2>3, DrainedFields, DrainedIs DEF SameControl
    <3>2. Aside' = {}
      BY <2>3, NoOps, ReplaysOf DEF Aside
    <3> QED
      BY <2>1, <3>1, <3>2, EndStep DEF Apart, Silent
  <2> QED
    BY <1>2, <2>2, <2>3 DEF HandleCloseAcked
<1> QED
  BY <1>2, IgnoredKeeps DEF ClientSuccess, Ignored

(* The operation timeout of an open, and the retry leg. *)
LEMMA ExpiresKeeps ==
    ASSUME Given, DriverOpenExpires \/ DriverOpenLate
    PROVE  SequenceInv'
<1>1. UNCHANGED <<inbound, reg, log>>
  BY DEF DriverOpenExpires, DriverOpenLate, bvars
<1>2. PICK r \in Requests : ExpireProducerOpen(r)
  BY DEF DriverOpenExpires, DriverOpenLate
<1>3. OpenFailed(r) /\ wire' = wire
  BY <1>2 DEF ExpireProducerOpen
<1> QED
  BY <1>1, <1>3, OpenFailedStep DEF Unanswering

LEMMA RetryKeeps ==
    ASSUME Given, DriverRetry \/ DriverLookupFails
    PROVE  SequenceInv'
<1>1. UNCHANGED <<inbound, reg, log>> /\ Unanswering
  BY DEF DriverRetry, DriverLookupFails, bvars, Unanswering
<1>2. PICK found \in BOOLEAN : RetryProducerOpen(found)
  BY DEF DriverRetry, DriverLookupFails
<1>3. CASE /\ Request("open", "Producer") /\ p' = [p EXCEPT !.open_request_id = nextReq]
           /\ UNCHANGED <<known, snapshots>>
  BY <1>1, <1>3, ReopensKeeps
<1>4. CASE FailProducerOpen /\ wire' = wire
  BY <1>1, <1>4, FailOpenStep
<1>5. CASE UNCHANGED <<p, known, wire, snapshots>>
  BY <1>1, <1>5, LinkStep DEF Silent
<1> QED
  BY <1>2, <1>3, <1>4, <1>5 DEF RetryProducerOpen

(* rebuild_producers *)
LEMMA RebuildKeeps ==
    ASSUME Given, SupervisorRebuilds
    PROVE  SequenceInv'
<1>1. UNCHANGED <<inbound, reg, log, known>> /\ Unanswering
  BY DEF SupervisorRebuilds, RebuildProducers, bvars, Unanswering
<1>2. CASE /\ Request("open", "Producer") /\ p' = [p EXCEPT !.open_request_id = nextReq]
           /\ UNCHANGED snapshots
  BY <1>1, <1>2, ReopensKeeps
<1>3. CASE snapshots' = <<>> /\ UNCHANGED <<p, wire>>
  <2>1. Aside' = {} /\ SameQueue(p, p')
    BY <1>3, NoOps, ReplaysOf DEF Aside, SameQueue
  <2> QED
    BY <1>1, <1>3, <2>1, StillStep DEF Apart, Silent
<1> QED
  BY <1>2, <1>3 DEF SupervisorRebuilds, RebuildProducers

(* fail_all_pending *)
LEMMA GiveUpKeeps ==
    ASSUME Given, SupervisorGivesUp
    PROVE  SequenceInv'
<1>1. /\ UNCHANGED <<inbound, reg, log, known, wire>> /\ snapshots' = <<>>
      /\ p' = IF known THEN Drained([p EXCEPT !.closed = TRUE]) ELSE p
  BY DEF SupervisorGivesUp, FailAllPending
<1>2. Aside' = {}
  BY <1>1, NoOps, ReplaysOf DEF Aside
<1>3. CASE ~known
  <2>1. SameQueue(p, p') /\ p' = p
    BY <1>1, <1>3 DEF SameQueue
  <2> QED
    BY <1>1, <1>2, <2>1, StillStep DEF Apart, Silent, Unanswering
<1>4. CASE known
  <2> DEFINE s == [p EXCEPT !.closed = TRUE]
  <2>1. p \in Queues /\ p \in ProducerState
    BY QueueFits DEF Given, SessionInv
  <2>2. s \in ProducerState /\ SameQueue(p, s) /\ s.open_request_id = p.open_request_id
    BY <2>1 DEF ProducerState, SameQueue
  <2>3. p' = Drained(s)
    BY <1>1, <1>4
  <2> HIDE DEF s
  <2>4. s \in Queues
    BY <2>1, <2>2, ControlAssigned
  <2>5. /\ p'.outbound = <<>> /\ p'.batch = <<>> /\ Redo(p') = {}
        /\ p'.open_request_id = p.open_request_id
    BY <2>2, <2>3, <2>4, DrainedFields, DrainedIs DEF SameControl
  <2> QED
    BY <1>1, <1>2, <2>5, EndStep DEF Apart, Silent, Unanswering
<1>5. known \in BOOLEAN
  BY DEF Given, SessionInv, Types, ConnTypes
<1> QED
  BY <1>3, <1>4, <1>5

(* reset *)
LEMMA ResetKeeps ==
    ASSUME Given, SupervisorReset
    PROVE  SequenceInv'
<1>1. UNCHANGED <<inbound, reg, log, known>> /\ wire' = <<>> /\ conn = "lost"
  BY DEF SupervisorReset, Reset, bvars
<1>2. ~Taking /\ ~Taking' /\ Silent
  BY <1>1 DEF Given, SessionInv, GateInv, DownInv, Taking, Silent
<1>3. p \in Queues /\ snapshots \in Seq(Ops) /\ p.pending \in Seq(Ops)
  BY QueueFits, QueueFields DEF Given, SessionInv, Types, SnapshotTypes
<1>4. CASE UNCHANGED <<p, snapshots>>
  BY <1>1, <1>2, <1>4, LinkStep DEF Unanswering
<1>5. CASE /\ p' = [Drained(p) EXCEPT !.broker_ready = FALSE]
           /\ snapshots' = snapshots \o Snapshots(p)
  <2> DEFINE d == Drained(p)
             s == Snapshots(p)
  <2>1. d \in Queues /\ SameControl(p, d) /\ d.outbound = <<>> /\ d.batch = <<>> /\ Redo(d) = {}
    BY <1>3, DrainedIs, DrainedFields
  <2>2. p' = [d EXCEPT !.broker_ready = FALSE] /\ snapshots' = snapshots \o s
    BY <1>5
  <2>3. s \in Seq(Ops) /\ Replays(OpsOf(s)) \subseteq Redo(p)
    BY <1>3, SnapshotsAre, SnapshotsRedo
  <2> HIDE DEF d, s
  <2>4. d \in ProducerState
    BY <2>1, QueueFields
  <2>5. /\ p'.outbound = <<>> /\ p'.batch = <<>> /\ Redo(p') = {}
        /\ p'.open_request_id = p.open_request_id
    BY <2>1, <2>2, <2>4 DEF ProducerState, SameControl, Redo
  <2>6. OpsOf(snapshots') = OpsOf(snapshots) \cup OpsOf(s)
    BY <1>3, <2>2, <2>3, JoinOps
  <2>7. Aside' \subseteq Redo(p) \cup Aside
    BY <2>3, <2>6, ReplaysOf DEF Aside, Replays
  <2>8. Wanes(p, p', Aside, Aside')
    BY <2>5, <2>7 DEF Wanes
  <2> QED
    BY <1>1, <1>2, <2>5, <2>8, CalmStep DEF Given
<1> QED
  BY <1>4, <1>5 DEF SupervisorReset, Reset

(* SendFut::poll *)
LEMMA PollKeeps ==
    ASSUME Given, NEW q \in Seqs, AppPoll(q)
    PROVE  SequenceInv'
<1>1. UNCHANGED <<inbound, reg, log, known, wire, snapshots>>
  BY DEF AppPoll, Poll, bvars
<1>2. p \in Queues
  BY QueueFits DEF Given, SessionInv
<1>3. CASE p' = p
  BY <1>1, <1>3, LinkStep DEF Unanswering, Silent
<1>4. CASE Attached(q) /\ p' = [p EXCEPT !.pending[p.pending_index[q]].waker = q]
  <2> DEFINE k == p.pending_index[q]
  <2>1. k \in 1..Len(p.pending)
    BY <1>4 DEF Attached
  <2> HIDE DEF k
  <2>2. p' = [p EXCEPT !.pending[k].waker = q]
    BY <1>4 DEF k
  <2>3. /\ Redo(p') \subseteq Redo(p) /\ p'.outbound = p.outbound /\ p'.batch = p.batch
        /\ p'.broker_ready = p.broker_ready /\ p'.open_request_id = p.open_request_id
    BY <1>2, <2>1, <2>2, WakerRedo, WakerPut DEF SameControl
  <2>4. Wanes(p, p', Aside, Aside')
    BY <1>1, <2>3 DEF Wanes, Aside
  <2> QED
    BY <1>1, <2>3, <2>4, CalmStep DEF Given, Silent, Ready
<1> QED
  BY <1>3, <1>4 DEF AppPoll, Poll

(* Frames may leave outbound for the wire. *)
LEMMA TransmitKeeps ==
    ASSUME Given, Transmits, SameControl(p, p'), UNCHANGED <<known, inbound, reg, log>>,
           OrderAt(Logged(log), wire', p', Aside', Taking, Ready)
    PROVE  SequenceInv'
<1>1. Taking' = Taking /\ Ready' = Ready
  BY DEF Taking, Ready, SameControl
<1>2. TurnsInv'
  BY <1>1 DEF TurnsInv
<1>3. HasSend(wire') => HasSend(wire) \/ (GateOpen(p) /\ p'.broker_ready = p.broker_ready)
  <2>1. PICK sends \in Seq(Sends(p.next)) : wire' = wire \o sends /\ (sends # <<>> => GateOpen(p))
    BY DEF Transmits
  <2>2. wire \in Seq(LiveFrames(p.next))
    BY DEF Given, SessionInv, Types
  <2>3. CASE sends = <<>>
    <3>1. wire' = wire
      BY <2>1, <2>2, <2>3
    <3> QED
      BY <3>1
  <2> QED
    BY <2>1, <2>3 DEF SameControl
<1>4. AnswerInv'
  BY <1>3, AnswerKept DEF Given, SequenceInv, SameControl
<1> QED
  BY <1>2, <1>4 DEF SequenceInv

LEMMA LoggedIs ==
    ASSUME NEW n, NEW entries \in Seq(Entries(n))
    PROVE  /\ Logged(entries) \in Seq(Frames) /\ Len(Logged(entries)) = Len(entries)
           /\ \A i \in 1..Len(entries) : /\ Logged(entries)[i] = Sent(entries[i].frame)
                                         /\ entries[i].frame \in Sound(n)
           /\ \A e \in Entries(n) :
                 Logged(Append(entries, e)) = Append(Logged(entries), Sent(e.frame))
<1> DEFINE g(i) == Sent(entries[i].frame)
           L == [i \in 1..Len(entries) |-> g(i)]
<1>1. \A i \in 1..Len(entries) : entries[i].frame \in Sound(n)
  <2>1. \A i \in 1..Len(entries) : entries[i] \in Entries(n)
    OBVIOUS
  <2> QED
    BY <2>1 DEF Entries
<1>2. \A f \in Sound(n) : Sent(f) \in Frames
  BY DEF Sent, Frame, Frames, Sound
<1>3. \A i \in 1..Len(entries) : g(i) \in Frames
  BY <1>1, <1>2
<1>4. Logged(entries) = L
  BY DEF Logged
<1> HIDE DEF g
<1>5. /\ L \in Seq(Frames) /\ Len(L) = Len(entries) /\ Len(entries) \in Nat
      /\ \A i \in 1..Len(entries) : L[i] = g(i)
  BY <1>3
<1> HIDE DEF L
<1>6. ASSUME NEW e \in Entries(n)
      PROVE  Logged(Append(entries, e)) = Append(L, Sent(e.frame))
  <2> DEFINE m == Len(entries) + 1
             more == Append(entries, e)
             M == [i \in 1..m |-> Sent(more[i].frame)]
             A == Append(L, Sent(e.frame))
  <2>1. Len(more) = m /\ Logged(more) = M
    BY DEF Logged
  <2>2. \A i \in 1..Len(entries) : more[i] = entries[i]
    OBVIOUS
  <2>3. more[m] = e /\ m \in Nat
    OBVIOUS
  <2>4. Sent(e.frame) \in Frames
    BY <1>2 DEF Entries
  <2>5. /\ A \in Seq(Frames) /\ Len(A) = m /\ A[m] = Sent(e.frame)
        /\ \A i \in 1..Len(entries) : A[i] = L[i]
    BY <1>5, <2>4
  <2> HIDE DEF more, A
  <2>6. DOMAIN M = 1..m /\ DOMAIN A = 1..m /\ 1..m = 1..Len(entries) \cup {m}
    BY <1>5, <2>5
  <2>7. ASSUME NEW i \in 1..m PROVE M[i] = A[i]
    <3>1. M[i] = Sent(more[i].frame)
      OBVIOUS
    <3>2. CASE i \in 1..Len(entries)
      BY <1>5, <2>2, <2>5, <3>1, <3>2 DEF g
    <3>3. CASE i = m
      BY <2>3, <2>5, <3>1, <3>3
    <3> QED
      BY <2>6, <3>2, <3>3
  <2>8. A = [i \in 1..m |-> A[i]]
    BY <2>5, <2>6
  <2>9. M = A
    BY <2>7, <2>8
  <2> QED
    BY <2>1, <2>9 DEF more, A
<1> QED
  BY <1>1, <1>4, <1>5, <1>6 DEF g

(* All frames are of sends that exist. *)
LEMMA YoungNext ==
    ASSUME Types
    PROVE  Young(Logged(log), wire, p, Aside)
<1> SUFFICES ASSUME NEW f \in SendFrames, Around(f, Logged(log), wire, p.outbound, Redo(p), Aside)
             PROVE  f.lo < p.next
  BY DEF Young
<1>1. /\ p \in Queues /\ log \in Seq(Entries(p.next)) /\ wire \in Seq(LiveFrames(p.next))
      /\ snapshots \in Seq(Ops) /\ p.next \in Nat
      /\ \A a \in SeqsOf(snapshots) : a < p.next
  BY QueueFields DEF Types, SnapshotTypes
<1>2. f.lo \in Nat /\ f.hi \in Nat
  BY SendsAssumption DEF SendFrames, Seqs
<1>3. CASE f \in Redo(p)
  BY <1>1, <1>3, QueueFields DEF Redo, Replays
<1>4. CASE f \in Aside
  <2>1. SeqsOf(snapshots) = Keys(OpsOf(snapshots))
    BY <1>1, OpsAreOps
  <2> QED
    BY <1>1, <1>4, <2>1 DEF Aside, Replays, Keys
<1>5. CASE f \in Sound(p.next)
  BY <1>1, <1>2, <1>5 DEF Sound
<1>6. CASE f \in In(p.outbound)
  <2>1. p.outbound \in Seq(Sound(p.next))
    BY <1>1, QueueFields
  <2> QED
    BY <1>5, <1>6, <2>1, InList
<1>7. CASE Has(f, Logged(log))
  <2>1. PICK i \in 1..Len(log) : Sent(f) = Sent(log[i].frame) /\ log[i].frame \in Sound(p.next)
    BY <1>1, <1>7, LoggedIs DEF Has, In
  <2> QED
    BY <1>5, <2>1, SentIs
<1>8. CASE Has(f, wire)
  <2>1. Sent(f) \in LiveFrames(p.next) /\ Sent(f).type = "Send" /\ Sent(f).arg = f
    BY <1>1, <1>8, InList, SentIs DEF Has
  <2>2. f \in Sound(p.next)
    BY <2>1 DEF LiveFrames, Sends
  <2> QED
    BY <1>5, <2>2
<1> QED
  BY <1>3, <1>4, <1>6, <1>7, <1>8 DEF Around

(* queue_send *)
LEMMA SendKeeps ==
    ASSUME Given, AppSend
    PROVE  SequenceInv'
<1>1. PICK way \in Ways : Send(way)
  BY DEF AppSend
<1>2. /\ p.next \in Seqs /\ ~p.closed /\ p' = QueueSend(p, way)
      /\ UNCHANGED <<known, wire, snapshots, inbound, reg, log>>
  BY <1>1 DEF Send, AppSend, bvars
<1>3. Types /\ p \in Queues /\ TurnsInv
  BY QueueFits DEF Given, SessionInv, SequenceInv
<1>4. SameControl(p, p')
  BY <1>1, <1>3, SendEffect DEF SameLink
<1>5. OrderAt(Logged(log), wire, p', Aside, Taking, Ready)
  BY <1>2, <1>3, YoungNext, QueueSendOrder DEF TurnsInv
<1>6. Transmits /\ Aside' = Aside
  BY <1>2, <1>3, NothingTransmits DEF Aside
<1> QED
  BY <1>2, <1>4, <1>5, <1>6, TransmitKeeps

LEMMA GateIsReady ==
    ASSUME Types, NEW s, SameControl(p, s), GateOpen(s)
    PROVE  Ready = TRUE
BY DEF GateOpen, Ready, SameControl

(* flush_producer and the driver's drain *)
LEMMA DrainKeeps ==
    ASSUME Given, AppFlush \/ DriverDrain
    PROVE  SequenceInv'
<1>1. Types /\ p \in Queues /\ TurnsInv /\ wire \in Seq(Frames)
  BY QueueFits, LiveAreFrames DEF Given, SessionInv, SequenceInv, Types
<1>2. UNCHANGED <<known, snapshots, inbound, reg, log>> /\ (StartFlush \/ DrainProducerOutbound)
  BY DEF AppFlush, DriverDrain, bvars, StartFlush, DrainProducerOutbound
<1>3. Transmits /\ SameControl(p, p') /\ Aside' = Aside
  BY <1>1, <1>2, StagingEffect DEF SameLink, Aside
<1>4. ASSUME NEW s \in Queues, SameControl(p, s), p' = AfterDrain(s), wire' = wire \o Emitted(s),
             OrderAt(Logged(log), wire, s, Aside, Taking, Ready)
      PROVE  SequenceInv'
  <2>1. GateOpen(s) => Ready = TRUE
    BY <1>1, <1>4, GateIsReady
  <2>2. OrderAt(Logged(log), wire', p', Aside, Taking, Ready)
    BY <1>1, <1>4, <2>1, EmittedOrder
  <2> QED
    BY <1>2, <1>3, <2>2, TransmitKeeps
<1>5. CASE DrainProducerOutbound
  BY <1>1, <1>4, <1>5 DEF DrainProducerOutbound, TurnsInv, SameControl
<1>6. CASE StartFlush /\ known
  <2>1. /\ FlushBatch(p) \in Queues /\ SameControl(p, FlushBatch(p))
        /\ OrderAt(Logged(log), wire, FlushBatch(p), Aside, Taking, Ready)
    BY <1>1, FlushBatchIs, FlushBatchOrder DEF TurnsInv
  <2>2. p' = AfterDrain(FlushBatch(p)) /\ wire' = wire \o Emitted(FlushBatch(p))
    BY <1>6 DEF StartFlush
  <2> QED
    BY <1>4, <2>1, <2>2
<1>7. CASE StartFlush /\ ~known
  <2>1. p' = p /\ wire' = wire
    BY <1>7 DEF StartFlush
  <2> QED
    BY <1>2, <2>1, LinkStep DEF Unanswering, Silent
<1> QED
  BY <1>2, <1>5, <1>6, <1>7

(* handle_timeout *)
LEMMA TimeoutKeeps ==
    ASSUME Given, DriverBatchDue \/ DriverSendsLate
    PROVE  SequenceInv'
<1>1. Types /\ p \in Queues /\ TurnsInv /\ wire \in Seq(Frames) /\ p.next \in Nat
  BY QueueFits, QueueFields, LiveAreFrames DEF Given, SessionInv, SequenceInv, Types
<1>2. PICK due \in BOOLEAN, cut \in Nat \ {0} : HandleTimeout(due, cut)
  <2>1. TRUE \in BOOLEAN /\ 1 \in Nat \ {0} /\ 2..p.next \subseteq Nat \ {0}
    BY <1>1
  <2> QED
    BY <2>1, Zenon DEF DriverBatchDue, DriverSendsLate
<1> DEFINE flushed == IF due THEN FlushBatch(p) ELSE p
           sent == AfterDrain(flushed)
<1>3. /\ p' = DrainTimedOut(sent, cut) /\ wire' = wire \o Emitted(flushed)
      /\ snapshots' = InTime(snapshots, cut) /\ UNCHANGED <<known, inbound, reg, log>>
  BY <1>2 DEF HandleTimeout, DriverBatchDue, DriverSendsLate, bvars
<1>4. flushed \in Queues /\ SameControl(p, flushed)
  BY <1>1, FlushBatchIs DEF SameControl
<1>5. OrderAt(Logged(log), wire, flushed, Aside, Taking, Ready)
  BY <1>1, FlushBatchOrder DEF TurnsInv
<1> HIDE DEF flushed
<1>6. OrderAt(Logged(log), wire', sent, Aside, Taking, Ready) /\ sent \in Queues
  <2>1. GateOpen(flushed) => Ready = TRUE
    BY <1>1, <1>4, GateIsReady
  <2> QED
    BY <1>1, <1>3, <1>4, <1>5, <2>1, EmittedOrder, AfterDrainIs
<1> HIDE DEF sent
<1>7. Resolves(sent, p', 1..(cut - 1))
  BY <1>3, <1>6, DrainTimedOutIs
<1>8. Aside' \subseteq Aside
  <2>1. OpsOf(snapshots') \subseteq OpsOf(snapshots)
    BY <1>1, <1>3, InTimeIs DEF Types, SnapshotTypes
  <2> QED
    BY <2>1, ReplaysOf DEF Aside
<1>9. OrderAt(Logged(log), wire', p', Aside', Taking, Ready)
  <2> DEFINE Q == 1..(cut - 1)
             S2 == Aside'
  <2>1. Resolves(sent, p', Q) /\ S2 \subseteq Aside
    BY <1>7, <1>8
  <2> HIDE DEF Q, S2
  <2>2. OrderAt(Logged(log), wire', p', S2, Taking, Ready)
    BY <1>6, <2>1, ResolvesOrder
  <2> QED
    BY <2>2 DEF S2
<1>10. Transmits /\ SameControl(p, p')
  BY <1>1, <1>2, TimeoutEffect DEF SameLink
<1> QED
  BY <1>3, <1>9, <1>10, TransmitKeeps

(* The broker attaches: whatever it takes from here comes after the answer. *)
LEMMA AttachKeeps ==
    ASSUME Given, BrokerProducer
    PROVE  SequenceInv'
<1>1. SessionInv /\ Types /\ TurnsInv /\ AttachedInv /\ WireInv
  BY DEF Given, SessionInv, SequenceInv, GateInv
<1>2. Takes("Producer") /\ reg' = "attached" /\ UNCHANGED <<p, known, snapshots, log>>
  BY DEF BrokerProducer, Takes, PollTransmit
<1>3. /\ conn = "connected" /\ wire # <<>> /\ wire' = Tail(wire)
      /\ Head(wire) \in In(wire) /\ Head(wire).type = "Producer"
  BY <1>1, <1>2, TakesIs
<1>4. wire \in Seq(Frames) /\ wire' \in Seq(Frames)
  BY LiveAreFrames DEF Given, SessionInv, Types
<1>5. ~HasSend(wire') /\ ~Ready
  <2>1. Ordered(wire) /\ Opens(Head(wire))
    BY <1>1, <1>3 DEF WireInv, Live, Opens
  <2>2. ~HasSend(Tail(wire))
    BY <1>3, <1>4, <2>1, OrderedTail
  <2>3. ~NoOpen(wire)
    BY <1>3, <2>1 DEF NoOpen
  <2> QED
    BY <1>1, <1>3, <2>2, <2>3 DEF AttachedInv, Ready
<1>6. AnswerInv'
  BY <1>5 DEF AnswerInv
<1>7. Taking' = TRUE /\ Ready' = FALSE /\ Aside' = Aside
  BY <1>2, <1>5 DEF Taking, Ready, Aside
<1>8. OrderAt(Logged(log), wire', p, Aside, TRUE, FALSE)
  BY <1>1, <1>4, <1>5, OrderAttaches DEF TurnsInv, OrderAt
<1>9. TurnsInv'
  BY <1>2, <1>7, <1>8 DEF TurnsInv
<1> QED
  BY <1>6, <1>9 DEF SequenceInv

(* The broker takes a send, persisted or refused. *)
LEMMA TakeKeeps ==
    ASSUME Given, (BrokerSend /\ Taking) \/ BrokerRefusesSend
    PROVE  SequenceInv'
<1>1. SessionInv /\ Types /\ TurnsInv
  BY DEF Given, SessionInv, SequenceInv
<1>2. /\ Takes("Send") /\ Taking /\ UNCHANGED <<p, known, snapshots, reg>>
      /\ Took(TRUE) \/ Took(FALSE)
      /\ Reply("SendReceipt", Taken) \/ Reply("SendError", Taken)
  BY DEF BrokerSend, BrokerRefusesSend, Taking, Takes, PollTransmit
<1>3. /\ wire # <<>> /\ wire' = Tail(wire)
      /\ Head(wire) \in LiveFrames(p.next) /\ Head(wire).type = "Send"
  BY <1>1, <1>2, TakesIs
<1>4. Taken \in Sound(p.next) /\ Head(wire) = Sent(Taken)
  BY <1>3 DEF LiveFrames, Sends, Taken, Sent, Frame
<1>5. PICK e \in Entries(p.next) : log' = Append(log, e) /\ e.frame = Taken
  <2>1. ASSUME NEW persisted \in BOOLEAN, Took(persisted)
        PROVE  \E e \in Entries(p.next) : log' = Append(log, e) /\ e.frame = Taken
    <3> DEFINE e == [frame |-> Taken, persisted |-> persisted]
    <3>1. e \in Entries(p.next) /\ e.frame = Taken
      BY <1>4 DEF Entries
    <3>2. log' = Append(log, e)
      BY <2>1 DEF Took
    <3> QED
      BY <3>1, <3>2
  <2> QED
    BY <1>2, <2>1
<1>6. Logged(log') = Append(Logged(log), Head(wire))
  BY <1>1, <1>4, <1>5, LoggedIs DEF Types
<1>7. Taking' = TRUE /\ Taking = TRUE /\ Ready' = Ready /\ Aside' = Aside
  BY <1>2 DEF Taking, Ready, Aside
<1>8. OrderAt(Logged(log'), wire', p, Aside, TRUE, Ready)
  BY <1>1, <1>3, <1>6, <1>7, OrderTakes DEF TurnsInv, OrderAt
<1>9. TurnsInv'
  BY <1>2, <1>7, <1>8 DEF TurnsInv
<1>10. \A x \in In(inbound') : x.type = "ProducerSuccess" => x \in In(inbound)
  <2>1. /\ Frame("SendReceipt", Taken).type # "ProducerSuccess"
        /\ Frame("SendError", Taken).type # "ProducerSuccess"
    BY DEF Frame
  <2>2. Unanswering
    BY <1>2, <2>1 DEF Unanswering, Reply
  <2> QED
    BY <1>1, <2>2, NoNewAnswer
<1>11. HasSend(wire') => HasSend(wire)
  <2>1. In(wire') \subseteq In(wire)
    BY <1>1, <1>3, InList DEF Types
  <2> QED
    BY <2>1 DEF HasSend
<1>12. AnswerInv'
  BY <1>2, <1>10, <1>11, AnswerKept DEF Given, SequenceInv
<1> QED
  BY <1>9, <1>12 DEF SequenceInv

(* CommandProducerSuccess: what is staged again goes in front of the rest. *)
LEMMA SuccessKeeps ==
    ASSUME Given, ClientProducerSuccess
    PROVE  SequenceInv'
<1>1. SessionInv /\ Types /\ TurnsInv /\ AnswerInv /\ p \in Queues
  BY QueueFits DEF Given, SessionInv, SequenceInv
<1>2. Arrives("ProducerSuccess")
  BY DEF ClientProducerSuccess
<1>3. /\ inbound # <<>> /\ inbound' = Tail(inbound) /\ UNCHANGED <<reg, log>>
      /\ Head(inbound) \in In(inbound) /\ Head(inbound) \in Answers(p.next)
      /\ Head(inbound).type = "ProducerSuccess"
  BY <1>1, <1>2, ArrivesIs
<1>4. CASE Ignored(Arg)
  BY <1>2, <1>4, IgnoredKeeps DEF Ignored
<1>5. CASE HandleProducerSuccess(Arg) /\ ~OpenIsCurrent(Arg)
  <2>1. UNCHANGED <<p, snapshots, known, wire>>
    BY <1>5 DEF HandleProducerSuccess
  <2> QED
    BY <1>2, <2>1, ReadsOne, LinkStep DEF Silent
<1>6. CASE HandleProducerSuccess(Arg) /\ OpenIsCurrent(Arg)
  <2> DEFINE t == Replayed(ReplayPendingOutbound(p), snapshots)
  <2>1. /\ p' = [t EXCEPT !.open_request_id = NoReq, !.broker_ready = TRUE,
                          !.has_ever_attached = TRUE, !.attempts = 0]
        /\ snapshots' = <<>> /\ UNCHANGED <<known, wire>> /\ known
    BY <1>6 DEF HandleProducerSuccess, OpenIsCurrent
  <2>2. Taking => ~HasSend(wire)
    <3>1. OpenAnswer = Head(inbound)
      BY <1>3, <1>6 DEF OpenAnswer, Frame, OpenIsCurrent, Arg, Answers
    <3> QED
      BY <1>1, <1>3, <2>1, <3>1 DEF AnswerInv
  <2>3. /\ snapshots \in Seq(Ops) /\ Sorted(snapshots)
        /\ \A op \in OpsOf(snapshots) : op.seq < p.next
        /\ \A x \in OpsOf(snapshots), y \in OpsOf(p.pending) : x.seq < y.seq
    <3>1. p.pending \in Seq(Ops) /\ SnapshotTypes
      BY <1>1, QueueFields DEF Types
    <3>2. /\ SeqsOf(snapshots) = Keys(OpsOf(snapshots))
          /\ SeqsOf(p.pending) = Keys(OpsOf(p.pending))
      BY <3>1, OpsAreOps DEF SnapshotTypes
    <3> QED
      BY <3>1, <3>2 DEF SnapshotTypes, Keys
  <2>4. OrderAt(Logged(log), wire, t, {}, Taking, TRUE)
    BY <1>1, <2>2, <2>3, SuccessOrder DEF TurnsInv, Aside
  <2>5. t \in ProducerState
    <3> DEFINE s == ReplayPendingOutbound(p)
    <3>1. s \in Queues /\ SamePending(p, s)
      BY <1>1, ReplayPendingOutboundIs
    <3> HIDE DEF s
    <3>2. /\ \A op \in OpsOf(snapshots) : op.seq < s.next
          /\ \A x \in OpsOf(snapshots), y \in OpsOf(s.pending) : x.seq < y.seq
      BY <2>3, <3>1 DEF SamePending
    <3>3. Replayed(s, snapshots) \in Queues
      BY <2>3, <3>1, <3>2, ReplayedIs
    <3> QED
      BY <3>3, QueueFields DEF s
  <2> HIDE DEF t
  <2>6. SameQueue(t, p') /\ p'.open_request_id = NoReq /\ p'.broker_ready
    BY ONLY <2>1, <2>5 DEF ProducerState, SameQueue, NoReq
  <2>7. Taking' = Taking /\ Ready' = TRUE /\ Aside' = {}
    BY <1>3, <2>1, <2>6, NoOps, ReplaysOf DEF Taking, Ready, Aside
  <2>8. TurnsInv'
    BY <1>3, <2>1, <2>4, <2>6, <2>7, QueueSame DEF TurnsInv, OrderAt
  <2>9. \A x \in In(inbound') : x.type = "ProducerSuccess" => x \in In(inbound)
    BY <1>1, <1>3, NoNewAnswer DEF Unanswering
  <2>10. AnswerInv'
    BY <1>1, <1>3, <2>1, <2>6, <2>9, AnswerKept DEF Given
  <2> QED
    BY <2>8, <2>10 DEF SequenceInv
<1> QED
  BY <1>4, <1>5, <1>6 DEF ClientProducerSuccess

LEMMA SequenceSteps ==
    ASSUME Given, SessionNext
    PROVE  SequenceInv'
BY LinkSteps, RefusedKeeps, ResolvedKeeps, CloseKeeps, BrokerCloseKeeps, CloseAckedKeeps,
   ExpiresKeeps, RetryKeeps, RebuildKeeps, GiveUpKeeps, ResetKeeps, PollKeeps, SendKeeps,
   DrainKeeps, TimeoutKeeps, AttachKeeps, TakeKeeps, SuccessKeeps
   DEF SessionNext

LEMMA SequenceStarts ==
    ASSUME SessionInit
    PROVE  SequenceInv
<1> DEFINE x == Frame("Producer", 1)
<1>1. /\ p = FreshProducer /\ known = TRUE /\ wire = <<x>> /\ snapshots = <<>>
      /\ inbound = <<>> /\ reg = "none" /\ log = <<>>
  BY DEF SessionInit, Init
<1>2. /\ p.pending = <<>> /\ p.batch = <<>> /\ p.outbound = <<>> /\ p.broker_ready = FALSE
  BY <1>1 DEF FreshProducer
<1>3. Taking = FALSE /\ Ready = FALSE
  BY <1>1, <1>2 DEF Taking, Ready
<1>4. Redo(p) = {} /\ Aside = {}
  BY <1>1, <1>2, NoOps, ReplaysOf DEF Redo, Aside
<1>5. Logged(log) = <<>>
  BY <1>1 DEF Logged
<1>6. wire \in Seq(Frames) /\ ~HasSend(wire)
  <2>1. 1 \in Requests
    BY RequestsAssumption DEF Requests
  <2>2. x \in Frames /\ x.type # "Send"
    BY <2>1 DEF Frame, Frames
  <2> HIDE DEF x
  <2>3. wire \in Seq(Frames) /\ In(wire) = {x}
    BY <1>1, <2>2 DEF In
  <2> QED
    BY <2>2, <2>3 DEF HasSend
<1>7. AnswerInv
  BY <1>6 DEF AnswerInv
<1>8. \A f : ~Has(f, wire) /\ ~Has(f, <<>>)
  BY <1>6, NoSendInTurn, FrameNumbers
<1>9. Order(<<>>, wire, <<>>, <<>>, {}, {}, FALSE, FALSE)
  <2>1. FrameTypes(<<>>, wire, <<>>, <<>>, {}, {})
    BY <1>6 DEF FrameTypes
  <2>2. /\ TurnInv(<<>>, wire, <<>>, {}, {}, FALSE, FALSE)
        /\ SentInv(<<>>, wire, <<>>, {}, {}, FALSE, FALSE)
        /\ StageInv(<<>>, {}, {}) /\ BatchInv(<<>>, wire, <<>>, <<>>, {}, {})
    BY <1>8, FrameNumbers DEF TurnInv, SentInv, StageInv, BatchInv
  <2> QED
    BY <2>1, <2>2 DEF Order
<1>10. TurnsInv
  BY <1>2, <1>3, <1>4, <1>5, <1>9 DEF TurnsInv, OrderAt
<1> QED
  BY <1>7, <1>10 DEF SequenceInv

LEMMA SequenceStutters ==
    ASSUME Given, UNCHANGED svars
    PROVE  SequenceInv'
<1>1. UNCHANGED <<p, snapshots, known, log, wire, inbound, reg>>
  BY DEF svars, vars, bvars
<1> QED
  BY <1>1, LinkStep DEF Unanswering, Silent

LEMMA SequenceOrders ==
    ASSUME SessionInv, SequenceInv
    PROVE  PublishedInOrder
<1> DEFINE L == Logged(log)
<1> SUFFICES ASSUME NEW i \in 1..Len(log), NEW j \in 1..Len(log), i < j,
                    Before(log[j].frame, log[i].frame)
             PROVE  \E k \in 1..(i - 1) : log[k].frame = log[j].frame
  BY DEF PublishedInOrder
<1>1. log \in Seq(Entries(p.next)) /\ Len(log) \in Nat
  BY DEF SessionInv, Types
<1>2. /\ Len(L) = Len(log)
      /\ \A n \in 1..Len(log) : L[n] = Sent(log[n].frame) /\ log[n].frame \in Sound(p.next)
  BY <1>1, LoggedIs
<1> HIDE DEF L
<1> DEFINE f == log[j].frame
<1>3. f \in SendFrames /\ Has(f, L)
  BY <1>2 DEF Sound, Has, In
<1>4. InTurn(f, L)
  BY <1>3 DEF SequenceInv, TurnsInv, OrderAt, Order, TurnInv, OnTime, L
<1>5. i \in 1..Len(L) /\ Passes(L[i], f)
  BY <1>2, SentIs DEF Passes
<1>6. PICK k \in 1..(i - 1) : L[k] = Sent(f)
  BY <1>4, <1>5 DEF InTurn
<1>7. k \in 1..Len(log) /\ Sent(log[k].frame) = Sent(f)
  BY <1>1, <1>2, <1>6
<1> QED
  BY <1>6, <1>7, SentIs

(* Publishes reach the broker in sequence-id order: whatever path a copy   *)
(* takes (the replay of what a broker that closed the producer missed, the *)
(* snapshots of a reset, a batch flushed late), a frame that arrives after *)
(* a later one has been there before it: PublishedInOrder.                 *)
THEOREM OrderTheorem == SessionSpec => []PublishedInOrder
<1>1. SessionInit => SessionInv /\ SequenceInv
  BY SessionStarts, SequenceStarts
<1>2. SessionInv /\ SequenceInv /\ [SessionNext]_svars => (SessionInv /\ SequenceInv)'
  <2> SUFFICES ASSUME SessionInv, SequenceInv, [SessionNext]_svars
               PROVE  SessionInv' /\ SequenceInv'
    OBVIOUS
  <2>1. SessionInv'
    BY SessionSteps, SessionStutters DEF Stepped
  <2> QED
    BY <2>1, SequenceSteps, SequenceStutters DEF Given
<1>3. SessionInv /\ SequenceInv => PublishedInOrder
  BY SequenceOrders
<1> QED
  BY <1>1, <1>2, <1>3, PTL DEF SessionSpec
=============================================================================
