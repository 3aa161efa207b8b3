--------------------------- MODULE AckSessionProofs ---------------------------
(***************************************************************************)
(* Proofs about AckSession, for any batches, any configuration of the      *)
(* trackers and any number of disturbances.                                *)
(*                                                                         *)
(* Everything an ack entry point does to the client is a move of the       *)
(* record [batch, unacked, nacks, frames].  Advances relates the record    *)
(* before such a move to the one after it by what the four invariants can  *)
(* see of it; it composes, so a flush of the grouping tracker is two of    *)
(* these moves and a tick of the driver three.                             *)
(***************************************************************************)
EXTENDS AckSession, FiniteSetTheorems, SequenceTheorems, TLAPS

-----------------------------------------------------------------------------
(* The types.                                                              *)

AckOps == {"individual", "cumulative", "transactional"}

Partial == {t \in UNION {[D -> SUBSET Nat] : D \in SUBSET Entries} :
              \A e \in DOMAIN t : t[e] \subseteq Fresh(e)}

Bucket == [ids : SUBSET Ids, due : BOOLEAN]

Tracker == [buckets : Seq(Bucket),
            locator : UNION {[D -> Nat] : D \in SUBSET Ids},
            backoff : SUBSET Ids]

Frame == [op : AckOps, sent : SUBSET [entry : Entries, left : SUBSET Nat]]
           \cup [op : {"redeliver"}, ids : SUBSET Ids]
           \cup [op : {"subscribe", "close"}]

Delivery == {d \in [entry : Entries, unacked : SUBSET Nat] :
               d.unacked \subseteq Fresh(d.entry)}

AckState == [batch : Partial, unacked : Tracker, nacks : SUBSET Ids,
             frames : Seq(Frame)]

-----------------------------------------------------------------------------
(* Ids.                                                                    *)

LEMMA FreshIsNat ==
    ASSUME NEW e \in Entries
    PROVE  Fresh(e) \subseteq Nat /\ IsFiniteSet(Fresh(e))
<1>1. Members[e] \in Nat BY AckAssumption DEF Entries
<1>2. CASE Members[e] = 0
  <2>1. Fresh(e) = {0} BY <1>2 DEF Fresh
  <2>2. IsFiniteSet({0}) BY FS_Singleton
  <2> QED BY <2>1, <2>2
<1>3. CASE Members[e] # 0
  <2>1. Fresh(e) = 1..Members[e] BY <1>3 DEF Fresh
  <2> QED BY <1>1, <2>1, FS_Interval
<1> QED BY <1>2, <1>3

LEMMA IdParts ==
    ASSUME NEW id \in Ids
    PROVE  /\ id = <<id[1], id[2]>>
           /\ id[1] \in Entries /\ id[2] \in Fresh(id[1])
           /\ id[1] \in Nat /\ id[2] \in Nat
<1>1. PICK e \in Entries : id \in {e} \X Fresh(e) BY DEF Ids
<1>2. id = <<id[1], id[2]>> /\ id[1] = e /\ id[2] \in Fresh(e) BY <1>1
<1>3. e \in Nat BY AckAssumption DEF Entries
<1> QED BY <1>2, <1>3, FreshIsNat

LEMMA IsId ==
    ASSUME NEW e \in Entries, NEW i \in Fresh(e)
    PROVE  <<e, i>> \in Ids
BY DEF Ids

-----------------------------------------------------------------------------
(* Sequences as sets.                                                      *)

LEMMA ToSetAppend ==
    ASSUME NEW S, NEW s \in Seq(S), NEW x \in S
    PROVE  Append(s, x) \in Seq(S) /\ ToSet(Append(s, x)) = ToSet(s) \cup {x}
<1>1. Append(s, x) \in Seq(S) OBVIOUS
<1>2. /\ Len(Append(s, x)) = Len(s) + 1 /\ Append(s, x)[Len(s) + 1] = x
      /\ \A i \in 1..Len(s) : Append(s, x)[i] = s[i]
      /\ Len(s) \in Nat
  OBVIOUS
<1>3. DOMAIN s = 1..Len(s) /\ DOMAIN Append(s, x) = 1..(Len(s) + 1)
  BY <1>1, <1>2
<1> QED BY <1>1, <1>2, <1>3 DEF ToSet

LEMMA ToSetConcat ==
    ASSUME NEW S, NEW s \in Seq(S), NEW r \in Seq(S)
    PROVE  s \o r \in Seq(S) /\ ToSet(s \o r) = ToSet(s) \cup ToSet(r)
<1>1. /\ s \o r \in Seq(S)
      /\ Len(s \o r) = Len(s) + Len(r)
      /\ \A i \in 1..(Len(s) + Len(r)) :
           (s \o r)[i] = IF i <= Len(s) THEN s[i] ELSE r[i - Len(s)]
  BY ConcatProperties
<1>2. /\ Len(s) \in Nat /\ Len(r) \in Nat
      /\ DOMAIN s = 1..Len(s) /\ DOMAIN r = 1..Len(r)
      /\ DOMAIN (s \o r) = 1..(Len(s) + Len(r))
  BY <1>1, LenProperties
<1>3. ASSUME NEW x \in ToSet(s \o r) PROVE x \in ToSet(s) \cup ToSet(r)
  <2>1. PICK i \in 1..(Len(s) + Len(r)) : x = (s \o r)[i]
    BY <1>2, <1>3 DEF ToSet
  <2>2. CASE i <= Len(s) BY <1>1, <1>2, <2>1, <2>2 DEF ToSet
  <2>3. CASE ~(i <= Len(s))
    <3>1. x = r[i - Len(s)] /\ i - Len(s) \in 1..Len(r) BY <1>1, <1>2, <2>1, <2>3
    <3> QED BY <1>2, <3>1 DEF ToSet
  <2> QED BY <2>2, <2>3
<1>4. ASSUME NEW x \in ToSet(s) PROVE x \in ToSet(s \o r)
  <2>1. PICK i \in 1..Len(s) : x = s[i] BY <1>2, <1>4 DEF ToSet
  <2>2. i \in 1..(Len(s) + Len(r)) /\ (s \o r)[i] = x BY <1>1, <1>2, <2>1
  <2> QED BY <1>2, <2>2 DEF ToSet
<1>5. ASSUME NEW x \in ToSet(r) PROVE x \in ToSet(s \o r)
  <2>1. PICK i \in 1..Len(r) : x = r[i] BY <1>2, <1>5 DEF ToSet
  <2>2. /\ i + Len(s) \in 1..(Len(s) + Len(r))
        /\ ~(i + Len(s) <= Len(s)) /\ (i + Len(s)) - Len(s) = i
    BY <1>2
  <2>3. (s \o r)[i + Len(s)] = x BY <1>1, <2>1, <2>2
  <2> QED BY <1>2, <2>2, <2>3 DEF ToSet
<1> QED BY <1>1, <1>3, <1>4, <1>5

LEMMA ToSetTail ==
    ASSUME NEW S, NEW s \in Seq(S), s # <<>>
    PROVE  /\ Head(s) \in S /\ Tail(s) \in Seq(S)
           /\ ToSet(s) = {Head(s)} \cup ToSet(Tail(s))
<1>1. /\ Head(s) \in S /\ Tail(s) \in Seq(S)
      /\ Len(Tail(s)) = Len(s) - 1
      /\ \A i \in 1..Len(Tail(s)) : Tail(s)[i] = s[i + 1]
  BY HeadTailProperties
<1>2. Len(s) \in Nat /\ Len(s) # 0 /\ Head(s) = s[1]
  BY EmptySeq, LenProperties
<1>3. DOMAIN s = 1..Len(s) /\ DOMAIN Tail(s) = 1..(Len(s) - 1)
  BY <1>1, LenProperties
<1>4. ASSUME NEW i \in 1..Len(s), i # 1
      PROVE  i - 1 \in 1..(Len(s) - 1) /\ Tail(s)[i - 1] = s[i]
  <2>1. i - 1 \in 1..(Len(s) - 1) /\ (i - 1) + 1 = i BY <1>2, <1>4
  <2> QED BY <1>1, <2>1
<1>5. ASSUME NEW x \in ToSet(s) PROVE x \in {Head(s)} \cup ToSet(Tail(s))
  <2>1. PICK i \in 1..Len(s) : x = s[i] BY <1>3, <1>5 DEF ToSet
  <2>2. CASE i = 1 BY <1>2, <2>1, <2>2
  <2>3. CASE i # 1 BY <1>3, <1>4, <2>1, <2>3 DEF ToSet
  <2> QED BY <2>2, <2>3
<1>6. ASSUME NEW x \in ToSet(Tail(s)) PROVE x \in ToSet(s)
  <2>1. PICK i \in 1..(Len(s) - 1) : x = Tail(s)[i] BY <1>3, <1>6 DEF ToSet
  <2>2. i + 1 \in 1..Len(s) /\ s[i + 1] = x BY <1>1, <1>2, <2>1
  <2> QED BY <1>3, <2>2 DEF ToSet
<1>7. Head(s) \in ToSet(s)
  <2>1. 1 \in 1..Len(s) BY <1>2
  <2> QED BY <1>2, <1>3, <2>1 DEF ToSet
<1> QED BY <1>1, <1>5, <1>6, <1>7

LEMMA ToSetEmpty == ToSet(<<>>) = {}
BY DEF ToSet

LEMMA EmptyIsPartial ==
    /\ <<>> \in Partial
    /\ <<>> \in UNION {[D -> Nat] : D \in SUBSET Ids}
    /\ DOMAIN <<>> = {}
<1>1. <<>> \in [1..0 -> Nat] /\ <<>> \in [1..0 -> SUBSET Nat]
  BY EmptySeq, LenProperties
<1>2. 1..0 = {} OBVIOUS
<1>3. <<>> \in [{} -> Nat] /\ <<>> \in [{} -> SUBSET Nat] BY <1>1, <1>2
<1>4. DOMAIN <<>> = {} BY <1>2
<1> QED BY <1>3, <1>4 DEF Partial

-----------------------------------------------------------------------------
(* Batch acks.                                                             *)

\* The positions that a batch tracker has marked as acked.
Gone(t) == {p \in Ids : p[1] \in DOMAIN t /\ p[2] \notin t[p[1]]}

\* What a set of frames acknowledges, a transactional ack included.
AllCovered(F) == UNION {Covers(f) : f \in {g \in F : g.op \in AckOps}}

LEMMA UnackedTyped ==
    ASSUME NEW t \in Partial, NEW e \in Entries
    PROVE  /\ DOMAIN t \subseteq Entries
           /\ UnackedOf(t, e) \subseteq Fresh(e)
           /\ \A i \in Fresh(e) \ UnackedOf(t, e) : <<e, i>> \in Gone(t)
<1>1. DOMAIN t \subseteq Entries BY DEF Partial
<1>2. UnackedOf(t, e) \subseteq Fresh(e) BY DEF Partial, UnackedOf
<1>3. ASSUME NEW i \in Fresh(e) \ UnackedOf(t, e) PROVE <<e, i>> \in Gone(t)
  <2>1. <<e, i>> \in Ids BY IsId
  <2>2. e \in DOMAIN t /\ i \notin t[e] BY DEF UnackedOf
  <2> QED BY <2>1, <2>2 DEF Gone
<1> QED BY <1>1, <1>2, <1>3

LEMMA RestIndividual ==
    ASSUME NEW t \in Partial, NEW ids \in SUBSET Ids, NEW e \in Entries
    PROVE  /\ Rest(t, ids, "individual", e)
                = {i \in UnackedOf(t, e) : <<e, i>> \notin ids}
           /\ Rest(t, ids, "individual", e) \in SUBSET Fresh(e)
<1> DEFINE is == {id[2] : id \in {x \in ids : x[1] = e}}
<1>1. Rest(t, ids, "individual", e) = UnackedOf(t, e) \ is BY DEF Rest
<1>2. ASSUME NEW i \in Fresh(e) PROVE i \in is <=> <<e, i>> \in ids
  <2>1. ASSUME i \in is PROVE <<e, i>> \in ids
    <3>1. PICK id \in ids : id[1] = e /\ i = id[2] BY <2>1
    <3> QED BY <3>1, IdParts
  <2>2. ASSUME <<e, i>> \in ids PROVE i \in is
    <3>1. <<e, i>>[1] = e /\ <<e, i>>[2] = i OBVIOUS
    <3> QED BY <2>2, <3>1
  <2> QED BY <2>1, <2>2
<1>3. UnackedOf(t, e) \subseteq Fresh(e) BY UnackedTyped
<1> QED BY <1>1, <1>2, <1>3

LEMMA RestCumulative ==
    ASSUME NEW t \in Partial, NEW id \in Ids
    PROVE  /\ Rest(t, {id}, "cumulative", id[1])
                = {j \in UnackedOf(t, id[1]) : j > id[2]}
           /\ Rest(t, {id}, "cumulative", id[1]) \in SUBSET Fresh(id[1])
<1>1. {y[2] : y \in {x \in {id} : x[1] = id[1]}} = {id[2]} OBVIOUS
<1>2. (CHOOSE i \in {id[2]} : TRUE) = id[2] OBVIOUS
<1>3. Rest(t, {id}, "cumulative", id[1])
        = AckCumulative(UnackedOf(t, id[1]), id[2])
  BY <1>1, <1>2 DEF Rest
<1>4. UnackedOf(t, id[1]) \subseteq Fresh(id[1]) BY IdParts, UnackedTyped
<1> QED BY <1>3, <1>4 DEF AckCumulative

\* An individual ack, alone, listed or in a transaction, covers the ids it names
\* and otherwise only what the tracker had marked before.
LEMMA IndividualAck ==
    ASSUME NEW t \in Partial, NEW ids \in SUBSET Ids,
           NEW op \in {"individual", "transactional"}
    PROVE  LET r == ApplyBatchAckState(t, ids, "individual")
               f == AckFrame(op, r.sent)
           IN  /\ r.t \in Partial /\ f \in Frame /\ f.op = op
               /\ Covers(f) \subseteq Gone(t) \cup ids
               /\ ids \subseteq Covers(f)
               /\ Gone(r.t) \subseteq Gone(t) \cup ids
<1> DEFINE r == ApplyBatchAckState(t, ids, "individual")
           f == AckFrame(op, r.sent)
           touched == {id[1] : id \in ids}
           rest(e) == Rest(t, ids, "individual", e)
           kept == {e \in DOMAIN t \cup touched : e \in touched => rest(e) # {}}
           now(e) == IF e \in touched THEN rest(e) ELSE t[e]
<1>1. /\ r.t = [e \in kept |-> now(e)]
      /\ r.sent = {[entry |-> e, left |-> rest(e)] : e \in touched}
  BY DEF ApplyBatchAckState
<1>2. touched \subseteq Entries BY IdParts
<1>3. DOMAIN t \subseteq Entries /\ \A e \in DOMAIN t : t[e] \subseteq Fresh(e)
  BY DEF Partial
<1>4. \A e \in Entries : /\ rest(e) = {i \in UnackedOf(t, e) : <<e, i>> \notin ids}
                         /\ rest(e) \in SUBSET Fresh(e)
  BY RestIndividual
<1>5. \A e \in Entries : Fresh(e) \subseteq Nat BY FreshIsNat
<1> HIDE DEF rest
<1>6. \A e \in kept : now(e) \in SUBSET Nat /\ now(e) \subseteq Fresh(e)
  BY <1>2, <1>3, <1>4, <1>5
<1>7. r.t \in Partial
  <2>1. kept \in SUBSET Entries BY <1>2, <1>3
  <2>2. r.t \in [kept -> SUBSET Nat] BY <1>1, <1>6
  <2>3. DOMAIN r.t = kept /\ \A e \in kept : r.t[e] = now(e) BY <1>1
  <2> HIDE DEF r, kept, now
  <2> QED BY <1>6, <2>1, <2>2, <2>3 DEF Partial
<1>8. r.sent \in SUBSET [entry : Entries, left : SUBSET Nat]
  BY <1>1, <1>2, <1>4, <1>5
<1>9. f.op = op /\ f.sent = r.sent /\ f \in Frame
  BY <1>8 DEF AckFrame, Frame, AckOps
<1>10. Covers(f) = UNION {{<<e, i>> : i \in Fresh(e) \ rest(e)} : e \in touched}
  <2>1. Covers(f) = UNION {{<<a.entry, i>> : i \in Fresh(a.entry) \ a.left} : a \in r.sent}
    BY <1>9 DEF Covers
  <2>2. \A e \in touched : LET a == [entry |-> e, left |-> rest(e)]
                           IN  a.entry = e /\ a.left = rest(e)
    OBVIOUS
  <2> HIDE DEF touched, r, f
  <2>3. ASSUME NEW p \in Covers(f)
        PROVE  \E e \in touched : p \in {<<e, i>> : i \in Fresh(e) \ rest(e)}
    BY <1>1, <2>1, <2>2
  <2>4. ASSUME NEW e \in touched, NEW i \in Fresh(e) \ rest(e)
        PROVE  <<e, i>> \in Covers(f)
    <3> DEFINE a == [entry |-> e, left |-> rest(e)]
    <3>1. a \in r.sent /\ a.entry = e /\ a.left = rest(e) BY <1>1, <2>2
    <3> QED BY <2>1, <3>1
  <2> QED BY <2>3, <2>4
<1>11. Covers(f) \subseteq Gone(t) \cup ids
  <2> SUFFICES ASSUME NEW e \in touched, NEW i \in Fresh(e) \ rest(e)
               PROVE  <<e, i>> \in Gone(t) \cup ids
    BY <1>10
  <2>1. e \in Entries BY <1>2
  <2>2. CASE i \in UnackedOf(t, e) BY <1>4, <2>1, <2>2
  <2>3. CASE i \notin UnackedOf(t, e) BY <2>1, <2>3, UnackedTyped
  <2> QED BY <2>2, <2>3
<1>12. ids \subseteq Covers(f)
  <2> SUFFICES ASSUME NEW id \in ids PROVE id \in Covers(f) OBVIOUS
  <2>1. /\ id = <<id[1], id[2]>> /\ id[1] \in Entries /\ id[2] \in Fresh(id[1])
        /\ id[1] \in touched
    BY IdParts
  <2>2. id[2] \notin rest(id[1]) BY <1>4, <2>1
  <2> QED BY <1>10, <2>1, <2>2
<1>13. Gone(r.t) \subseteq Gone(t) \cup ids
  <2> SUFFICES ASSUME NEW p \in Ids, p[1] \in kept, p[2] \notin now(p[1])
               PROVE  p \in Gone(t) \cup ids
    BY <1>1 DEF Gone
  <2>1. p = <<p[1], p[2]>> /\ p[1] \in Entries /\ p[2] \in Fresh(p[1]) BY IdParts
  <2>2. CASE p[1] \in touched
    <3>1. p[2] \notin rest(p[1]) BY <2>2
    <3>2. CASE p[2] \in UnackedOf(t, p[1]) BY <1>4, <2>1, <3>1, <3>2
    <3>3. CASE p[2] \notin UnackedOf(t, p[1]) BY <2>1, <3>3, UnackedTyped
    <3> QED BY <3>2, <3>3
  <2>3. CASE p[1] \notin touched BY <2>3 DEF Gone
  <2> QED BY <2>2, <2>3
<1> QED BY <1>7, <1>9, <1>11, <1>12, <1>13

\* A cumulative ack covers everything up to the id it names.
LEMMA CumulativeAck ==
    ASSUME NEW t \in Partial, NEW id \in Ids
    PROVE  LET r == ApplyBatchAckState(t, {id}, "cumulative")
               f == AckFrame("cumulative", r.sent)
           IN  /\ r.t \in Partial /\ f \in Frame /\ f.op = "cumulative"
               /\ Covers(f) \subseteq Gone(t) \cup UpTo(id)
               /\ UpTo(id) \subseteq Covers(f)
               /\ Gone(r.t) \subseteq Gone(t) \cup UpTo(id)
<1> DEFINE r == ApplyBatchAckState(t, {id}, "cumulative")
           f == AckFrame("cumulative", r.sent)
           h == id[1]
           rest == Rest(t, {id}, "cumulative", h)
           kept == {e \in DOMAIN t \cup {h} : (e = h => rest # {}) /\ e >= h}
           now(e) == IF e = h THEN rest ELSE t[e]
<1>1. /\ r.t = [e \in kept |-> now(e)]
      /\ r.sent = {[entry |-> h, left |-> rest]}
  <2>1. {x[1] : x \in {id}} = {h} OBVIOUS
  <2> QED BY <2>1 DEF ApplyBatchAckState
<1>2. id = <<h, id[2]>> /\ h \in Entries /\ id[2] \in Fresh(h) /\ id[2] \in Nat
  BY IdParts
<1>3. DOMAIN t \subseteq Entries /\ \A e \in DOMAIN t : t[e] \subseteq Fresh(e)
  BY DEF Partial
<1>4. rest = {j \in UnackedOf(t, h) : j > id[2]} /\ rest \in SUBSET Fresh(h)
  BY RestCumulative
<1>5. \A e \in Entries : e \in Nat /\ Fresh(e) \subseteq Nat
  BY FreshIsNat, AckAssumption DEF Entries
<1> HIDE DEF rest
<1>6. \A e \in kept : now(e) \in SUBSET Nat /\ now(e) \subseteq Fresh(e)
  BY <1>2, <1>3, <1>4, <1>5
<1>7. r.t \in Partial
  <2>1. kept \in SUBSET Entries BY <1>2, <1>3
  <2>2. r.t \in [kept -> SUBSET Nat] BY <1>1, <1>6
  <2>3. DOMAIN r.t = kept /\ \A e \in kept : r.t[e] = now(e) BY <1>1
  <2> HIDE DEF r, kept, now
  <2> QED BY <1>6, <2>1, <2>2, <2>3 DEF Partial
<1> DEFINE a == [entry |-> h, left |-> rest]
<1>8. r.sent \in SUBSET [entry : Entries, left : SUBSET Nat]
  <2>1. rest \in SUBSET Nat BY <1>2, <1>4, <1>5
  <2>2. a \in [entry : Entries, left : SUBSET Nat] BY <1>2, <2>1
  <2> QED BY <1>1, <2>2
<1>9. f.op = "cumulative" /\ f.sent = r.sent /\ f \in Frame
  BY <1>8 DEF AckFrame, Frame, AckOps
<1>10. Covers(f) = {<<h, i>> : i \in Fresh(h) \ rest} \cup {x \in Ids : x[1] < h}
  <2>1. r.sent = {a} /\ a.entry = h /\ a.left = rest BY <1>1
  <2> HIDE DEF a, h, r, f
  <2>2. Covers(f) = UNION {{<<b.entry, i>> : i \in Fresh(b.entry) \ b.left}
                            \cup {x \in Ids : x[1] < b.entry} : b \in {a}}
    BY <1>9, <2>1 DEF Covers
  <2> QED BY <2>1, <2>2
<1>11. ASSUME NEW i \in Fresh(h) PROVE i \notin rest <=>
                                      i \notin UnackedOf(t, h) \/ <<h, i>> \in UpTo(id)
  <2>1. <<h, i>> \in Ids /\ <<h, i>>[1] = h /\ <<h, i>>[2] = i BY <1>2, IsId
  <2>2. <<h, i>> \in UpTo(id) <=> i =< id[2] BY <1>2, <1>5, <2>1 DEF UpTo, Leq
  <2> QED BY <1>2, <1>4, <1>5, <2>2
<1>12. ASSUME NEW p \in Ids, p[1] # h PROVE p \in UpTo(id) <=> p[1] < h
  BY <1>2, <1>12, IdParts DEF UpTo, Leq
<1>13. Covers(f) \subseteq Gone(t) \cup UpTo(id)
  <2>1. ASSUME NEW i \in Fresh(h) \ rest PROVE <<h, i>> \in Gone(t) \cup UpTo(id)
    BY <1>2, <1>11, UnackedTyped
  <2>2. ASSUME NEW p \in Ids, p[1] < h PROVE p \in UpTo(id)
    BY <2>2 DEF UpTo, Leq
  <2> QED BY <1>10, <2>1, <2>2
<1>14. UpTo(id) \subseteq Covers(f)
  <2> SUFFICES ASSUME NEW p \in UpTo(id) PROVE p \in Covers(f) OBVIOUS
  <2>1. p \in Ids BY DEF UpTo
  <2>2. p = <<p[1], p[2]>> /\ p[2] \in Fresh(p[1]) BY <2>1, IdParts
  <2>3. CASE p[1] = h BY <1>10, <1>11, <2>2, <2>3
  <2>4. CASE p[1] # h BY <1>10, <1>12, <2>1, <2>4
  <2> QED BY <2>3, <2>4
<1>15. Gone(r.t) \subseteq Gone(t) \cup UpTo(id)
  <2> SUFFICES ASSUME NEW p \in Ids, p[1] \in kept, p[2] \notin now(p[1])
               PROVE  p \in Gone(t) \cup UpTo(id)
    BY <1>1 DEF Gone
  <2>1. p = <<p[1], p[2]>> /\ p[1] \in Entries /\ p[2] \in Fresh(p[1]) BY IdParts
  <2>2. CASE p[1] = h BY <1>11, <2>1, <2>2, UnackedTyped
  <2>3. CASE p[1] # h BY <2>3 DEF Gone
  <2> QED BY <2>2, <2>3
<1> QED BY <1>7, <1>9, <1>13, <1>14, <1>15

-----------------------------------------------------------------------------
(* The ack-timeout tracker.                                                *)

Locator == UNION {[D -> Nat] : D \in SUBSET Ids}

\* The locator names the bucket of every id, and nothing else.
Located(u) ==
    /\ \A i \in 1..Len(u.buckets) : \A id \in u.buckets[i].ids :
         id \in DOMAIN u.locator /\ u.locator[id] = i
    /\ \A id \in DOMAIN u.locator :
         /\ u.locator[id] \in 1..Len(u.buckets)
         /\ id \in u.buckets[u.locator[id]].ids

LEMMA TrackerFields ==
    ASSUME NEW u \in Tracker
    PROVE  /\ u.buckets \in Seq(Bucket) /\ u.locator \in Locator
           /\ DOMAIN u.locator \subseteq Ids /\ u.backoff \subseteq Ids
           /\ Len(u.buckets) \in Nat /\ DOMAIN u.buckets = 1..Len(u.buckets)
           /\ \A i \in 1..Len(u.buckets) : u.buckets[i] \in Bucket
<1>1. /\ u.buckets \in Seq(Bucket) /\ u.locator \in Locator
      /\ u.backoff \subseteq Ids
  BY DEF Tracker, Locator
<1>2. DOMAIN u.locator \subseteq Ids BY <1>1 DEF Locator
<1>3. /\ Len(u.buckets) \in Nat /\ DOMAIN u.buckets = 1..Len(u.buckets)
      /\ \A i \in 1..Len(u.buckets) : u.buckets[i] \in Bucket
  BY <1>1, LenProperties, ElementOfSeq
<1> QED BY <1>1, <1>2, <1>3

LEMMA FunctionIsSeq ==
    ASSUME NEW S, NEW n \in Nat, NEW f \in [1..n -> S]
    PROVE  f \in Seq(S) /\ Len(f) = n /\ DOMAIN f = 1..n
<1>1. f \in Seq(S) BY SeqDef
<1>2. DOMAIN f = 1..n OBVIOUS
<1>3. Len(f) \in Nat /\ DOMAIN f = 1..Len(f) BY <1>1, LenProperties
<1>4. 1..Len(f) = 1..n BY <1>2, <1>3
<1>5. Len(f) = n
  <2>1. CASE Len(f) < n
    <3>1. n \in 1..n /\ n \notin 1..Len(f) BY <1>3, <2>1
    <3> QED BY <1>4, <3>1
  <2>2. CASE Len(f) > n
    <3>1. Len(f) \in 1..Len(f) /\ Len(f) \notin 1..n BY <1>3, <2>2
    <3> QED BY <1>4, <3>1
  <2> QED BY <1>3, <2>1, <2>2
<1> QED BY <1>1, <1>2, <1>5

LEMMA TimedIn ==
    ASSUME NEW u \in Tracker, NEW id
    PROVE  id \in Timed(u) <=>
             id \in u.backoff \/ \E i \in 1..Len(u.buckets) : id \in u.buckets[i].ids
<1>1. DOMAIN u.buckets = 1..Len(u.buckets) BY TrackerFields
<1>2. ToSet(u.buckets) = {u.buckets[i] : i \in 1..Len(u.buckets)} BY <1>1 DEF ToSet
<1> QED BY <1>2 DEF Timed

LEMMA TimedIs ==
    ASSUME NEW u \in Tracker, Located(u)
    PROVE  Timed(u) = u.backoff \cup DOMAIN u.locator
BY TimedIn DEF Located

\* remove takes an id from every place that could redeliver it.
LEMMA UntrackFacts ==
    ASSUME NEW u \in Tracker, NEW ids \in SUBSET Ids
    PROVE  LET v == Untrack(u, ids)
           IN  /\ v \in Tracker
               /\ Located(u) => /\ Located(v)
                               /\ Timed(v) \subseteq Timed(u) \ ids
<1> DEFINE v == Untrack(u, ids)
           n == Len(u.buckets)
           at(i) == {id \in ids \cap DOMAIN u.locator : u.locator[id] = i}
           b(i) == [u.buckets[i] EXCEPT !.ids = @ \ at(i)]
<1>1. /\ n \in Nat /\ DOMAIN u.buckets = 1..n /\ u.backoff \subseteq Ids
      /\ DOMAIN u.locator \subseteq Ids /\ u.locator \in Locator
      /\ \A i \in 1..n : u.buckets[i] \in Bucket
  BY TrackerFields
<1>2. /\ v.buckets = [i \in 1..n |-> b(i)]
      /\ v.locator = Drop(u.locator, ids)
      /\ v.backoff = u.backoff \ ids
      /\ v = [buckets |-> v.buckets, locator |-> v.locator, backoff |-> v.backoff]
  BY <1>1 DEF Untrack
<1>3. \A i \in 1..n : /\ b(i) \in Bucket /\ b(i).due = u.buckets[i].due
                      /\ b(i).ids = u.buckets[i].ids \ at(i)
  BY <1>1 DEF Bucket
<1> HIDE DEF b
<1>4. v.buckets \in Seq(Bucket) /\ Len(v.buckets) = n /\ DOMAIN v.buckets = 1..n
  <2>1. v.buckets \in [1..n -> Bucket] BY <1>2, <1>3
  <2> QED BY <1>1, <2>1, FunctionIsSeq
<1>5. /\ DOMAIN v.locator = DOMAIN u.locator \ ids
      /\ \A id \in DOMAIN v.locator : v.locator[id] = u.locator[id]
      /\ v.locator \in Locator
  <2>1. v.locator = [id \in DOMAIN u.locator \ ids |-> u.locator[id]]
    BY <1>2 DEF Drop
  <2>2. \A id \in DOMAIN u.locator : u.locator[id] \in Nat BY <1>1 DEF Locator
  <2>3. v.locator \in [DOMAIN u.locator \ ids -> Nat] BY <2>1, <2>2
  <2> QED BY <1>1, <2>1, <2>3 DEF Locator
<1>6. v \in Tracker
  <2> HIDE DEF v
  <2> QED BY <1>1, <1>2, <1>4, <1>5 DEF Tracker, Locator
<1>7. ASSUME Located(u) PROVE Located(v) /\ Timed(v) \subseteq Timed(u) \ ids
  <2>1. \A i \in 1..n : v.buckets[i].ids = u.buckets[i].ids \ at(i)
    BY <1>2, <1>3
  <2>2. \A i \in 1..n : \A id \in u.buckets[i].ids :
          /\ id \in DOMAIN u.locator /\ u.locator[id] = i
          /\ id \in ids => id \in at(i)
    BY <1>7 DEF Located
  <2>3. ASSUME NEW i \in 1..n, NEW id \in v.buckets[i].ids
        PROVE  id \in DOMAIN v.locator /\ v.locator[id] = i
    <3>1. id \in u.buckets[i].ids /\ id \notin at(i) BY <2>1
    <3> QED BY <1>5, <2>2, <3>1
  <2>4. ASSUME NEW id \in DOMAIN v.locator
        PROVE  v.locator[id] \in 1..n /\ id \in v.buckets[v.locator[id]].ids
    <3>1. /\ id \in DOMAIN u.locator /\ id \notin ids /\ v.locator[id] = u.locator[id]
          /\ u.locator[id] \in 1..n /\ id \in u.buckets[u.locator[id]].ids
      BY <1>5, <1>7 DEF Located
    <3> QED BY <2>1, <3>1
  <2> HIDE DEF v
  <2>5. Located(v) BY <1>4, <2>3, <2>4 DEF Located
  <2>6. /\ Timed(v) = v.backoff \cup DOMAIN v.locator
        /\ Timed(u) = u.backoff \cup DOMAIN u.locator
    BY <1>6, <1>7, <2>5, TimedIs
  <2> QED BY <1>2, <1>5, <2>5, <2>6
<1> QED BY <1>6, <1>7

\* add starts timers for the new ids only.
LEMMA TrackFacts ==
    ASSUME NEW u \in Tracker, NEW ids \in SUBSET Ids
    PROVE  LET v == Track(u, ids)
           IN  /\ v \in Tracker
               /\ Located(u) => /\ Located(v)
                               /\ Timed(v) \subseteq Timed(u) \cup ids
<1> DEFINE v == Track(u, ids)
           n == Len(u.buckets)
           fresh == n = 0 \/ u.buckets[n].due
           at == IF fresh THEN n + 1 ELSE n
           new == ids \ (DOMAIN u.locator \cup u.backoff)
           loc == [id \in DOMAIN u.locator \cup new |->
                      IF id \in new THEN at ELSE u.locator[id]]
           one == [ids |-> new, due |-> FALSE]
           grown == [u.buckets[n] EXCEPT !.ids = @ \cup new]
           bs == IF fresh THEN Append(u.buckets, one)
                 ELSE [u.buckets EXCEPT ![n] = grown]
<1>1. /\ n \in Nat /\ DOMAIN u.buckets = 1..n /\ u.backoff \subseteq Ids
      /\ DOMAIN u.locator \subseteq Ids /\ u.locator \in Locator
      /\ u.buckets \in Seq(Bucket)
      /\ \A i \in 1..n : u.buckets[i] \in Bucket
  BY TrackerFields
<1>2. CASE new = {}
  <2>1. v = u BY <1>2 DEF Track
  <2> QED BY <2>1
<1>3. CASE new # {} /\ Backoff
  <2>1. v = [u EXCEPT !.backoff = @ \cup new] BY <1>3 DEF Track
  <2>2. /\ v \in Tracker /\ v.backoff = u.backoff \cup new
        /\ v.buckets = u.buckets /\ v.locator = u.locator
    BY <1>1, <2>1 DEF Tracker
  <2>3. ASSUME Located(u) PROVE Located(v) /\ Timed(v) \subseteq Timed(u) \cup ids
    <3>1. Located(v) BY <2>2, <2>3 DEF Located
    <3>2. /\ Timed(v) = v.backoff \cup DOMAIN v.locator
          /\ Timed(u) = u.backoff \cup DOMAIN u.locator
      BY <2>2, <2>3, <3>1, TimedIs
    <3> QED BY <2>2, <3>1, <3>2
  <2> QED BY <2>2, <2>3
<1>4. CASE new # {} /\ ~Backoff
  <2>1. v = [u EXCEPT !.buckets = bs, !.locator = loc] BY <1>4 DEF Track
  <2>2. one \in Bucket /\ one.ids = new /\ one.due = FALSE BY DEF Bucket
  <2>3. ASSUME ~fresh
        PROVE  /\ n \in 1..n /\ grown \in Bucket
               /\ grown.ids = u.buckets[n].ids \cup new
               /\ grown.due = u.buckets[n].due
    <3>1. n \in 1..n BY <1>1, <2>3
    <3> QED BY <1>1, <3>1 DEF Bucket
  <2> HIDE DEF one, grown
  <2>4. bs \in Seq(Bucket)
    <3>1. CASE fresh BY <1>1, <2>2, <3>1
    <3>2. CASE ~fresh BY <1>1, <2>3, <3>2, ExceptSeq
    <3> QED BY <3>1, <3>2
  <2>5. loc \in Locator /\ DOMAIN loc = DOMAIN u.locator \cup new
    <3>1. \A id \in DOMAIN u.locator : u.locator[id] \in Nat BY <1>1 DEF Locator
    <3>2. at \in Nat BY <1>1
    <3>3. loc \in [DOMAIN u.locator \cup new -> Nat] BY <3>1, <3>2
    <3> QED BY <1>1, <3>3 DEF Locator
  <2> HIDE DEF bs, loc
  <2>6. /\ v \in Tracker /\ v.buckets = bs /\ v.locator = loc
        /\ v.backoff = u.backoff
    BY <2>1, <2>4, <2>5 DEF Tracker, Locator
  <2>7. ASSUME Located(u) PROVE Located(v) /\ Timed(v) \subseteq Timed(u) \cup ids
    <3>1. /\ at \in 1..Len(bs) /\ n =< Len(bs)
          /\ \A i \in 1..Len(bs) : i # at => i \in 1..n /\ bs[i] = u.buckets[i]
          /\ new \subseteq bs[at].ids
          /\ \A id \in bs[at].ids : id \in new \/ (at \in 1..n /\ id \in u.buckets[at].ids)
          /\ at \in 1..n => u.buckets[at].ids \subseteq bs[at].ids
      <4>1. CASE fresh
        <5>1. bs = Append(u.buckets, one) /\ at = n + 1 BY <4>1 DEF bs
        <5>2. /\ Len(bs) = n + 1 /\ bs[n + 1] = one
              /\ \A i \in 1..n : bs[i] = u.buckets[i]
          BY <1>1, <5>1
        <5>3. \A i \in 1..(n + 1) : i # n + 1 => i \in 1..n BY <1>1
        <5>4. n + 1 \in 1..(n + 1) /\ n + 1 \notin 1..n /\ n =< n + 1 BY <1>1
        <5> QED BY <2>2, <5>1, <5>2, <5>3, <5>4
      <4>2. CASE ~fresh
        <5>1. bs = [u.buckets EXCEPT ![n] = grown] /\ at = n BY <4>2 DEF bs
        <5>2. /\ n \in 1..n /\ grown.ids = u.buckets[n].ids \cup new BY <2>3, <4>2
        <5>3. /\ Len(bs) = n /\ bs[n] = grown
              /\ \A i \in 1..n : i # n => bs[i] = u.buckets[i]
          BY <1>1, <5>1, <5>2
        <5> QED BY <1>1, <5>1, <5>2, <5>3
      <4> QED BY <4>1, <4>2
    <3>2. /\ \A i \in 1..n : \A id \in u.buckets[i].ids :
               id \in DOMAIN u.locator /\ u.locator[id] = i
          /\ \A id \in DOMAIN u.locator :
               u.locator[id] \in 1..n /\ id \in u.buckets[u.locator[id]].ids
      BY <2>7 DEF Located
    <3>3. /\ \A id \in new : id \notin DOMAIN u.locator /\ loc[id] = at
          /\ \A id \in DOMAIN u.locator : loc[id] = u.locator[id]
      BY DEF loc
    <3> HIDE DEF at, new
    <3>4. ASSUME NEW i \in 1..Len(bs), NEW id \in bs[i].ids
          PROVE  id \in DOMAIN loc /\ loc[id] = i
      <4>1. CASE i = at BY <2>5, <3>1, <3>2, <3>3, <4>1
      <4>2. CASE i # at BY <2>5, <3>1, <3>2, <3>3, <4>2
      <4> QED BY <4>1, <4>2
    <3>5. ASSUME NEW id \in DOMAIN loc
          PROVE  loc[id] \in 1..Len(bs) /\ id \in bs[loc[id]].ids
      <4>1. CASE id \in new BY <3>1, <3>3, <4>1
      <4>2. CASE id \in DOMAIN u.locator
        <5>1. loc[id] = u.locator[id] /\ loc[id] \in 1..n /\ id \in u.buckets[loc[id]].ids
          BY <3>2, <3>3, <4>2
        <5>2. loc[id] \in 1..Len(bs) BY <1>1, <2>4, <3>1, <5>1
        <5>3. CASE loc[id] = at BY <3>1, <5>1, <5>2, <5>3
        <5>4. CASE loc[id] # at BY <3>1, <5>1, <5>2, <5>4
        <5> QED BY <5>3, <5>4
      <4> QED BY <2>5, <4>1, <4>2
    <3>6. Located(v) BY <2>6, <3>4, <3>5 DEF Located
    <3>7. /\ Timed(v) = v.backoff \cup DOMAIN v.locator
          /\ Timed(u) = u.backoff \cup DOMAIN u.locator
      BY <2>6, <2>7, <3>6, TimedIs
    <3> QED BY <2>5, <2>6, <3>6, <3>7 DEF new
  <2> QED BY <2>6, <2>7
<1> QED BY <1>2, <1>3, <1>4

LEMMA ElapseFacts ==
    ASSUME NEW u \in Tracker, NEW k \in Nat
    PROVE  LET v == Elapse(u, k)
           IN  /\ v \in Tracker
               /\ v.locator = u.locator /\ v.backoff = u.backoff
               /\ Len(v.buckets) = Len(u.buckets)
               /\ \A i \in 1..Len(u.buckets) :
                    /\ v.buckets[i].ids = u.buckets[i].ids
                    /\ v.buckets[i].due <=> (i =< k \/ u.buckets[i].due)
               /\ Located(u) => Located(v) /\ Timed(v) = Timed(u)
<1> DEFINE v == Elapse(u, k)
           n == Len(u.buckets)
           due(i) == [u.buckets[i] EXCEPT !.due = TRUE]
           bs == [i \in 1..n |-> IF i =< k THEN due(i) ELSE u.buckets[i]]
<1>1. /\ n \in Nat /\ DOMAIN u.buckets = 1..n
      /\ \A i \in 1..n : u.buckets[i] \in Bucket
  BY TrackerFields
<1>2. v = [u EXCEPT !.buckets = bs] BY <1>1 DEF Elapse
<1>3. \A i \in 1..n : /\ due(i) \in Bucket /\ due(i).ids = u.buckets[i].ids
                      /\ due(i).due = TRUE
  BY <1>1 DEF Bucket
<1>4. \A i \in 1..n : u.buckets[i].due \in BOOLEAN BY <1>1 DEF Bucket
<1> HIDE DEF due
<1>5. bs \in Seq(Bucket) /\ Len(bs) = n
  <2>1. bs \in [1..n -> Bucket] BY <1>1, <1>3
  <2> QED BY <1>1, <2>1, FunctionIsSeq
<1>6. \A i \in 1..n : bs[i].ids = u.buckets[i].ids
  BY <1>3
<1>7. \A i \in 1..n : bs[i].due <=> (i =< k \/ u.buckets[i].due)
  BY <1>3, <1>4
<1> HIDE DEF bs
<1>8. /\ v \in Tracker /\ v.buckets = bs /\ v.locator = u.locator
      /\ v.backoff = u.backoff
  BY <1>2, <1>5 DEF Tracker
<1> HIDE DEF v
<1>9. ASSUME Located(u) PROVE Located(v) /\ Timed(v) = Timed(u)
  <2>1. Located(v) BY <1>5, <1>6, <1>8, <1>9 DEF Located
  <2> QED BY <1>8, <1>9, <2>1, TimedIs
<1> QED BY <1>5, <1>6, <1>7, <1>8, <1>9 DEF v

\* poll starts no timer, and what it reports are message ids; the locator stays
\* right unless the poll slips.
LEMMA PollFacts ==
    ASSUME NEW u \in Tracker, NEW k \in Nat, NEW own \in SUBSET u.backoff
    PROVE  LET p == PollUnacked(Elapse(u, k), own)
           IN  /\ p.u \in Tracker /\ p.redeliver \subseteq Ids
               /\ Located(u) /\ ~Slips(Elapse(u, k)) =>
                    Located(p.u) /\ Timed(p.u) \subseteq Timed(u)
<1> DEFINE w == Elapse(u, k)
           p == PollUnacked(w, own)
           n == Len(u.buckets)
           due == {i \in DOMAIN w.buckets : w.buckets[i].due}
           c == Cardinality(due)
           kept == SubSeq(w.buckets, c + 1, Len(w.buckets))
           expired == {w.buckets[i].ids : i \in due} \ {{}}
           rebuilt == [id \in UNION {b.ids : b \in ToSet(kept)} |->
                         CHOOSE i \in DOMAIN kept : id \in kept[i].ids]
           loc == IF expired = {} THEN w.locator ELSE rebuilt
<1>1. /\ n \in Nat /\ u.backoff \subseteq Ids /\ DOMAIN u.locator \subseteq Ids
      /\ u.locator \in Locator
  BY TrackerFields
<1>2. /\ w \in Tracker /\ w.locator = u.locator /\ w.backoff = u.backoff
      /\ Len(w.buckets) = n
      /\ \A i \in 1..n : /\ w.buckets[i].ids = u.buckets[i].ids
                         /\ w.buckets[i].due <=> (i =< k \/ u.buckets[i].due)
  BY ElapseFacts
<1> HIDE DEF w
<1>3. /\ w.buckets \in Seq(Bucket) /\ DOMAIN w.buckets = 1..n
      /\ \A i \in 1..n : w.buckets[i] \in Bucket
  BY <1>2, TrackerFields
<1>4. p.u = [buckets |-> kept, locator |-> loc, backoff |-> w.backoff \ own]
      /\ p.redeliver = (UNION expired) \cup own
  BY DEF PollUnacked
<1>5. c \in Nat
  <2>1. due \in SUBSET (1..n) BY <1>3
  <2>2. IsFiniteSet(1..n) BY <1>1, FS_Interval
  <2>3. IsFiniteSet(due) BY <2>1, <2>2, FS_Subset
  <2> QED BY <2>3, FS_CardinalityType
<1>6. kept \in Seq(Bucket)
  <2>1. \A i \in (c + 1)..n : i \in 1..n BY <1>1, <1>5
  <2>2. \A i \in (c + 1)..n : w.buckets[i] \in Bucket BY <1>3, <2>1
  <2>3. c + 1 \in Int /\ n \in Int BY <1>1, <1>5
  <2> HIDE DEF c
  <2> QED BY <1>2, <2>2, <2>3, SubSeqProperties
<1> HIDE DEF kept
<1>7. rebuilt \in Locator
  <2> DEFINE D == UNION {b.ids : b \in ToSet(kept)}
  <2>1. DOMAIN kept = 1..Len(kept) /\ Len(kept) \in Nat
        /\ \A i \in 1..Len(kept) : kept[i] \in Bucket
    BY <1>6, LenProperties, ElementOfSeq
  <2>2. \A i \in 1..Len(kept) : kept[i].ids \subseteq Ids BY <2>1 DEF Bucket
  <2>3. ASSUME NEW id \in D
        PROVE  /\ id \in Ids
               /\ (CHOOSE i \in DOMAIN kept : id \in kept[i].ids) \in Nat
    <3>1. PICK i \in DOMAIN kept : id \in kept[i].ids BY <2>3 DEF ToSet
    <3>2. (CHOOSE j \in DOMAIN kept : id \in kept[j].ids) \in DOMAIN kept BY <3>1
    <3>3. DOMAIN kept \subseteq Nat BY <2>1
    <3> QED BY <2>1, <2>2, <3>1, <3>2, <3>3
  <2>4. D \in SUBSET Ids BY <2>3
  <2>5. rebuilt \in [D -> Nat] BY <2>3
  <2> HIDE DEF D, rebuilt
  <2> QED BY <2>4, <2>5 DEF Locator
<1>8. loc \in Locator BY <1>1, <1>2, <1>7
<1> HIDE DEF rebuilt
<1>9. p.u \in Tracker
  <2>1. w.backoff \ own \in SUBSET Ids BY <1>1, <1>2
  <2> HIDE DEF loc
  <2> QED BY <1>4, <1>6, <1>8, <2>1 DEF Tracker, Locator
<1>10. p.redeliver \subseteq Ids
  <2>1. \A i \in 1..n : w.buckets[i].ids \subseteq Ids BY <1>3 DEF Bucket
  <2>2. \A S \in expired : S \subseteq Ids BY <1>3, <2>1
  <2>3. UNION expired \subseteq Ids BY <2>2
  <2>4. own \subseteq Ids BY <1>1
  <2>5. p.redeliver = (UNION expired) \cup own BY <1>4
  <2> HIDE DEF expired, p
  <2> QED BY <2>3, <2>4, <2>5
<1>11. ASSUME Located(u), ~Slips(w)
       PROVE  Located(p.u) /\ Timed(p.u) \subseteq Timed(u)
  <2>1. p.u.buckets = kept /\ p.u.locator = loc /\ p.u.backoff = u.backoff \ own
    BY <1>2, <1>4
  <2>2. /\ \A i \in 1..n : \A id \in w.buckets[i].ids :
             id \in DOMAIN u.locator /\ u.locator[id] = i
        /\ \A id \in DOMAIN u.locator :
             u.locator[id] \in 1..n /\ id \in w.buckets[u.locator[id]].ids
    BY <1>2, <1>11 DEF Located
  <2>3. CASE due = {}
    <3>1. expired = {} /\ c = 0 BY <2>3, FS_EmptySet
    <3>2. kept = w.buckets
      <4>1. c + 1 = 1 BY <3>1
      <4>2. kept = SubSeq(w.buckets, 1, Len(w.buckets)) BY <4>1 DEF kept
      <4> QED BY <1>3, <4>2, SubSeqFull
    <3>3. loc = u.locator BY <1>2, <3>1
    <3> HIDE DEF loc, p
    <3>4. Located(p.u) BY <1>2, <2>1, <2>2, <3>2, <3>3 DEF Located
    <3> QED BY <1>9, <1>11, <2>1, <3>3, <3>4, TimedIs
  <2>4. CASE due # {} /\ expired = {}
    <3>1. \A i \in due : w.buckets[i].ids = {} BY <2>4
    <3>2. due = 1..n BY <1>3, <1>11, <2>4, <3>1 DEF Slips
    <3>3. c = n
      <4>1. Cardinality(1..n) = IF 1 > n THEN 0 ELSE n - 1 + 1 BY <1>1, FS_Interval
      <4>2. Cardinality(1..n) = n BY <1>1, <4>1
      <4> QED BY <3>2, <4>2
    <3>4. kept = <<>>
      <4>1. Len(w.buckets) < c + 1 /\ c + 1 \in Int /\ Len(w.buckets) \in Int
        BY <1>1, <1>2, <3>3
      <4> QED BY <4>1, SubSeqEmpty DEF kept
    <3>5. DOMAIN u.locator = {} BY <2>2, <3>1, <3>2
    <3>6. loc = u.locator /\ Len(kept) = 0 BY <1>2, <2>4, <3>4
    <3> HIDE DEF loc, p
    <3>7. Located(p.u) BY <2>1, <3>5, <3>6 DEF Located
    <3> QED BY <1>9, <1>11, <2>1, <3>6, <3>7, TimedIs
  <2>5. CASE expired # {}
    <3>1. /\ Len(kept) \in Nat /\ DOMAIN kept = 1..Len(kept)
      BY <1>6, LenProperties
    <3>2. \A i \in 1..Len(kept) : i + c \in 1..n /\ kept[i] = w.buckets[i + c]
      <4>1. c + 1 \in Nat /\ c + 1 > 0 BY <1>5
      <4> HIDE DEF c
      <4> QED BY <1>1, <1>2, <1>3, <1>5, <4>1 DEF kept
    <3>3. \A i, j \in 1..Len(kept) : \A id \in kept[i].ids : id \in kept[j].ids => i = j
      <4> HIDE DEF c
      <4> SUFFICES ASSUME NEW i \in 1..Len(kept), NEW j \in 1..Len(kept),
                          NEW id \in kept[i].ids, id \in kept[j].ids
                   PROVE  i = j
        OBVIOUS
      <4>1. u.locator[id] = i + c /\ u.locator[id] = j + c BY <2>2, <3>2
      <4> QED BY <1>5, <3>1, <4>1
    <3>4. DOMAIN rebuilt = {id \in Ids : \E i \in 1..Len(kept) : id \in kept[i].ids}
      <4>1. \A i \in 1..Len(kept) : kept[i].ids \subseteq Ids
        <5>1. \A i \in 1..Len(kept) : kept[i] \in Bucket BY <1>6, ElementOfSeq
        <5> QED BY <5>1 DEF Bucket
      <4>2. ToSet(kept) = {kept[i] : i \in 1..Len(kept)} BY <3>1 DEF ToSet
      <4>3. DOMAIN rebuilt = UNION {b.ids : b \in ToSet(kept)} BY DEF rebuilt
      <4> QED BY <4>1, <4>2, <4>3
    <3>5. ASSUME NEW id \in DOMAIN rebuilt
          PROVE  rebuilt[id] \in 1..Len(kept) /\ id \in kept[rebuilt[id]].ids
      <4>1. rebuilt[id] = CHOOSE i \in DOMAIN kept : id \in kept[i].ids
        BY <3>5 DEF rebuilt
      <4>2. \E i \in DOMAIN kept : id \in kept[i].ids BY <3>1, <3>4
      <4> QED BY <3>1, <4>1, <4>2
    <3>6. ASSUME NEW i \in 1..Len(kept), NEW id \in kept[i].ids
          PROVE  id \in DOMAIN rebuilt /\ rebuilt[id] = i
      <4>1. kept[i].ids \subseteq Ids
        <5>1. kept[i] \in Bucket BY <1>6, ElementOfSeq
        <5> QED BY <5>1 DEF Bucket
      <4>2. id \in DOMAIN rebuilt BY <3>4, <4>1
      <4> QED BY <3>3, <3>5, <4>2
    <3>7. loc = rebuilt BY <2>5
    <3> HIDE DEF loc, p
    <3>8. Located(p.u) BY <2>1, <3>5, <3>6, <3>7 DEF Located
    <3>9. DOMAIN rebuilt \subseteq DOMAIN u.locator
      <4> HIDE DEF c
      <4> QED BY <2>2, <3>2, <3>4
    <3> QED BY <1>9, <1>11, <2>1, <3>7, <3>8, <3>9, TimedIs
  <2> QED BY <2>3, <2>4, <2>5
<1> QED BY <1>9, <1>10, <1>11 DEF w

-----------------------------------------------------------------------------
(* Moves of the client.                                                    *)

\* The positions that a set of frames settles at the broker, asks for again or
\* gives up with the consumer.
Asked(F) ==
    {p \in Ids : \E f \in F :
        \/ f.op = "close"
        \/ f.op = "redeliver" /\ \E x \in f.ids : x[1] = p[1]
        \/ f.op \in AckOps /\ p \in Covers(f)}

\* The client moves from s to n: the ids in named lose their timers and their
\* ack is on its way, covered is all that the frames acknowledge in addition,
\* and nothing that was to be asked for again is forgotten.
Stops(s, n, named) ==
    Located(s.unacked) =>
      /\ Located(n.unacked)
      /\ Timed(n.unacked) \cup n.nacks
           \subseteq (Timed(s.unacked) \cup s.nacks) \ named

Sends(s, n, named, covered) ==
    /\ n \in AckState
    /\ Gone(n.batch) \cup AllCovered(ToSet(n.frames))
         \subseteq Gone(s.batch) \cup AllCovered(ToSet(s.frames)) \cup covered
    /\ Carried(s.frames) \cup named \subseteq Carried(n.frames)
    /\ s.nacks \cup Asked(ToSet(s.frames)) \cup covered
         \subseteq n.nacks \cup Asked(ToSet(n.frames))
    /\ ToSet(s.frames) \subseteq ToSet(n.frames)
    /\ \A f \in ToSet(n.frames) \ ToSet(s.frames) :
         f.op \in {"individual", "cumulative", "redeliver"}

Advances(s, n, named, covered) == Stops(s, n, named) /\ Sends(s, n, named, covered)

LEMMA SendsCompose ==
    ASSUME NEW s, NEW m, NEW n, NEW named1, NEW named2, NEW covered1, NEW covered2,
           Sends(s, m, named1, covered1), Sends(m, n, named2, covered2)
    PROVE  Sends(s, n, named1 \cup named2, covered1 \cup covered2)
<1>1. n \in AckState BY DEF Sends
<1>2. Gone(n.batch) \cup AllCovered(ToSet(n.frames))
         \subseteq Gone(s.batch) \cup AllCovered(ToSet(s.frames))
                     \cup (covered1 \cup covered2)
  BY DEF Sends
<1>3. Carried(s.frames) \cup (named1 \cup named2) \subseteq Carried(n.frames)
  BY DEF Sends
<1>4. s.nacks \cup Asked(ToSet(s.frames)) \cup (covered1 \cup covered2)
         \subseteq n.nacks \cup Asked(ToSet(n.frames))
  BY DEF Sends
<1>5. /\ ToSet(s.frames) \subseteq ToSet(n.frames)
      /\ \A f \in ToSet(n.frames) \ ToSet(s.frames) :
           f.op \in {"individual", "cumulative", "redeliver"}
  BY DEF Sends
<1> QED BY <1>1, <1>2, <1>3, <1>4, <1>5 DEF Sends

LEMMA StopsCompose ==
    ASSUME NEW s, NEW m, NEW n, NEW named1, NEW named2,
           Stops(s, m, named1), Stops(m, n, named2)
    PROVE  Stops(s, n, named1 \cup named2)
BY DEF Stops

LEMMA AdvancesCompose ==
    ASSUME NEW s, NEW m, NEW n, NEW named1, NEW named2, NEW covered1, NEW covered2,
           Advances(s, m, named1, covered1), Advances(m, n, named2, covered2)
    PROVE  Advances(s, n, named1 \cup named2, covered1 \cup covered2)
BY SendsCompose, StopsCompose DEF Advances

LEMMA StateFields ==
    ASSUME NEW s \in AckState
    PROVE  /\ s.batch \in Partial /\ s.unacked \in Tracker
           /\ s.nacks \subseteq Ids /\ s.frames \in Seq(Frame)
BY DEF AckState

LEMMA ApplyLocalFacts ==
    ASSUME NEW s \in AckState, NEW ids \in SUBSET Ids, NEW type,
           ApplyBatchAckState(s.batch, ids, type).t \in Partial
    PROVE  LET n == ApplyLocal(s, ids, type)
           IN  /\ n \in AckState
               /\ n.batch = ApplyBatchAckState(s.batch, ids, type).t
               /\ n.unacked = Untrack(s.unacked, ids)
               /\ n.nacks = s.nacks \ ids
               /\ n.frames = s.frames
<1> DEFINE b == ApplyBatchAckState(s.batch, ids, type).t
           u == Untrack(s.unacked, ids)
<1>1. u \in Tracker BY StateFields, UntrackFacts
<1>2. ApplyLocal(s, ids, type)
        = [s EXCEPT !.batch = b, !.unacked = u, !.nacks = @ \ ids]
  BY DEF ApplyLocal
<1>3. b \in Partial OBVIOUS
<1> HIDE DEF b, u
<1>4. LET n == [s EXCEPT !.batch = b, !.unacked = u, !.nacks = @ \ ids]
      IN  /\ n \in AckState /\ n.batch = b /\ n.unacked = u
          /\ n.nacks = s.nacks \ ids /\ n.frames = s.frames
  BY <1>1, <1>3 DEF AckState
<1> QED BY <1>2, <1>4 DEF b, u

LEMMA AppendFrame ==
    ASSUME NEW s \in AckState, NEW f \in Frame
    PROVE  LET n == [s EXCEPT !.frames = Append(@, f)]
           IN  /\ n \in AckState /\ n.batch = s.batch /\ n.unacked = s.unacked
               /\ n.nacks = s.nacks /\ n.frames = Append(s.frames, f)
               /\ ToSet(n.frames) = ToSet(s.frames) \cup {f}
<1>1. s.frames \in Seq(Frame) BY StateFields
<1>2. Append(s.frames, f) \in Seq(Frame) BY <1>1
<1>3. ToSet(Append(s.frames, f)) = ToSet(s.frames) \cup {f} BY <1>1, ToSetAppend
<1> QED BY <1>2, <1>3 DEF AckState

\* What one more frame adds to the three views of the frames.
LEMMA OneMoreFrame ==
    ASSUME NEW f \in Frame, NEW g \in Seq(Frame), NEW h \in Seq(Frame),
           ToSet(h) = ToSet(g) \cup {f}
    PROVE  /\ f.op \in AckOps =>
                /\ AllCovered(ToSet(h)) = AllCovered(ToSet(g)) \cup Covers(f)
                /\ Covers(f) \cap Ids \subseteq Asked(ToSet(h))
           /\ f.op \notin AckOps => AllCovered(ToSet(h)) = AllCovered(ToSet(g))
           /\ f.op \in {"individual", "cumulative"} =>
                Carried(h) = Carried(g) \cup Covers(f)
           /\ f.op \notin {"individual", "cumulative"} => Carried(h) = Carried(g)
           /\ Asked(ToSet(g)) \subseteq Asked(ToSet(h))
           /\ f.op = "redeliver" => f.ids \cap Ids \subseteq Asked(ToSet(h))
<1>1. f.op \in AckOps =>
        /\ AllCovered(ToSet(h)) = AllCovered(ToSet(g)) \cup Covers(f)
        /\ Covers(f) \cap Ids \subseteq Asked(ToSet(h))
  BY DEF AllCovered, Asked
<1>2. f.op \notin AckOps => AllCovered(ToSet(h)) = AllCovered(ToSet(g))
  BY DEF AllCovered
<1>3. /\ f.op \in {"individual", "cumulative"} =>
           Carried(h) = Carried(g) \cup Covers(f)
      /\ f.op \notin {"individual", "cumulative"} => Carried(h) = Carried(g)
  BY DEF Carried
<1>4. Asked(ToSet(g)) \subseteq Asked(ToSet(h)) BY DEF Asked
<1>5. f.op = "redeliver" => f.ids \cap Ids \subseteq Asked(ToSet(h))
  BY DEF Asked
<1> QED BY <1>1, <1>2, <1>3, <1>4, <1>5

LEMMA AckNowIndividual ==
    ASSUME NEW s \in AckState, NEW ids \in SUBSET Ids
    PROVE  Advances(s, AckNow(s, ids, "individual"), ids, ids)
<1> DEFINE r == ApplyBatchAckState(s.batch, ids, "individual")
           f == AckFrame("individual", r.sent)
           m == ApplyLocal(s, ids, "individual")
           n == AckNow(s, ids, "individual")
<1>1. /\ s.batch \in Partial /\ s.unacked \in Tracker
      /\ s.nacks \subseteq Ids /\ s.frames \in Seq(Frame)
  BY StateFields
<1>2. /\ r.t \in Partial /\ f \in Frame /\ f.op = "individual"
      /\ Covers(f) \subseteq Gone(s.batch) \cup ids
      /\ ids \subseteq Covers(f)
      /\ Gone(r.t) \subseteq Gone(s.batch) \cup ids
  BY <1>1, IndividualAck
<1>3. /\ m \in AckState /\ m.batch = r.t /\ m.unacked = Untrack(s.unacked, ids)
      /\ m.nacks = s.nacks \ ids /\ m.frames = s.frames
  BY <1>2, ApplyLocalFacts
<1>4. n = [m EXCEPT !.frames = Append(@, f)] BY DEF AckNow
<1> HIDE DEF r, f, m, n
<1>5. /\ n \in AckState /\ n.batch = m.batch /\ n.unacked = m.unacked
      /\ n.nacks = m.nacks /\ n.frames = Append(m.frames, f)
      /\ ToSet(n.frames) = ToSet(m.frames) \cup {f}
  BY <1>2, <1>3, <1>4, AppendFrame
<1>6. n.frames \in Seq(Frame) BY <1>5, StateFields
<1>7. /\ AllCovered(ToSet(n.frames)) = AllCovered(ToSet(s.frames)) \cup Covers(f)
      /\ Carried(n.frames) = Carried(s.frames) \cup Covers(f)
      /\ Asked(ToSet(s.frames)) \cup (Covers(f) \cap Ids) \subseteq Asked(ToSet(n.frames))
  <2>1. f.op \in AckOps /\ f.op \in {"individual", "cumulative"} BY <1>2 DEF AckOps
  <2>2. ToSet(n.frames) = ToSet(s.frames) \cup {f} BY <1>3, <1>5
  <2>3. /\ AllCovered(ToSet(n.frames)) = AllCovered(ToSet(s.frames)) \cup Covers(f)
        /\ Covers(f) \cap Ids \subseteq Asked(ToSet(n.frames))
    BY <1>1, <1>2, <1>6, <2>1, <2>2, OneMoreFrame
  <2>4. Carried(n.frames) = Carried(s.frames) \cup Covers(f)
    BY <1>1, <1>2, <1>6, <2>1, <2>2, OneMoreFrame
  <2>5. Asked(ToSet(s.frames)) \subseteq Asked(ToSet(n.frames))
    BY <1>1, <1>2, <1>6, <2>2, OneMoreFrame
  <2> QED BY <2>3, <2>4, <2>5
<1>8. Located(s.unacked) =>
         /\ Located(n.unacked)
         /\ Timed(n.unacked) \cup n.nacks
              \subseteq (Timed(s.unacked) \cup s.nacks) \ ids
  BY <1>1, <1>3, <1>5, UntrackFacts
<1>10. Gone(n.batch) \cup AllCovered(ToSet(n.frames))
         \subseteq Gone(s.batch) \cup AllCovered(ToSet(s.frames)) \cup ids
  BY <1>2, <1>3, <1>5, <1>7
<1>11. Carried(s.frames) \cup ids \subseteq Carried(n.frames)
  BY <1>2, <1>7
<1>12. s.nacks \cup Asked(ToSet(s.frames)) \cup ids
         \subseteq n.nacks \cup Asked(ToSet(n.frames))
  BY <1>2, <1>3, <1>5, <1>7
<1>13. /\ ToSet(s.frames) \subseteq ToSet(n.frames)
       /\ \A g \in ToSet(n.frames) \ ToSet(s.frames) :
            g.op \in {"individual", "cumulative", "redeliver"}
  BY <1>2, <1>3, <1>5
<1> QED BY <1>5, <1>8, <1>10, <1>11, <1>12, <1>13 DEF Advances, Sends, Stops, n

LEMMA AckNowCumulative ==
    ASSUME NEW s \in AckState, NEW id \in Ids
    PROVE  Advances(s, AckNow(s, {id}, "cumulative"), {id}, UpTo(id))
<1> DEFINE r == ApplyBatchAckState(s.batch, {id}, "cumulative")
           f == AckFrame("cumulative", r.sent)
           m == ApplyLocal(s, {id}, "cumulative")
           n == AckNow(s, {id}, "cumulative")
<1>1. /\ s.batch \in Partial /\ s.unacked \in Tracker
      /\ s.nacks \subseteq Ids /\ s.frames \in Seq(Frame)
  BY StateFields
<1>2. /\ r.t \in Partial /\ f \in Frame /\ f.op = "cumulative"
      /\ Covers(f) \subseteq Gone(s.batch) \cup UpTo(id)
      /\ UpTo(id) \subseteq Covers(f)
      /\ Gone(r.t) \subseteq Gone(s.batch) \cup UpTo(id)
  BY <1>1, CumulativeAck
<1>3. /\ m \in AckState /\ m.batch = r.t /\ m.unacked = Untrack(s.unacked, {id})
      /\ m.nacks = s.nacks \ {id} /\ m.frames = s.frames
  <2> DEFINE ids == {id}
  <2>1. ids \in SUBSET Ids OBVIOUS
  <2>2. ApplyBatchAckState(s.batch, ids, "cumulative").t \in Partial BY <1>2
  <2> HIDE DEF ids
  <2>3. LET a == ApplyLocal(s, ids, "cumulative")
        IN  /\ a \in AckState
            /\ a.batch = ApplyBatchAckState(s.batch, ids, "cumulative").t
            /\ a.unacked = Untrack(s.unacked, ids)
            /\ a.nacks = s.nacks \ ids
            /\ a.frames = s.frames
    BY <2>1, <2>2, ApplyLocalFacts
  <2> QED BY <2>3 DEF ids
<1>4. n = [m EXCEPT !.frames = Append(@, f)] BY DEF AckNow
<1> HIDE DEF r, f, m, n
<1>5. /\ n \in AckState /\ n.batch = m.batch /\ n.unacked = m.unacked
      /\ n.nacks = m.nacks /\ n.frames = Append(m.frames, f)
      /\ ToSet(n.frames) = ToSet(m.frames) \cup {f}
  BY <1>2, <1>3, <1>4, AppendFrame
<1>6. n.frames \in Seq(Frame) BY <1>5, StateFields
<1>7. /\ AllCovered(ToSet(n.frames)) = AllCovered(ToSet(s.frames)) \cup Covers(f)
      /\ Carried(n.frames) = Carried(s.frames) \cup Covers(f)
      /\ Asked(ToSet(s.frames)) \cup (Covers(f) \cap Ids) \subseteq Asked(ToSet(n.frames))
  <2>1. f.op \in AckOps /\ f.op \in {"individual", "cumulative"} BY <1>2 DEF AckOps
  <2>2. ToSet(n.frames) = ToSet(s.frames) \cup {f} BY <1>3, <1>5
  <2>3. /\ AllCovered(ToSet(n.frames)) = AllCovered(ToSet(s.frames)) \cup Covers(f)
        /\ Covers(f) \cap Ids \subseteq Asked(ToSet(n.frames))
    BY <1>1, <1>2, <1>6, <2>1, <2>2, OneMoreFrame
  <2>4. Carried(n.frames) = Carried(s.frames) \cup Covers(f)
    BY <1>1, <1>2, <1>6, <2>1, <2>2, OneMoreFrame
  <2>5. Asked(ToSet(s.frames)) \subseteq Asked(ToSet(n.frames))
    BY <1>1, <1>2, <1>6, <2>2, OneMoreFrame
  <2> QED BY <2>3, <2>4, <2>5
<1>8. Located(s.unacked) =>
         /\ Located(n.unacked)
         /\ Timed(n.unacked) \cup n.nacks
              \subseteq (Timed(s.unacked) \cup s.nacks) \ {id}
  BY <1>1, <1>3, <1>5, UntrackFacts
<1>9. id \in UpTo(id) /\ UpTo(id) \subseteq Ids BY IdParts DEF UpTo, Leq
<1>10. Gone(n.batch) \cup AllCovered(ToSet(n.frames))
         \subseteq Gone(s.batch) \cup AllCovered(ToSet(s.frames)) \cup UpTo(id)
  BY <1>2, <1>3, <1>5, <1>7
<1>11. Carried(s.frames) \cup {id} \subseteq Carried(n.frames)
  BY <1>2, <1>7, <1>9
<1>12. s.nacks \cup Asked(ToSet(s.frames)) \cup UpTo(id)
         \subseteq n.nacks \cup Asked(ToSet(n.frames))
  BY <1>2, <1>3, <1>5, <1>7, <1>9
<1>13. /\ ToSet(s.frames) \subseteq ToSet(n.frames)
       /\ \A g \in ToSet(n.frames) \ ToSet(s.frames) :
            g.op \in {"individual", "cumulative", "redeliver"}
  BY <1>2, <1>3, <1>5
<1> QED BY <1>5, <1>8, <1>10, <1>11, <1>12, <1>13 DEF Advances, Sends, Stops, n

GroupTyped ==
    /\ group \in [individuals : SUBSET Ids, cumulative : Ids \cup {<<>>}]

LEMMA FlushedAdvances ==
    ASSUME NEW s \in AckState, GroupTyped
    PROVE  Advances(s, Flushed(s), Named, Grouped(group))
<1> DEFINE c == group.cumulative
           is == group.individuals
           first == IF c = <<>> THEN s ELSE AckNow(s, {c}, "cumulative")
           named1 == IF c = <<>> THEN {} ELSE {c}
           covered1 == IF c = <<>> THEN {} ELSE UpTo(c)
<1>1. is \in SUBSET Ids /\ c \in Ids \cup {<<>>} BY DEF GroupTyped
<1>2. Flushed(s) = IF is = {} THEN first ELSE AckNow(first, is, "individual")
  BY DEF Flushed
<1>3. Named = is \cup named1 /\ Grouped(group) = is \cup covered1
  BY DEF Named, Grouped
<1>4. Advances(s, s, {}, {})
  BY DEF Advances, Sends, Stops
<1>5. Advances(s, first, named1, covered1)
  <2>1. CASE c = <<>> BY <1>4, <2>1
  <2>2. CASE c # <<>> BY <1>1, <2>2, AckNowCumulative
  <2> QED BY <2>1, <2>2
<1>6. first \in AckState BY <1>5 DEF Advances, Sends, Stops
<1> HIDE DEF first, named1, covered1, is
<1>7. CASE is = {}
  <2>1. Named = named1 /\ Grouped(group) = covered1 /\ Flushed(s) = first
    BY <1>2, <1>3, <1>7
  <2> QED BY <1>5, <2>1
<1>8. CASE is # {}
  <2>1. Advances(first, AckNow(first, is, "individual"), is, is)
    BY <1>1, <1>6, AckNowIndividual
  <2>2. Advances(s, AckNow(first, is, "individual"), named1 \cup is, covered1 \cup is)
    BY <1>5, <2>1, AdvancesCompose
  <2>3. Named = named1 \cup is /\ Grouped(group) = covered1 \cup is BY <1>3
  <2> QED BY <1>2, <1>8, <2>2, <2>3
<1> QED BY <1>7, <1>8

-----------------------------------------------------------------------------
(* The inductive invariant.                                                *)

Types ==
    /\ batch \in Partial /\ unacked \in Tracker /\ nacks \in SUBSET Ids
    /\ outbound \in Seq(Frame) /\ inbound \in Seq(Delivery)
    /\ GroupTyped
    /\ txn \in [t : Partial, seeded : SUBSET Entries, acks : SUBSET Ids,
                fate : Fates]
    /\ queue \in Seq(Ids) /\ held \in SUBSET Ids
    /\ done \in SUBSET Ids /\ settled \in SUBSET Ids
    /\ conn \in {"up", "lost", "reset", "closed"}
    /\ broker \in [attached : BOOLEAN, out : SUBSET Entries,
                   acked : [Entries -> SUBSET Nat], pending : SUBSET Ids]
    /\ \A e \in Entries : broker.acked[e] \subseteq Fresh(e)

\* The ids acked at the broker.
Landed == {p \in Ids : p[2] \in broker.acked[p[1]]}

\* Every place that an ack passes through holds only what the application has
\* acknowledged; a bitset that was narrowed by a delivery is such a place.
OverInv ==
    /\ Gone(batch) \cup AllCovered(ToSet(outbound)) \subseteq done
    /\ Gone(txn.t) \cup txn.acks \cup Grouped(group) \subseteq done
    /\ Landed \cup broker.pending \subseteq done
    /\ \A d \in ToSet(inbound) : \A i \in Fresh(d.entry) \ d.unacked :
         <<d.entry, i>> \in done

TimeInv ==
    exact => /\ Located(unacked)
                /\ settled \cap (Timed(unacked) \cup nacks) = {}

Subscribe == [op |-> "subscribe"]

\* The broker knows the consumer, or is about to, whenever it may take a frame;
\* nothing follows a close.
LinkInv ==
    /\ conn = "up" \/ (conn = "closed" /\ outbound # <<>>)
         => broker.attached \/ Subscribe \in ToSet(outbound)
    /\ conn \in {"lost", "reset"} => ~broker.attached
    /\ ~broker.attached => broker.out = {}
    /\ conn # "closed" => \A f \in ToSet(outbound) : f.op # "close"
    /\ conn = "closed" =>
         /\ group = NoneGrouped
         /\ \A i \in DOMAIN outbound : outbound[i].op = "close" => i = Len(outbound)

SettledInv ==
    /\ settled \subseteq Landed \cup Carried(outbound)
    /\ txn.fate = "committed" => txn.acks \subseteq Landed

Flying(D) == {p \in Ids : \E d \in D : d.entry = p[1] /\ p[2] \in d.unacked}

Outstanding ==
    {p \in Ids : p[1] \in broker.out /\ p[2] \notin broker.acked[p[1]]}

StrandInv ==
    Outstanding \subseteq
        Flying(ToSet(inbound)) \cup ToSet(queue) \cup held \cup nacks
          \cup Grouped(group) \cup broker.pending \cup Asked(ToSet(outbound))

IInv == Types /\ OverInv /\ TimeInv /\ LinkInv /\ SettledInv /\ StrandInv

-----------------------------------------------------------------------------
(* The initial states, and the facts every step uses.                      *)

LEMMA StateIs ==
    ASSUME Types
    PROVE  /\ State \in AckState
           /\ State.batch = batch /\ State.unacked = unacked
           /\ State.nacks = nacks /\ State.frames = outbound
BY DEF State, AckState, Types

LEMMA TxnFields ==
    ASSUME Types
    PROVE  /\ txn.t \in Partial /\ txn.seeded \in SUBSET Entries
           /\ txn.acks \in SUBSET Ids /\ txn.fate \in Fates
BY DEF Types

LEMMA BrokerFields ==
    ASSUME Types
    PROVE  /\ broker.attached \in BOOLEAN /\ broker.out \in SUBSET Entries
           /\ broker.acked \in [Entries -> SUBSET Nat]
           /\ broker.pending \in SUBSET Ids
BY DEF Types

LEMMA InitIInv == ASSUME Init PROVE IInv
<1>1. /\ <<>> \in Partial /\ <<>> \in Locator /\ DOMAIN <<>> = {}
  BY EmptyIsPartial DEF Locator
<1>2. /\ <<>> \in Seq(Bucket) /\ <<>> \in Seq(Frame) /\ <<>> \in Seq(Delivery)
      /\ <<>> \in Seq(Ids) /\ Len(<<>>) = 0
  BY EmptySeq
<1>3. ToSet(<<>>) = {} BY ToSetEmpty
<1>4. NoneTracked \in Tracker BY <1>1, <1>2 DEF NoneTracked, Tracker, Locator
<1>5. Located(NoneTracked) /\ Timed(NoneTracked) = {}
  BY <1>1, <1>2, <1>3 DEF NoneTracked, Located, Timed
<1>6. GroupTyped /\ Grouped(group) = {}
  BY DEF Init, GroupTyped, NoneGrouped, Grouped
<1>7. /\ txn \in [t : Partial, seeded : SUBSET Entries, acks : SUBSET Ids, fate : Fates]
      /\ txn.t = <<>> /\ txn.acks = {} /\ txn.fate = "open"
  BY <1>1 DEF Init, Fates
<1>8. /\ broker \in [attached : BOOLEAN, out : SUBSET Entries,
                     acked : [Entries -> SUBSET Nat], pending : SUBSET Ids]
      /\ broker.attached /\ broker.out = {} /\ broker.pending = {}
      /\ \A e \in Entries : broker.acked[e] = {}
  BY DEF Init
<1>9. Types BY <1>1, <1>2, <1>4, <1>6, <1>7, <1>8 DEF Types, Init
<1>10. Landed = {}
  BY <1>8, IdParts DEF Landed
<1>11. /\ Gone(<<>>) = {} /\ AllCovered({}) = {} /\ Outstanding = {}
  BY <1>1, <1>8 DEF Gone, AllCovered, Outstanding
<1>12. OverInv
  BY <1>3, <1>6, <1>7, <1>8, <1>10, <1>11 DEF OverInv, Init
<1>13. TimeInv BY <1>5 DEF TimeInv, Init
<1>14. LinkInv BY <1>3, <1>8 DEF LinkInv, Init
<1>15. SettledInv BY <1>7 DEF SettledInv, Init
<1>16. StrandInv BY <1>11 DEF StrandInv
<1> QED BY <1>9, <1>12, <1>13, <1>14, <1>15, <1>16 DEF IInv

\* A step that leaves the broker, the deliveries and the queue alone and moves
\* the client's record to n.
LEMMA ClientMoves ==
    ASSUME IInv, conn # "closed", NEW n \in AckState, Becomes(n),
           UNCHANGED <<queue, conn, inbound, broker>>,
           GroupTyped',
           txn' \in [t : Partial, seeded : SUBSET Entries, acks : SUBSET Ids,
                     fate : Fates],
           txn'.fate = txn.fate,
           txn.fate = "committed" => txn'.acks = txn.acks,
           held' \in SUBSET Ids, done' \in SUBSET Ids, settled' \in SUBSET Ids,
           done \subseteq done',
           Gone(n.batch) \cup AllCovered(ToSet(n.frames)) \subseteq done',
           Gone(txn'.t) \cup txn'.acks \cup Grouped(group') \subseteq done',
           exact' => /\ Located(n.unacked)
                     /\ settled' \cap (Timed(n.unacked) \cup n.nacks) = {},
           settled' \subseteq Landed \cup Carried(n.frames),
           nacks \cup Asked(ToSet(outbound))
              \subseteq n.nacks \cup Asked(ToSet(n.frames)),
           held \cup Grouped(group)
              \subseteq held' \cup Grouped(group') \cup n.nacks
                          \cup Asked(ToSet(n.frames)),
           ToSet(outbound) \subseteq ToSet(n.frames),
           \A f \in ToSet(n.frames) \ ToSet(outbound) : f.op # "close"
    PROVE  IInv'
<1>1. /\ batch' = n.batch /\ unacked' = n.unacked /\ nacks' = n.nacks
      /\ outbound' = n.frames
  BY DEF Becomes
<1>2. /\ n.batch \in Partial /\ n.unacked \in Tracker
      /\ n.nacks \subseteq Ids /\ n.frames \in Seq(Frame)
  BY StateFields
<1>3. Landed' = Landed /\ Outstanding' = Outstanding
  BY DEF Landed, Outstanding
<1>4. Types' BY <1>1, <1>2 DEF IInv, Types
<1>5. OverInv' BY <1>1, <1>3 DEF IInv, OverInv
<1>6. TimeInv' BY <1>1 DEF TimeInv
<1>7. LinkInv' BY <1>1 DEF IInv, LinkInv
<1>8. SettledInv'
  <2>1. settled' \subseteq Landed' \cup Carried(outbound') BY <1>1, <1>3
  <2>2. txn'.fate = "committed" => txn'.acks \subseteq Landed'
    BY <1>3 DEF IInv, SettledInv
  <2> QED BY <2>1, <2>2 DEF SettledInv
<1>9. StrandInv'
  <2>1. Outstanding \subseteq
          Flying(ToSet(inbound)) \cup ToSet(queue) \cup held \cup nacks
            \cup Grouped(group) \cup broker.pending \cup Asked(ToSet(outbound))
    BY DEF IInv, StrandInv
  <2>2. Outstanding \subseteq
          Flying(ToSet(inbound)) \cup ToSet(queue) \cup held' \cup n.nacks
            \cup Grouped(group') \cup broker.pending \cup Asked(ToSet(n.frames))
    BY <2>1
  <2> QED BY <1>1, <1>3, <2>2 DEF StrandInv
<1> QED BY <1>4, <1>5, <1>6, <1>7, <1>8, <1>9 DEF IInv

\* The same for a move described by Sends; Stops is needed while the locator is
\* right.
LEMMA SendMoves ==
    ASSUME IInv, conn # "closed", NEW n, NEW named \in SUBSET Ids, NEW covered,
           Sends(State, n, named, covered), Becomes(n),
           exact' => exact /\ Stops(State, n, named),
           UNCHANGED <<txn, queue, conn, inbound, broker>>,
           GroupTyped',
           held' \in SUBSET Ids, done' \in SUBSET Ids,
           done \cup covered \cup Grouped(group') \subseteq done',
           settled' = settled \cup named,
           held \cup Grouped(group) \subseteq held' \cup Grouped(group') \cup covered
                                               \cup Asked(ToSet(n.frames))
    PROVE  IInv'
<1>1. /\ State \in AckState
      /\ State.batch = batch /\ State.unacked = unacked
      /\ State.nacks = nacks /\ State.frames = outbound
  BY StateIs DEF IInv
<1>2. n \in AckState BY DEF Sends, Stops
<1>3. Gone(n.batch) \cup AllCovered(ToSet(n.frames)) \subseteq done'
  BY <1>1 DEF Sends, Stops, IInv, OverInv
<1>4. Gone(txn'.t) \cup txn'.acks \cup Grouped(group') \subseteq done'
  BY DEF IInv, OverInv
<1>5. exact' => /\ Located(n.unacked)
                /\ settled' \cap (Timed(n.unacked) \cup n.nacks) = {}
  BY <1>1 DEF Sends, Stops, IInv, TimeInv
<1>6. settled' \subseteq Landed \cup Carried(n.frames)
  BY <1>1 DEF Sends, Stops, IInv, SettledInv
<1>7. /\ nacks \cup Asked(ToSet(outbound)) \cup covered
           \subseteq n.nacks \cup Asked(ToSet(n.frames))
      /\ ToSet(outbound) \subseteq ToSet(n.frames)
      /\ \A f \in ToSet(n.frames) \ ToSet(outbound) : f.op # "close"
  BY <1>1 DEF Sends, Stops
<1>8. held \cup Grouped(group)
        \subseteq held' \cup Grouped(group') \cup n.nacks \cup Asked(ToSet(n.frames))
  BY <1>7
<1>9. /\ txn' \in [t : Partial, seeded : SUBSET Entries, acks : SUBSET Ids,
                   fate : Fates]
      /\ txn'.fate = txn.fate /\ txn'.acks = txn.acks
      /\ settled' \in SUBSET Ids
  BY DEF IInv, Types
<1>10. done \subseteq done' OBVIOUS
<1> QED BY <1>2, <1>3, <1>4, <1>5, <1>6, <1>7, <1>8, <1>9, <1>10, ClientMoves

LEMMA AckMoves ==
    ASSUME IInv, conn # "closed", NEW n, NEW named \in SUBSET Ids, NEW covered,
           Advances(State, n, named, covered), Becomes(n),
           UNCHANGED <<txn, queue, conn, inbound, broker, exact>>,
           GroupTyped',
           held' \in SUBSET Ids, done' \in SUBSET Ids,
           done \cup covered \cup Grouped(group') \subseteq done',
           settled' = settled \cup named,
           held \cup Grouped(group) \subseteq held' \cup Grouped(group') \cup covered
                                               \cup Asked(ToSet(n.frames))
    PROVE  IInv'
BY SendMoves DEF Advances

-----------------------------------------------------------------------------
(* The application's acks.                                                 *)

LEMMA AckKeeps ==
    ASSUME IInv, NEW ids, Ack(ids)
    PROVE  IInv'
<1> DEFINE n == AckNow(State, ids, "individual")
<1>1. /\ conn # "closed" /\ ids \subseteq held /\ Becomes(n)
      /\ held' = held \ ids /\ done' = done \cup ids /\ settled' = settled \cup ids
      /\ UNCHANGED <<txn, queue, conn, inbound, broker, exact>>
      /\ group' = group
  BY DEF Ack
<1>2. Types /\ held \subseteq Ids /\ done \subseteq Ids BY DEF IInv, Types
<1>3. ids \in SUBSET Ids BY <1>1, <1>2
<1>4. Advances(State, n, ids, ids) BY <1>2, <1>3, StateIs, AckNowIndividual
<1> HIDE DEF n
<1>5. GroupTyped' BY <1>1, <1>2 DEF Types, GroupTyped
<1>6. Grouped(group) \subseteq done BY DEF IInv, OverInv
<1> QED BY <1>1, <1>2, <1>3, <1>4, <1>5, <1>6, AckMoves

LEMMA AckCumulativeKeeps ==
    ASSUME IInv, NEW id, AckCumulativeNow(id)
    PROVE  IInv'
<1> DEFINE n == AckNow(State, {id}, "cumulative")
<1>1. /\ conn # "closed" /\ id \in held /\ Becomes(n)
      /\ held' = held \ UpTo(id) /\ done' = done \cup UpTo(id)
      /\ settled' = settled \cup {id}
      /\ UNCHANGED <<txn, queue, conn, inbound, broker, exact>>
      /\ group' = group
  BY DEF AckCumulativeNow
<1>2. Types /\ held \subseteq Ids /\ done \subseteq Ids BY DEF IInv, Types
<1>3. id \in Ids /\ {id} \in SUBSET Ids BY <1>1, <1>2
<1>4. Advances(State, n, {id}, UpTo(id)) BY <1>2, <1>3, StateIs, AckNowCumulative
<1>5. UpTo(id) \subseteq Ids BY DEF UpTo
<1> HIDE DEF n
<1>6. GroupTyped' BY <1>1, <1>2 DEF Types, GroupTyped
<1>7. Grouped(group) \subseteq done BY DEF IInv, OverInv
<1> DEFINE named == {id}
<1> HIDE DEF named
<1>8. named \in SUBSET Ids /\ Advances(State, n, named, UpTo(id))
      /\ settled' = settled \cup named
  BY <1>1, <1>3, <1>4 DEF named
<1> QED BY <1>1, <1>2, <1>5, <1>6, <1>7, <1>8, AckMoves

LEMMA StandingStill ==
    ASSUME Types, UNCHANGED <<batch, unacked, nacks, outbound>>
    PROVE  Advances(State, State, {}, {}) /\ Becomes(State)
<1>1. State \in AckState BY StateIs
<1>2. Advances(State, State, {}, {}) BY <1>1 DEF Advances, Sends, Stops
<1>3. Becomes(State) BY StateIs DEF Becomes
<1> QED BY <1>2, <1>3

LEMMA GroupGrows ==
    ASSUME NEW g \in [individuals : SUBSET Ids, cumulative : Ids \cup {<<>>}],
           NEW id \in Ids
    PROVE  /\ AddIndividual(g, id)
                \in [individuals : SUBSET Ids, cumulative : Ids \cup {<<>>}]
           /\ Grouped(AddIndividual(g, id)) = Grouped(g) \cup {id}
           /\ AddCumulative(g, id)
                \in [individuals : SUBSET Ids, cumulative : Ids \cup {<<>>}]
           /\ Grouped(AddCumulative(g, id)) = Grouped(g) \cup UpTo(id)
<1>1. /\ AddIndividual(g, id)
           \in [individuals : SUBSET Ids, cumulative : Ids \cup {<<>>}]
      /\ Grouped(AddIndividual(g, id)) = Grouped(g) \cup {id}
  BY DEF AddIndividual, Grouped
<1> DEFINE h == AddCumulative(g, id)
           c == g.cumulative
<1>2. /\ h \in [individuals : SUBSET Ids, cumulative : Ids \cup {<<>>}]
      /\ h.individuals = g.individuals
      /\ h.cumulative = IF c = <<>> \/ ~Leq(id, c) THEN id ELSE c
  BY DEF AddCumulative
<1>3. id # <<>>
  <2>1. id = <<id[1], id[2]>> BY IdParts
  <2> QED BY <2>1
<1>4. CASE c = <<>>
  <2>1. h.cumulative = id BY <1>2, <1>4
  <2> QED BY <1>1, <1>2, <1>3, <1>4, <2>1 DEF Grouped
<1>5. CASE c # <<>> /\ Leq(id, c)
  <2>1. h.cumulative = c BY <1>2, <1>5
  <2>2. c \in Ids BY <1>5
  <2>3. ASSUME NEW p \in UpTo(id) PROVE p \in UpTo(c)
    BY <1>5, <2>2, <2>3, IdParts DEF UpTo, Leq
  <2> QED BY <1>1, <1>2, <1>5, <2>1, <2>3 DEF Grouped
<1>6. CASE c # <<>> /\ ~Leq(id, c)
  <2>1. h.cumulative = id BY <1>2, <1>6
  <2>2. c \in Ids BY <1>6
  <2>3. ASSUME NEW p \in UpTo(c) PROVE p \in UpTo(id)
    BY <1>6, <2>2, <2>3, IdParts DEF UpTo, Leq
  <2> QED BY <1>1, <1>2, <1>3, <1>6, <2>1, <2>3 DEF Grouped
<1> QED BY <1>4, <1>5, <1>6

LEMMA GroupedAckKeeps ==
    ASSUME IInv, NEW id, AckGroupedIndividual(id) \/ AckGroupedCumulative(id)
    PROVE  IInv'
<1>1. /\ conn # "closed" /\ id \in held
      /\ settled' = settled
      /\ UNCHANGED <<batch, unacked, nacks, outbound>>
      /\ UNCHANGED <<txn, queue, conn, inbound, broker, exact>>
  BY DEF AckGroupedIndividual, AckGroupedCumulative, wire
<1>2. /\ Types /\ held \subseteq Ids /\ done \subseteq Ids
      /\ group \in [individuals : SUBSET Ids, cumulative : Ids \cup {<<>>}]
  BY DEF IInv, Types, GroupTyped
<1>3. id \in Ids BY <1>1, <1>2
<1>4. PICK T : /\ T \in {{id}, UpTo(id)}
               /\ held' = held \ T /\ done' = done \cup T
               /\ group' \in [individuals : SUBSET Ids, cumulative : Ids \cup {<<>>}]
               /\ Grouped(group') = Grouped(group) \cup T
  <2>1. CASE AckGroupedIndividual(id)
    <3>1. /\ group' = AddIndividual(group, id)
          /\ held' = held \ {id} /\ done' = done \cup {id}
      BY <2>1 DEF AckGroupedIndividual
    <3>2. WITNESS {id}
    <3> QED BY <1>2, <1>3, <3>1, GroupGrows
  <2>2. CASE AckGroupedCumulative(id)
    <3>1. /\ group' = AddCumulative(group, id)
          /\ held' = held \ UpTo(id) /\ done' = done \cup UpTo(id)
      BY <2>2 DEF AckGroupedCumulative
    <3>2. WITNESS UpTo(id)
    <3> QED BY <1>2, <1>3, <3>1, GroupGrows
  <2> QED BY <2>1, <2>2
<1>5. T \subseteq Ids BY <1>3, <1>4 DEF UpTo
<1>6. Advances(State, State, {}, {}) /\ Becomes(State) BY <1>1, <1>2, StandingStill
<1>7. GroupTyped' BY <1>4 DEF GroupTyped
<1>8. Grouped(group) \subseteq done BY DEF IInv, OverInv
<1>9. /\ held' \in SUBSET Ids /\ done' \in SUBSET Ids
      /\ done \cup {} \cup Grouped(group') \subseteq done'
      /\ settled' = settled \cup {}
      /\ held \cup Grouped(group) \subseteq held' \cup Grouped(group') \cup {}
                                         \cup Asked(ToSet(State.frames))
  BY <1>1, <1>2, <1>4, <1>5, <1>8
<1>10. {} \in SUBSET Ids OBVIOUS
<1> QED BY <1>1, <1>6, <1>7, <1>9, <1>10, AckMoves

LEMMA RedeliverFrame ==
    ASSUME NEW S \in SUBSET Ids
    PROVE  /\ Redeliver(S) \in Frame /\ Redeliver(S).op = "redeliver"
           /\ Redeliver(S).ids = S /\ "redeliver" \notin AckOps
BY DEF Redeliver, Frame, AckOps

\* One more request for redelivery.
LEMMA RedeliverAdded ==
    ASSUME NEW S \in SUBSET Ids, NEW g \in Seq(Frame), NEW h \in Seq(Frame),
           ToSet(h) = ToSet(g) \cup {Redeliver(S)}
    PROVE  /\ AllCovered(ToSet(h)) = AllCovered(ToSet(g))
           /\ Carried(h) = Carried(g)
           /\ Asked(ToSet(g)) \cup S \subseteq Asked(ToSet(h))
<1> DEFINE f == Redeliver(S)
<1>1. /\ f \in Frame /\ f.op = "redeliver" /\ f.ids = S /\ "redeliver" \notin AckOps
  BY RedeliverFrame
<1> HIDE DEF f
<1>2. ToSet(h) = ToSet(g) \cup {f} BY DEF f
<1>3. f.op \notin AckOps /\ f.op \notin {"individual", "cumulative"} BY <1>1
<1>4. AllCovered(ToSet(h)) = AllCovered(ToSet(g)) BY <1>2, <1>3 DEF AllCovered
<1>5. Carried(h) = Carried(g) BY <1>1, <1>2, <1>3, OneMoreFrame
<1>6. Asked(ToSet(g)) \subseteq Asked(ToSet(h)) BY <1>1, <1>2, OneMoreFrame
<1>7. S \subseteq Asked(ToSet(h)) BY <1>1, <1>2, OneMoreFrame
<1> QED BY <1>4, <1>5, <1>6, <1>7

LEMMA NegativeAckKeeps ==
    ASSUME IInv, NEW id, NegativeAck(id)
    PROVE  IInv'
<1> DEFINE v == Untrack(unacked, {id})
           f == Redeliver({id})
           n == [batch |-> batch, unacked |-> v, nacks |-> nacks', frames |-> outbound']
<1>1. /\ conn # "closed" /\ id \in held
      /\ unacked' = v /\ batch' = batch
      /\ held' = held \ {id} /\ settled' = settled \ {id} /\ done' = done
      /\ UNCHANGED <<queue, conn, inbound, broker, exact>>
      /\ group' = group /\ txn' = txn
      /\ \/ nacks' = nacks \cup {id} /\ outbound' = outbound
         \/ nacks' = nacks /\ outbound' = Append(outbound, f)
  BY DEF NegativeAck
<1>2. /\ Types /\ held \subseteq Ids /\ done \subseteq Ids /\ settled \subseteq Ids
      /\ unacked \in Tracker /\ batch \in Partial /\ nacks \subseteq Ids
      /\ outbound \in Seq(Frame)
  BY DEF IInv, Types
<1>3. id \in Ids /\ {id} \in SUBSET Ids BY <1>1, <1>2
<1>4. /\ v \in Tracker
      /\ Located(unacked) => Located(v) /\ Timed(v) \subseteq Timed(unacked) \ {id}
  BY <1>2, <1>3, UntrackFacts
<1>5. /\ outbound' \in Seq(Frame) /\ nacks' \subseteq Ids
      /\ AllCovered(ToSet(outbound')) = AllCovered(ToSet(outbound))
      /\ Carried(outbound') = Carried(outbound)
      /\ nacks \cup Asked(ToSet(outbound)) \cup {id}
           \subseteq nacks' \cup Asked(ToSet(outbound'))
      /\ ToSet(outbound) \subseteq ToSet(outbound')
      /\ \A g \in ToSet(outbound') \ ToSet(outbound) : g.op # "close"
      /\ nacks' \subseteq nacks \cup {id}
  <2>1. CASE nacks' = nacks \cup {id} /\ outbound' = outbound
    BY <1>2, <1>3, <2>1
  <2>2. CASE nacks' = nacks /\ outbound' = Append(outbound, f)
    <3>1. f \in Frame /\ f.op = "redeliver" BY <1>3, RedeliverFrame
    <3>2. outbound' \in Seq(Frame) /\ ToSet(outbound') = ToSet(outbound) \cup {f}
      BY ZenonT(60), <1>2, <2>2, <3>1, ToSetAppend
    <3>3. /\ AllCovered(ToSet(outbound')) = AllCovered(ToSet(outbound))
          /\ Carried(outbound') = Carried(outbound)
          /\ Asked(ToSet(outbound)) \cup {id} \subseteq Asked(ToSet(outbound'))
      <4> DEFINE S == {id}
      <4>1. S \in SUBSET Ids /\ ToSet(outbound') = ToSet(outbound) \cup {Redeliver(S)}
        BY <1>3, <3>2
      <4> HIDE DEF S
      <4>2. /\ AllCovered(ToSet(outbound')) = AllCovered(ToSet(outbound))
            /\ Carried(outbound') = Carried(outbound)
            /\ Asked(ToSet(outbound)) \cup S \subseteq Asked(ToSet(outbound'))
        BY <1>2, <3>2, <4>1, RedeliverAdded
      <4> QED BY <4>2 DEF S
    <3> QED BY <1>2, <2>2, <3>1, <3>2, <3>3
  <2> QED BY <1>1, <2>1, <2>2
<1>6. /\ n \in AckState /\ n.batch = batch /\ n.unacked = v
      /\ n.nacks = nacks' /\ n.frames = outbound'
  BY <1>2, <1>4, <1>5 DEF AckState
<1>7. Becomes(n) BY <1>1, <1>6 DEF Becomes
<1> HIDE DEF n, v, f
<1>8. Gone(n.batch) \cup AllCovered(ToSet(n.frames)) \subseteq done'
  BY <1>1, <1>5, <1>6 DEF IInv, OverInv
<1>9. Gone(txn'.t) \cup txn'.acks \cup Grouped(group') \subseteq done'
  BY <1>1 DEF IInv, OverInv
<1>10. exact => /\ Located(n.unacked)
                   /\ settled' \cap (Timed(n.unacked) \cup n.nacks) = {}
  BY <1>1, <1>4, <1>5, <1>6 DEF IInv, TimeInv
<1>11. settled' \subseteq Landed \cup Carried(n.frames)
  BY <1>1, <1>5, <1>6 DEF IInv, SettledInv
<1>12. /\ nacks \cup Asked(ToSet(outbound)) \subseteq n.nacks \cup Asked(ToSet(n.frames))
       /\ held \cup Grouped(group)
            \subseteq held' \cup Grouped(group') \cup n.nacks \cup Asked(ToSet(n.frames))
       /\ ToSet(outbound) \subseteq ToSet(n.frames)
       /\ \A g \in ToSet(n.frames) \ ToSet(outbound) : g.op # "close"
  BY <1>1, <1>5, <1>6
<1>13. /\ GroupTyped'
       /\ txn' \in [t : Partial, seeded : SUBSET Entries, acks : SUBSET Ids,
                    fate : Fates]
       /\ txn'.fate = txn.fate /\ txn'.acks = txn.acks
       /\ held' \in SUBSET Ids /\ done' \in SUBSET Ids /\ settled' \in SUBSET Ids
       /\ done \subseteq done'
  BY <1>1, <1>2 DEF Types, GroupTyped
<1> QED BY <1>1, <1>6, <1>7, <1>8, <1>9, <1>10, <1>11, <1>12, <1>13, ClientMoves

LEMMA RedeliverAllKeeps ==
    ASSUME IInv, RedeliverAll
    PROVE  IInv'
<1> DEFINE f == Redeliver(Ids)
           n == [State EXCEPT !.frames = Append(@, f)]
<1>1. /\ conn # "closed" /\ outbound' = Append(outbound, f) /\ held' = {}
      /\ UNCHANGED <<batch, unacked, nacks, group, done, settled>>
      /\ UNCHANGED <<txn, queue, conn, inbound, broker, exact>>
  BY DEF RedeliverAll, client
<1>2. /\ Types /\ held \subseteq Ids /\ done \subseteq Ids
      /\ outbound \in Seq(Frame)
  BY DEF IInv, Types
<1>3. f \in Frame /\ f.op = "redeliver" BY RedeliverFrame
<1>4. /\ State \in AckState
      /\ State.batch = batch /\ State.unacked = unacked
      /\ State.nacks = nacks /\ State.frames = outbound
  BY <1>2, StateIs
<1> HIDE DEF f
<1>5. /\ n \in AckState /\ n.batch = batch /\ n.unacked = unacked
      /\ n.nacks = nacks /\ n.frames = outbound'
      /\ ToSet(n.frames) = ToSet(outbound) \cup {f}
  BY <1>1, <1>3, <1>4, AppendFrame
<1>6. n.frames \in Seq(Frame) BY <1>5, StateFields
<1> HIDE DEF n
<1>7. /\ AllCovered(ToSet(n.frames)) = AllCovered(ToSet(outbound))
      /\ Carried(n.frames) = Carried(outbound)
      /\ Asked(ToSet(outbound)) \cup Ids \subseteq Asked(ToSet(n.frames))
  <2>1. Ids \in SUBSET Ids OBVIOUS
  <2> QED BY <1>2, <1>5, <1>6, <2>1, RedeliverAdded DEF f
<1>8. Advances(State, n, {}, {})
  BY <1>3, <1>4, <1>5, <1>7 DEF Advances, Sends, Stops
<1>9. Becomes(n) BY <1>1, <1>5 DEF Becomes
<1>10. Grouped(group) \subseteq done BY DEF IInv, OverInv
<1>11. /\ held' \in SUBSET Ids /\ done' \in SUBSET Ids /\ GroupTyped'
       /\ done \cup {} \cup Grouped(group') \subseteq done'
       /\ settled' = settled \cup {}
       /\ held \cup Grouped(group) \subseteq held' \cup Grouped(group') \cup {}
                                          \cup Asked(ToSet(n.frames))
  BY <1>1, <1>2, <1>7, <1>10 DEF Types, GroupTyped
<1>12. {} \in SUBSET Ids OBVIOUS
<1> QED BY <1>1, <1>8, <1>9, <1>11, <1>12, AckMoves

-----------------------------------------------------------------------------
(* Transactions.                                                           *)

LEMMA AckInTransactionKeeps ==
    ASSUME IInv, NEW id, AckInTransaction(id)
    PROVE  IInv'
<1> DEFINE e == id[1]
           seed == IF id[2] # 0 /\ e \notin txn.seeded /\ e \in DOMAIN batch
                   THEN [x \in DOMAIN txn.t \cup {e} |->
                           IF x = e THEN batch[e] ELSE txn.t[x]]
                   ELSE txn.t
           ids == {id}
           r == ApplyBatchAckState(seed, ids, "individual")
           f == AckFrame("transactional", r.sent)
           n == [State EXCEPT !.frames = Append(@, f)]
<1>1. /\ conn # "closed" /\ txn.fate = "open" /\ id \in held
      /\ txn' = [txn EXCEPT !.t = r.t, !.seeded = @ \cup {e}, !.acks = @ \cup ids]
      /\ outbound' = Append(outbound, f)
      /\ held' = held \ ids /\ done' = done \cup ids
      /\ UNCHANGED <<batch, unacked, nacks, group, settled>>
      /\ UNCHANGED <<queue, conn, inbound, broker, exact>>
  BY DEF AckInTransaction
<1>2. /\ Types /\ held \subseteq Ids /\ done \subseteq Ids /\ settled \subseteq Ids
      /\ outbound \in Seq(Frame) /\ batch \in Partial
  BY DEF IInv, Types
<1>3. id \in Ids /\ ids \in SUBSET Ids /\ e \in Entries BY <1>1, <1>2, IdParts
<1>4. /\ txn.t \in Partial /\ txn.seeded \in SUBSET Entries
      /\ txn.acks \in SUBSET Ids /\ txn.fate \in Fates
  BY <1>2, TxnFields
<1>5. seed \in Partial /\ Gone(seed) \subseteq Gone(batch) \cup Gone(txn.t)
  <2>1. CASE ~(id[2] # 0 /\ e \notin txn.seeded /\ e \in DOMAIN batch)
    <3>1. seed = txn.t BY <2>1
    <3> QED BY <1>4, <3>1
  <2>2. CASE id[2] # 0 /\ e \notin txn.seeded /\ e \in DOMAIN batch
    <3> DEFINE D == DOMAIN txn.t \cup {e}
    <3>1. seed = [x \in D |-> IF x = e THEN batch[e] ELSE txn.t[x]] BY <2>2
    <3>2. /\ DOMAIN txn.t \subseteq Entries
          /\ \A x \in DOMAIN txn.t : txn.t[x] \subseteq Fresh(x)
          /\ batch[e] \subseteq Fresh(e)
      BY <1>2, <1>4, <2>2 DEF Partial
    <3>3. \A x \in Entries : Fresh(x) \subseteq Nat BY FreshIsNat
    <3> HIDE DEF seed, e
    <3>4. /\ DOMAIN seed = D /\ D \in SUBSET Entries
          /\ \A x \in D : seed[x] = IF x = e THEN batch[e] ELSE txn.t[x]
      BY <1>3, <3>1, <3>2
    <3>5. \A x \in D : seed[x] \subseteq Fresh(x) /\ seed[x] \in SUBSET Nat
      BY <1>3, <3>2, <3>3, <3>4
    <3>6. seed \in [D -> SUBSET Nat] BY <3>1, <3>4, <3>5
    <3>7. seed \in Partial BY <3>4, <3>5, <3>6 DEF Partial
    <3>8. Gone(seed) \subseteq Gone(batch) \cup Gone(txn.t)
      BY <2>2, <3>4 DEF Gone
    <3> QED BY <3>7, <3>8
  <2> QED BY <2>1, <2>2
<1> HIDE DEF seed, ids
<1>6. /\ r.t \in Partial /\ f \in Frame /\ f.op = "transactional"
      /\ Covers(f) \subseteq Gone(seed) \cup ids
      /\ ids \subseteq Covers(f)
      /\ Gone(r.t) \subseteq Gone(seed) \cup ids
  BY <1>3, <1>5, IndividualAck
<1>7. /\ State \in AckState
      /\ State.batch = batch /\ State.unacked = unacked
      /\ State.nacks = nacks /\ State.frames = outbound
  BY <1>2, StateIs
<1> HIDE DEF r, f
<1>8. /\ n \in AckState /\ n.batch = batch /\ n.unacked = unacked
      /\ n.nacks = nacks /\ n.frames = outbound'
      /\ ToSet(n.frames) = ToSet(outbound) \cup {f}
  BY <1>1, <1>6, <1>7, AppendFrame
<1> HIDE DEF n
<1>9. n.frames \in Seq(Frame) BY <1>8, StateFields
<1>10. /\ AllCovered(ToSet(n.frames)) = AllCovered(ToSet(outbound)) \cup Covers(f)
       /\ Covers(f) \cap Ids \subseteq Asked(ToSet(n.frames))
  <2>1. f.op \in AckOps BY <1>6 DEF AckOps
  <2> QED BY <1>2, <1>6, <1>8, <1>9, <2>1, OneMoreFrame
<1>11. Carried(n.frames) = Carried(outbound)
  <2>1. f.op \notin {"individual", "cumulative"} BY <1>6
  <2> QED BY <1>2, <1>6, <1>8, <1>9, <2>1, OneMoreFrame
<1>12. Asked(ToSet(outbound)) \subseteq Asked(ToSet(n.frames))
  BY <1>2, <1>6, <1>8, <1>9, OneMoreFrame
<1>13. /\ txn' \in [t : Partial, seeded : SUBSET Entries, acks : SUBSET Ids,
                    fate : Fates]
       /\ txn'.t = r.t /\ txn'.acks = txn.acks \cup ids /\ txn'.fate = txn.fate
  BY <1>1, <1>2, <1>3, <1>6 DEF Types
<1>14. /\ Gone(batch) \cup AllCovered(ToSet(outbound)) \subseteq done
       /\ Gone(txn.t) \cup txn.acks \cup Grouped(group) \subseteq done
  BY DEF IInv, OverInv
<1>15. Gone(n.batch) \cup AllCovered(ToSet(n.frames)) \subseteq done'
  BY <1>1, <1>5, <1>6, <1>8, <1>10, <1>14
<1>16. Gone(txn'.t) \cup txn'.acks \cup Grouped(group') \subseteq done'
  BY <1>1, <1>5, <1>6, <1>13, <1>14
<1>17. exact => /\ Located(n.unacked)
                   /\ settled' \cap (Timed(n.unacked) \cup n.nacks) = {}
  BY <1>1, <1>8 DEF IInv, TimeInv
<1>18. settled' \subseteq Landed \cup Carried(n.frames)
  BY <1>1, <1>11 DEF IInv, SettledInv
<1>19. /\ nacks \cup Asked(ToSet(outbound)) \subseteq n.nacks \cup Asked(ToSet(n.frames))
       /\ held \cup Grouped(group)
            \subseteq held' \cup Grouped(group') \cup n.nacks \cup Asked(ToSet(n.frames))
       /\ ToSet(outbound) \subseteq ToSet(n.frames)
       /\ \A g \in ToSet(n.frames) \ ToSet(outbound) : g.op # "close"
  BY <1>1, <1>2, <1>3, <1>6, <1>8, <1>10, <1>12
<1>20. /\ GroupTyped' /\ Becomes(n)
       /\ held' \in SUBSET Ids /\ done' \in SUBSET Ids /\ settled' \in SUBSET Ids
       /\ done \subseteq done'
       /\ txn.fate = "committed" => txn'.acks = txn.acks
  BY <1>1, <1>2, <1>3, <1>8 DEF Types, GroupTyped, Becomes
<1> QED
  BY <1>1, <1>8, <1>13, <1>15, <1>16, <1>17, <1>18, <1>19, <1>20, ClientMoves

\* Only the broker and the fate of the transaction move.
LEMMA EndTransactionKeeps ==
    ASSUME IInv, NEW fate \in {"committed", "aborted"}, EndTransaction(fate)
    PROVE  IInv'
<1> DEFINE acked == [e \in Entries |-> broker.acked[e] \cup
                       {i \in Fresh(e) : <<e, i>> \in broker.pending}]
<1>1. /\ txn.fate = "open"
      /\ fate = "committed" =>
           \A p \in txn.acks : p \in broker.pending \/ p[2] \in broker.acked[p[1]]
      /\ txn' = [txn EXCEPT !.fate = fate]
      /\ broker' =
           IF fate = "aborted"
           THEN [broker EXCEPT !.pending = {},
                               !.out = {e \in @ : ~ \E p \in broker.pending : p[1] = e}]
           ELSE [broker EXCEPT !.pending = {}, !.acked = acked,
                               !.out = {e \in @ : acked[e] # Fresh(e)}]
      /\ UNCHANGED <<batch, unacked, nacks, group, queue, held, done, settled,
                     exact, conn, outbound, inbound>>
  BY DEF EndTransaction, app, wire
<1>2. Types BY DEF IInv
<1>3. /\ broker \in [attached : BOOLEAN, out : SUBSET Entries,
                     acked : [Entries -> SUBSET Nat], pending : SUBSET Ids]
      /\ \A e \in Entries : broker.acked[e] \subseteq Fresh(e)
  BY <1>2 DEF Types
<1>4. /\ acked \in [Entries -> SUBSET Nat]
      /\ \A e \in Entries : /\ acked[e] \subseteq Fresh(e)
                            /\ broker.acked[e] \subseteq acked[e]
                            /\ \A i \in Fresh(e) : i \in acked[e] <=>
                                 i \in broker.acked[e] \/ <<e, i>> \in broker.pending
  BY <1>3, FreshIsNat
<1> HIDE DEF acked
<1>5. /\ txn' \in [t : Partial, seeded : SUBSET Entries, acks : SUBSET Ids,
                   fate : Fates]
      /\ txn'.t = txn.t /\ txn'.acks = txn.acks /\ txn'.fate = fate
  BY <1>1, <1>2 DEF Types, Fates
<1>6. /\ broker' \in [attached : BOOLEAN, out : SUBSET Entries,
                      acked : [Entries -> SUBSET Nat], pending : SUBSET Ids]
      /\ broker'.attached = broker.attached /\ broker'.pending = {}
      /\ broker'.out \subseteq broker.out
      /\ \A e \in Entries : broker'.acked[e] \subseteq Fresh(e)
  <2>1. CASE fate = "aborted" BY <1>1, <1>3, <2>1
  <2>2. CASE fate = "committed" BY <1>1, <1>3, <1>4, <2>2
  <2> QED BY <2>1, <2>2
<1>7. \A p \in Ids : p \in Landed' =>
        p \in Landed \/ (fate = "committed" /\ p \in broker.pending)
  <2>1. CASE fate = "aborted"
    <3>1. broker'.acked = broker.acked BY <1>1, <1>3, <2>1
    <3> QED BY <3>1 DEF Landed
  <2>2. CASE fate = "committed"
    <3>1. broker'.acked = acked BY <1>1, <1>3, <2>2
    <3> QED BY <1>4, <2>2, <3>1, IdParts DEF Landed
  <2> QED BY <2>1, <2>2
<1>8. Landed \subseteq Landed'
  <2>1. CASE fate = "aborted"
    <3>1. broker'.acked = broker.acked BY <1>1, <1>3, <2>1
    <3> QED BY <3>1 DEF Landed
  <2>2. CASE fate = "committed"
    <3>1. broker'.acked = acked BY <1>1, <1>3, <2>2
    <3> QED BY <1>4, <3>1, IdParts DEF Landed
  <2> QED BY <2>1, <2>2
<1>9. fate = "committed" => broker.pending \subseteq Landed'
  <2>1. ASSUME fate = "committed", NEW p \in broker.pending PROVE p \in Landed'
    <3>1. broker'.acked = acked BY <1>1, <1>3, <2>1
    <3>2. p \in Ids /\ p = <<p[1], p[2]>> /\ p[1] \in Entries /\ p[2] \in Fresh(p[1])
      BY <1>3, IdParts
    <3>3. p[2] \in acked[p[1]] BY SMTT(40), <1>4, <2>1, <3>2
    <3> QED BY <3>1, <3>2, <3>3 DEF Landed
  <2> QED BY <2>1
<1>10. Types' BY <1>1, <1>2, <1>5, <1>6 DEF Types, GroupTyped
<1>11. OverInv'
  <2>1. Landed' \subseteq done' BY <1>1, <1>3, <1>7 DEF IInv, OverInv, Landed
  <2> QED BY <1>1, <1>5, <1>6, <2>1 DEF IInv, OverInv
<1>12. TimeInv' BY SMTT(40), <1>1 DEF IInv, TimeInv
<1>13. LinkInv' BY <1>1, <1>3, <1>6 DEF IInv, LinkInv
<1>14. SettledInv'
  <2>1. settled' \subseteq Landed' \cup Carried(outbound')
    BY <1>1, <1>8 DEF IInv, SettledInv
  <2>2. fate = "committed" => txn.acks \subseteq Landed'
    <3>1. \A p \in txn.acks : p \in Ids BY <1>2, TxnFields
    <3>2. fate = "committed" => txn.acks \subseteq broker.pending \cup Landed
      BY <1>1, <3>1 DEF Landed
    <3> QED BY <1>8, <1>9, <3>2
  <2> QED BY <1>5, <2>1, <2>2 DEF SettledInv
<1>15. StrandInv'
  <2> DEFINE Rest0 == Flying(ToSet(inbound)) \cup ToSet(queue) \cup held \cup nacks
                        \cup Grouped(group) \cup Asked(ToSet(outbound))
  <2>1. Outstanding \subseteq Rest0 \cup broker.pending
    BY DEF IInv, StrandInv
  <2>2. ASSUME NEW p \in Outstanding' PROVE p \in Outstanding /\ p \notin broker.pending
    <3>1. p \in Ids /\ p[1] \in broker'.out /\ p \notin Landed'
      BY DEF Outstanding, Landed
    <3>2. p \in Outstanding BY <1>6, <1>8, <3>1 DEF Outstanding, Landed
    <3>3. CASE fate = "aborted"
      <4>1. broker'.out = {e \in broker.out : ~ \E q \in broker.pending : q[1] = e}
        BY <1>1, <1>3, <3>3
      <4> QED BY <3>1, <3>2, <4>1
    <3>4. CASE fate = "committed" BY <1>9, <3>1, <3>2, <3>4
    <3> QED BY <3>3, <3>4
  <2>3. Outstanding' \subseteq Rest0 BY <2>1, <2>2
  <2> HIDE DEF Rest0
  <2>4. Rest0 \subseteq
          Flying(ToSet(inbound')) \cup ToSet(queue') \cup held' \cup nacks'
            \cup Grouped(group') \cup broker'.pending \cup Asked(ToSet(outbound'))
    BY <1>1 DEF Rest0
  <2> QED BY <2>3, <2>4 DEF StrandInv
<1> QED BY <1>10, <1>11, <1>12, <1>13, <1>14, <1>15 DEF IInv

LEMMA SettleTransactionKeeps ==
    ASSUME IInv, SettleTransaction
    PROVE  IInv'
<1> DEFINE s == ApplyLocal(State, txn.acks, "individual")
           b == ApplyBatchAckState(batch, txn.acks, "individual").t
<1>1. /\ txn.fate \in {"committed", "aborted"}
      /\ txn' = [t |-> <<>>, seeded |-> {}, acks |-> {}, fate |-> "over"]
      /\ UNCHANGED <<group, queue, held, done, conn, outbound, inbound, broker,
                     exact>>
  BY DEF SettleTransaction, wire
<1>2. /\ Types /\ batch \in Partial /\ unacked \in Tracker /\ nacks \subseteq Ids
      /\ txn.acks \in SUBSET Ids /\ settled \subseteq Ids
  BY TxnFields DEF IInv, Types
<1>3. /\ txn' \in [t : Partial, seeded : SUBSET Entries, acks : SUBSET Ids,
                   fate : Fates]
      /\ txn'.t = <<>> /\ txn'.acks = {} /\ txn'.fate = "over" /\ Gone(<<>>) = {}
  BY <1>1, EmptyIsPartial DEF Fates, Gone
<1>4. /\ b \in Partial /\ Gone(b) \subseteq Gone(batch) \cup txn.acks
  BY <1>2, IndividualAck
<1>5. LET v == Untrack(unacked, txn.acks)
      IN  /\ v \in Tracker
          /\ Located(unacked) =>
               Located(v) /\ Timed(v) \subseteq Timed(unacked) \ txn.acks
  BY <1>2, UntrackFacts
<1>6. /\ s \in AckState /\ s.batch = b /\ s.unacked = Untrack(unacked, txn.acks)
      /\ s.nacks = nacks \ txn.acks
  <2>1. /\ State \in AckState
        /\ State.batch = batch /\ State.unacked = unacked
        /\ State.nacks = nacks /\ State.frames = outbound
    BY <1>2, StateIs
  <2>2. ApplyBatchAckState(State.batch, txn.acks, "individual").t \in Partial
    BY <1>4, <2>1
  <2>3. /\ s \in AckState
        /\ s.batch = ApplyBatchAckState(State.batch, txn.acks, "individual").t
        /\ s.unacked = Untrack(State.unacked, txn.acks)
        /\ s.nacks = State.nacks \ txn.acks
    BY <1>2, <2>1, <2>2, ApplyLocalFacts
  <2> QED BY <2>1, <2>3
<1> HIDE DEF s, b
<1>7. /\ batch' \in Partial /\ unacked' \in Tracker /\ nacks' \subseteq Ids
      /\ settled' \subseteq Ids
      /\ Gone(batch') \subseteq Gone(batch) \cup txn.acks
      /\ Located(unacked) => Located(unacked')
      /\ Located(unacked) /\ settled \cap (Timed(unacked) \cup nacks) = {}
           => settled' \cap (Timed(unacked') \cup nacks') = {}
      /\ settled' \subseteq settled \cup Landed
      /\ nacks \subseteq nacks' \cup Landed
  <2>1. CASE txn.fate = "aborted"
    <3>1. batch' = batch /\ unacked' = unacked /\ nacks' = nacks /\ settled' = settled
      BY <2>1 DEF SettleTransaction
    <3> QED BY <1>2, <3>1
  <2>2. CASE txn.fate = "committed"
    <3>1. /\ batch' = s.batch /\ unacked' = s.unacked /\ nacks' = s.nacks
          /\ settled' = settled \cup txn.acks
      BY <2>2 DEF SettleTransaction, s
    <3>2. txn.acks \subseteq Landed BY <2>2 DEF IInv, SettledInv
    <3> QED BY <1>2, <1>4, <1>5, <1>6, <3>1, <3>2
  <2> QED BY <1>1, <2>1, <2>2
<1>8. Landed' = Landed /\ Outstanding' = Outstanding
  BY <1>1 DEF Landed, Outstanding
<1>9. Types' BY <1>1, <1>2, <1>3, <1>7 DEF Types, GroupTyped
<1>10. OverInv' BY <1>1, <1>3, <1>7, <1>8 DEF IInv, OverInv
<1>11. TimeInv' BY <1>1, <1>7 DEF IInv, TimeInv
<1>12. LinkInv' BY <1>1 DEF IInv, LinkInv
<1>13. SettledInv' BY <1>1, <1>3, <1>7, <1>8 DEF IInv, SettledInv
<1>14. StrandInv'
  <2>1. Outstanding \cap Landed = {} BY DEF Outstanding, Landed
  <2>2. Outstanding \subseteq
          Flying(ToSet(inbound)) \cup ToSet(queue) \cup held \cup nacks
            \cup Grouped(group) \cup broker.pending \cup Asked(ToSet(outbound))
    BY DEF IInv, StrandInv
  <2>3. Outstanding \subseteq
          Flying(ToSet(inbound)) \cup ToSet(queue) \cup held \cup nacks'
            \cup Grouped(group) \cup broker.pending \cup Asked(ToSet(outbound))
    BY <1>7, <2>1, <2>2
  <2> QED BY <1>1, <1>8, <2>3 DEF StrandInv
<1> QED BY <1>9, <1>10, <1>11, <1>12, <1>13, <1>14 DEF IInv

-----------------------------------------------------------------------------
(* Delivery and receive.                                                   *)

LEMMA SeedFacts ==
    ASSUME NEW t \in Partial, NEW d \in Delivery
    PROVE  LET r == SeedBatch(t, d.entry, d.unacked)
           IN  /\ r \in Partial
               /\ \A p \in Gone(r) : p \in Gone(t) \/
                    (p[1] = d.entry /\ p[2] \in Fresh(d.entry) \ d.unacked)
<1> DEFINE e == d.entry
           r == SeedBatch(t, e, d.unacked)
           D == DOMAIN t \cup {e}
           now(x) == IF x # e THEN t[x]
                     ELSE IF e \in DOMAIN t THEN t[e] \cap d.unacked ELSE d.unacked
<1>1. e \in Entries /\ d.unacked \subseteq Fresh(e) /\ d.unacked \in SUBSET Nat
  BY DEF Delivery
<1>2. CASE Members[e] = 0
  <2>1. r = t BY <1>2 DEF SeedBatch
  <2> QED BY <2>1
<1>3. CASE Members[e] # 0
  <2>1. r = [x \in D |-> now(x)] BY <1>3 DEF SeedBatch
  <2>2. DOMAIN t \subseteq Entries /\ \A x \in DOMAIN t : t[x] \subseteq Fresh(x)
    BY DEF Partial
  <2>3. \A x \in Entries : Fresh(x) \subseteq Nat BY FreshIsNat
  <2>4. \A x \in D : now(x) \subseteq Fresh(x) /\ now(x) \in SUBSET Nat
    BY <1>1, <2>2, <2>3
  <2>5. D \in SUBSET Entries BY <1>1, <2>2
  <2>6. r \in [D -> SUBSET Nat] /\ DOMAIN r = D /\ \A x \in D : r[x] = now(x)
    BY <2>1, <2>4
  <2> HIDE DEF r, now, D
  <2>7. r \in Partial BY <2>4, <2>5, <2>6 DEF Partial
  <2>8. ASSUME NEW p \in Gone(r)
        PROVE  p \in Gone(t) \/ (p[1] = e /\ p[2] \in Fresh(e) \ d.unacked)
    <3>1. p \in Ids /\ p[1] \in D /\ p[2] \notin now(p[1]) BY <2>6, <2>8 DEF Gone
    <3>2. p[2] \in Fresh(p[1]) BY <3>1, IdParts
    <3>3. CASE p[1] # e
      <4>1. p[1] \in DOMAIN t /\ now(p[1]) = t[p[1]] BY <3>1, <3>3 DEF now, D
      <4> QED BY <3>1, <4>1 DEF Gone
    <3>4. CASE p[1] = e /\ e \in DOMAIN t
      <4>1. p[2] \notin t[e] \/ p[2] \notin d.unacked BY <3>1, <3>4 DEF now
      <4> QED BY <3>1, <3>2, <3>4, <4>1 DEF Gone
    <3>5. CASE p[1] = e /\ e \notin DOMAIN t
      <4>1. p[2] \notin d.unacked BY <3>1, <3>5 DEF now
      <4> QED BY <3>2, <3>5, <4>1
    <3> QED BY <3>3, <3>4, <3>5
  <2> QED BY <2>7, <2>8 DEF r
<1> QED BY <1>2, <1>3

LEMMA DeliverKeeps ==
    ASSUME IInv, Deliver
    PROVE  IInv'
<1> DEFINE d == Head(inbound)
           new == {d.entry} \X d.unacked
<1>1. /\ conn = "up" /\ inbound # <<>> /\ inbound' = Tail(inbound)
      /\ batch' = SeedBatch(batch, d.entry, d.unacked)
      /\ \E s \in [1..Cardinality(new) -> new] :
           Lists(s, new) /\ queue' = queue \o s
      /\ unacked' = IF AckTimeout THEN Track(unacked, new) ELSE unacked
      /\ settled' = settled \ new
      /\ UNCHANGED <<nacks, group, txn, held, done, conn, outbound, broker, exact>>
  BY DEF Deliver
<1>2. /\ Types /\ inbound \in Seq(Delivery) /\ queue \in Seq(Ids)
      /\ batch \in Partial /\ unacked \in Tracker
  BY DEF IInv, Types
<1>3. /\ d \in Delivery /\ Tail(inbound) \in Seq(Delivery)
      /\ ToSet(inbound) = {d} \cup ToSet(Tail(inbound))
  BY <1>1, <1>2, ToSetTail
<1> HIDE DEF d
<1>4. d.entry \in Entries /\ d.unacked \subseteq Fresh(d.entry)
  BY <1>3 DEF Delivery
<1>5. /\ \A p \in Ids : p \in new <=> p[1] = d.entry /\ p[2] \in d.unacked
      /\ new \in SUBSET Ids
  <2>1. \A p \in Ids : p = <<p[1], p[2]>> BY IdParts
  <2>2. \A i \in d.unacked : <<d.entry, i>> \in Ids BY <1>4, IsId
  <2> QED BY <2>1, <2>2
<1>6. Cardinality(new) \in Nat
  <2>1. IsFiniteSet(Fresh(d.entry)) BY <1>4, FreshIsNat
  <2>2. IsFiniteSet(d.unacked) BY <1>4, <2>1, FS_Subset
  <2>3. IsFiniteSet({d.entry}) BY FS_Singleton
  <2>4. IsFiniteSet(new) BY <2>2, <2>3, FS_Product
  <2> QED BY <2>4, FS_CardinalityType
<1>7. queue' \in Seq(Ids) /\ ToSet(queue') = ToSet(queue) \cup new
  <2>1. PICK s \in [1..Cardinality(new) -> new] :
          Lists(s, new) /\ queue' = queue \o s
    BY <1>1
  <2>2. s \in [1..Cardinality(new) -> Ids] BY <1>5
  <2>3. s \in Seq(Ids) BY <1>6, <2>2, FunctionIsSeq
  <2>4. ToSet(s) = new BY <2>1 DEF Lists, ToSet
  <2> QED BY <1>2, <2>1, <2>3, <2>4, ToSetConcat
<1>8. /\ batch' \in Partial
      /\ \A p \in Gone(batch') : p \in Gone(batch) \/
           (p[1] = d.entry /\ p[2] \in Fresh(d.entry) \ d.unacked)
  BY <1>1, <1>2, <1>3, SeedFacts
<1>9. /\ unacked' \in Tracker
      /\ Located(unacked) => /\ Located(unacked')
                            /\ Timed(unacked') \subseteq Timed(unacked) \cup new
  <2>1. CASE AckTimeout
    <3>1. unacked' = Track(unacked, new) BY <1>1, <2>1
    <3> QED BY <1>2, <1>5, <3>1, TrackFacts
  <2>2. CASE ~AckTimeout
    <3>1. unacked' = unacked BY <1>1, <2>2
    <3> QED BY <1>2, <3>1
  <2> QED BY <2>1, <2>2
<1> HIDE DEF new
<1>10. Landed' = Landed /\ Outstanding' = Outstanding
  BY <1>1 DEF Landed, Outstanding
<1>11. Types' BY <1>1, <1>2, <1>3, <1>7, <1>8, <1>9 DEF Types, GroupTyped
<1>12. OverInv'
  <2>1. Gone(batch') \subseteq done
    <3>1. ASSUME NEW p \in Gone(batch') PROVE p \in done
      <4>1. CASE p \in Gone(batch) BY <4>1 DEF IInv, OverInv
      <4>2. CASE p[1] = d.entry /\ p[2] \in Fresh(d.entry) \ d.unacked
        <5>1. p = <<p[1], p[2]>> BY IdParts DEF Gone
        <5>2. <<d.entry, p[2]>> \in done BY <1>3, <4>2 DEF IInv, OverInv
        <5> QED BY <4>2, <5>1, <5>2
      <4> QED BY <1>8, <4>1, <4>2
    <3> QED BY <3>1
  <2>2. \A c \in ToSet(inbound') : c \in ToSet(inbound) BY <1>1, <1>3
  <2> QED BY <1>1, <1>10, <2>1, <2>2 DEF IInv, OverInv
<1>13. TimeInv' BY <1>1, <1>9 DEF IInv, TimeInv
<1>14. LinkInv' BY <1>1 DEF IInv, LinkInv
<1>15. SettledInv' BY <1>1, <1>10 DEF IInv, SettledInv
<1>16. StrandInv'
  <2>1. Flying(ToSet(inbound)) \subseteq new \cup Flying(ToSet(inbound'))
    BY <1>1, <1>3, <1>5 DEF Flying
  <2>2. Outstanding \subseteq
          Flying(ToSet(inbound)) \cup ToSet(queue) \cup held \cup nacks
            \cup Grouped(group) \cup broker.pending \cup Asked(ToSet(outbound))
    BY DEF IInv, StrandInv
  <2>3. Outstanding \subseteq
          Flying(ToSet(inbound')) \cup ToSet(queue') \cup held \cup nacks
            \cup Grouped(group) \cup broker.pending \cup Asked(ToSet(outbound))
    BY <1>7, <2>1, <2>2
  <2> QED BY <1>1, <1>10, <2>3 DEF StrandInv
<1> QED BY <1>11, <1>12, <1>13, <1>14, <1>15, <1>16 DEF IInv

LEMMA ReceiveKeeps ==
    ASSUME IInv, Receive
    PROVE  IInv'
<1>1. /\ queue # <<>> /\ queue' = Tail(queue) /\ held' = held \cup {Head(queue)}
      /\ UNCHANGED <<batch, unacked, nacks, group, txn, conn, outbound, inbound,
                     broker, done, settled, exact>>
  BY DEF Receive, client, wire
<1>2. /\ Head(queue) \in Ids /\ Tail(queue) \in Seq(Ids)
      /\ ToSet(queue) = {Head(queue)} \cup ToSet(Tail(queue))
  BY <1>1, ToSetTail DEF IInv, Types
<1>3. Landed' = Landed /\ Outstanding' = Outstanding
  BY <1>1 DEF Landed, Outstanding
<1>4. Types' BY <1>1, <1>2 DEF IInv, Types, GroupTyped
<1>5. OverInv' BY <1>1, <1>3 DEF IInv, OverInv
<1>6. TimeInv' BY <1>1 DEF IInv, TimeInv
<1>7. LinkInv' BY <1>1 DEF IInv, LinkInv
<1>8. SettledInv' BY <1>1, <1>3 DEF IInv, SettledInv
<1>9. StrandInv'
  <2>1. ToSet(queue) \cup held = ToSet(queue') \cup held' BY <1>1, <1>2
  <2>2. Outstanding \subseteq
          Flying(ToSet(inbound)) \cup ToSet(queue) \cup held \cup nacks
            \cup Grouped(group) \cup broker.pending \cup Asked(ToSet(outbound))
    BY DEF IInv, StrandInv
  <2>3. Outstanding \subseteq
          Flying(ToSet(inbound)) \cup ToSet(queue') \cup held' \cup nacks
            \cup Grouped(group) \cup broker.pending \cup Asked(ToSet(outbound))
    BY <2>1, <2>2
  <2> QED BY <1>1, <1>3, <2>3 DEF StrandInv
<1> QED BY <1>4, <1>5, <1>6, <1>7, <1>8, <1>9 DEF IInv

-----------------------------------------------------------------------------
(* The driver.                                                             *)

LEMMA TickIsLateKeeps ==
    ASSUME IInv, TickIsLate
    PROVE  IInv'
<1>1. /\ unacked' = Elapse(unacked, Len(unacked.buckets))
      /\ UNCHANGED <<batch, nacks, group, txn, queue, held, done, settled, exact, conn,
                     outbound, inbound, broker>>
  BY DEF TickIsLate, wire, app
<1>2. unacked \in Tracker BY DEF IInv, Types
<1>3. /\ unacked' \in Tracker
      /\ Located(unacked) => Located(unacked') /\ Timed(unacked') = Timed(unacked)
  <2>1. Len(unacked.buckets) \in Nat BY <1>2, TrackerFields
  <2> QED BY <1>1, <1>2, <2>1, ElapseFacts
<1>4. Landed' = Landed /\ Outstanding' = Outstanding
  BY <1>1 DEF Landed, Outstanding
<1>5. Types' BY <1>1, <1>3 DEF IInv, Types, GroupTyped
<1>6. OverInv' BY <1>1, <1>4 DEF IInv, OverInv
<1>7. TimeInv' BY <1>1, <1>3 DEF IInv, TimeInv
<1>8. LinkInv' BY <1>1 DEF IInv, LinkInv
<1>9. SettledInv' BY <1>1, <1>4 DEF IInv, SettledInv
<1>10. StrandInv' BY <1>1, <1>4 DEF IInv, StrandInv
<1> QED BY <1>5, <1>6, <1>7, <1>8, <1>9, <1>10 DEF IInv

\* The frame for one kind of redelivery, if there is anything to ask for.
Asking(S) == IF S = {} THEN <<>> ELSE <<Redeliver(S)>>

LEMMA AskingFacts ==
    ASSUME NEW S \in SUBSET Ids, NEW g \in Seq(Frame)
    PROVE  LET h == g \o Asking(S)
           IN  /\ h \in Seq(Frame)
               /\ AllCovered(ToSet(h)) = AllCovered(ToSet(g))
               /\ Carried(h) = Carried(g)
               /\ Asked(ToSet(g)) \cup S \subseteq Asked(ToSet(h))
               /\ ToSet(g) \subseteq ToSet(h)
               /\ \A f \in ToSet(h) \ ToSet(g) : f.op = "redeliver"
<1> DEFINE h == g \o Asking(S)
<1>1. CASE S = {}
  <2>1. h = g BY <1>1, ConcatEmptySeq DEF Asking
  <2> QED BY <1>1, <2>1
<1>2. CASE S # {}
  <2> DEFINE f == Redeliver(S)
  <2>1. f \in Frame /\ f.op = "redeliver" BY RedeliverFrame
  <2>2. Asking(S) = <<f>> BY <1>2 DEF Asking
  <2>3. <<f>> \in Seq(Frame) /\ ToSet(<<f>>) = {f} BY <2>1 DEF ToSet
  <2>4. h \in Seq(Frame) /\ ToSet(h) = ToSet(g) \cup {f}
    <3>1. Asking(S) \in Seq(Frame) /\ ToSet(Asking(S)) = {f} BY <2>2, <2>3
    <3> QED BY <3>1, ToSetConcat
  <2>5. /\ AllCovered(ToSet(h)) = AllCovered(ToSet(g))
        /\ Carried(h) = Carried(g)
        /\ Asked(ToSet(g)) \cup S \subseteq Asked(ToSet(h))
    <3> HIDE DEF h
    <3> QED BY <2>4, RedeliverAdded
  <2> QED BY <2>1, <2>4, <2>5
<1> QED BY <1>1, <1>2

LEMMA HandleTimeoutKeeps ==
    ASSUME IInv, conn # "closed", NEW k \in Nat, NEW own \in SUBSET unacked.backoff,
           NEW due \in SUBSET nacks, NEW flush \in BOOLEAN,
           HandleTimeout(k, own, due, flush)
    PROVE  IInv'
<1> DEFINE p == PollUnacked(Elapse(unacked, k), own)
           fr == outbound \o Asking(due)
           frames == fr \o Asking(p.redeliver)
           s == [State EXCEPT !.unacked = p.u, !.nacks = @ \ due, !.frames = frames]
           n == IF flush THEN Flushed(s) ELSE s
           named == IF flush THEN Named ELSE {}
           covered == IF flush THEN Grouped(group) ELSE {}
<1>1. /\ Types /\ unacked \in Tracker /\ outbound \in Seq(Frame)
      /\ nacks \in SUBSET Ids /\ GroupTyped
      /\ held \in SUBSET Ids /\ done \in SUBSET Ids
  BY DEF IInv, Types
<1>2. /\ State \in AckState
      /\ State.batch = batch /\ State.unacked = unacked
      /\ State.nacks = nacks /\ State.frames = outbound
  BY <1>1, StateIs
<1>3. /\ Becomes(n)
      /\ group' = IF flush THEN NoneGrouped ELSE group
      /\ settled' = IF flush THEN settled \cup Named ELSE settled
      /\ exact' = (exact /\ ~Slips(Elapse(unacked, k)))
      /\ UNCHANGED <<txn, queue, held, done, conn, inbound, broker>>
  BY <1>2 DEF HandleTimeout, Asking
<1>4. /\ p.u \in Tracker /\ p.redeliver \in SUBSET Ids
      /\ exact' => exact /\ (Located(unacked) =>
                     Located(p.u) /\ Timed(p.u) \subseteq Timed(unacked))
  BY <1>1, <1>3, PollFacts
<1>5. due \in SUBSET Ids BY <1>1
<1> HIDE DEF p
<1>6. /\ fr \in Seq(Frame)
      /\ AllCovered(ToSet(fr)) = AllCovered(ToSet(outbound))
      /\ Carried(fr) = Carried(outbound)
      /\ Asked(ToSet(outbound)) \cup due \subseteq Asked(ToSet(fr))
      /\ ToSet(outbound) \subseteq ToSet(fr)
      /\ \A f \in ToSet(fr) \ ToSet(outbound) : f.op = "redeliver"
  BY <1>1, <1>5, AskingFacts
<1> HIDE DEF fr
<1>7. /\ frames \in Seq(Frame)
      /\ AllCovered(ToSet(frames)) = AllCovered(ToSet(fr))
      /\ Carried(frames) = Carried(fr)
      /\ Asked(ToSet(fr)) \subseteq Asked(ToSet(frames))
      /\ ToSet(fr) \subseteq ToSet(frames)
      /\ \A f \in ToSet(frames) \ ToSet(fr) : f.op = "redeliver"
  BY <1>4, <1>6, AskingFacts
<1> HIDE DEF frames
<1>8. /\ s \in AckState /\ s.batch = batch /\ s.unacked = p.u
      /\ s.nacks = nacks \ due /\ s.frames = frames
  BY <1>2, <1>4, <1>7 DEF AckState
<1> HIDE DEF s
<1>9. Sends(State, s, {}, {}) /\ (exact' => exact /\ Stops(State, s, {}))
  <2>1. Gone(s.batch) \cup AllCovered(ToSet(s.frames))
          \subseteq Gone(State.batch) \cup AllCovered(ToSet(State.frames)) \cup {}
    BY <1>2, <1>6, <1>7, <1>8
  <2>2. exact' => exact /\ Stops(State, s, {})
    BY <1>2, <1>4, <1>8 DEF Stops
  <2>3. Carried(State.frames) \cup {} \subseteq Carried(s.frames)
    BY <1>2, <1>6, <1>7, <1>8
  <2>4. State.nacks \cup Asked(ToSet(State.frames)) \cup {}
          \subseteq s.nacks \cup Asked(ToSet(s.frames))
    BY <1>2, <1>6, <1>7, <1>8
  <2>5. /\ ToSet(State.frames) \subseteq ToSet(s.frames)
        /\ \A f \in ToSet(s.frames) \ ToSet(State.frames) :
             f.op \in {"individual", "cumulative", "redeliver"}
    BY <1>2, <1>6, <1>7, <1>8
  <2> QED BY <1>8, <2>1, <2>2, <2>3, <2>4, <2>5 DEF Sends
<1>10. Sends(State, n, named, covered) /\ (exact' => exact /\ Stops(State, n, named))
  <2>1. CASE flush
    <3>1. Advances(s, Flushed(s), Named, Grouped(group))
      BY <1>1, <1>8, FlushedAdvances
    <3>2. /\ Sends(State, Flushed(s), {} \cup Named, {} \cup Grouped(group))
          /\ exact' => exact /\ Stops(State, Flushed(s), {} \cup Named)
      BY <1>9, <3>1, SendsCompose, StopsCompose DEF Advances
    <3>3. {} \cup Named = Named /\ {} \cup Grouped(group) = Grouped(group) OBVIOUS
    <3> QED BY <2>1, <3>2, <3>3
  <2>2. CASE ~flush BY <1>9, <2>2
  <2> QED BY <2>1, <2>2
<1>11. Grouped(group) \subseteq done BY DEF IInv, OverInv
<1>12. /\ GroupTyped' /\ Grouped(group') \subseteq Grouped(group)
       /\ Grouped(group) \subseteq Grouped(group') \cup covered
       /\ covered \subseteq done
       /\ named \in SUBSET Ids /\ settled' = settled \cup named
  <2>1. CASE flush
    <3>1. GroupTyped' /\ Grouped(group') = {}
      BY <1>3, <2>1 DEF GroupTyped, NoneGrouped, Grouped
    <3>2. Named \in SUBSET Ids BY <1>1 DEF GroupTyped, Named
    <3> QED BY <1>3, <1>11, <2>1, <3>1, <3>2
  <2>2. CASE ~flush
    <3>1. group' = group BY <1>3, <2>2
    <3>2. GroupTyped' BY <1>1, <3>1 DEF GroupTyped
    <3> QED BY <1>3, <1>11, <2>2, <3>1, <3>2
  <2> QED BY <2>1, <2>2
<1> HIDE DEF n, named, covered
<1>13. /\ held' \in SUBSET Ids /\ done' \in SUBSET Ids
       /\ done \cup covered \cup Grouped(group') \subseteq done'
       /\ held \cup Grouped(group) \subseteq held' \cup Grouped(group') \cup covered
                                          \cup Asked(ToSet(n.frames))
       /\ UNCHANGED <<txn, queue, conn, inbound, broker>>
  BY <1>1, <1>3, <1>11, <1>12
<1> QED BY <1>3, <1>10, <1>12, <1>13, SendMoves

LEMMA TickKeeps ==
    ASSUME IInv, TimeoutTick \/ NackTick \/ GroupTick \/ LateTick
    PROVE  IInv'
<1>1. {} \in SUBSET unacked.backoff /\ {} \in SUBSET nacks /\ nacks \in SUBSET nacks
      /\ TRUE \in BOOLEAN /\ FALSE \in BOOLEAN /\ 0 \in Nat
  OBVIOUS
<1>2. CASE TimeoutTick
  <2>1. conn # "closed" BY <1>2 DEF TimeoutTick
  <2>2. PICK k \in 0..Len(unacked.buckets), own \in SUBSET unacked.backoff :
          HandleTimeout(k, own, {}, FALSE) \/ HandleTimeout(k, own, nacks, TRUE)
    BY <1>2 DEF TimeoutTick
  <2>3. Len(unacked.buckets) \in Nat BY TrackerFields DEF IInv, Types
  <2>4. k \in Nat BY <2>3
  <2>5. CASE HandleTimeout(k, own, {}, FALSE)
    BY <1>1, <2>1, <2>4, <2>5, HandleTimeoutKeeps
  <2>6. CASE HandleTimeout(k, own, nacks, TRUE)
    BY <1>1, <2>1, <2>4, <2>6, HandleTimeoutKeeps
  <2> QED BY <2>2, <2>5, <2>6
<1>3. CASE NackTick
  <2>1. PICK due \in SUBSET nacks : HandleTimeout(0, {}, due, FALSE)
    BY <1>3 DEF NackTick
  <2>2. conn # "closed" BY <1>3 DEF NackTick
  <2> QED BY <1>1, <2>1, <2>2, HandleTimeoutKeeps
<1>4. CASE GroupTick
  <2>1. conn # "closed" /\ HandleTimeout(0, {}, {}, TRUE) BY <1>4 DEF GroupTick
  <2> QED BY <1>1, <2>1, HandleTimeoutKeeps
<1>5. CASE LateTick
  <2>1. conn # "closed" /\ HandleTimeout(0, {}, {}, FALSE) BY <1>5 DEF LateTick
  <2> QED BY <1>1, <2>1, HandleTimeoutKeeps
<1> QED BY <1>2, <1>3, <1>4, <1>5

LEMMA DisconnectKeeps ==
    ASSUME IInv, Disconnect
    PROVE  IInv'
<1>1. /\ conn = "up" /\ conn' = "lost" /\ inbound' = <<>>
      /\ broker' = [broker EXCEPT !.attached = FALSE, !.out = {}]
      /\ UNCHANGED <<batch, unacked, nacks, group, txn, queue, held, done,
                     settled, exact, outbound>>
  BY DEF Disconnect, client, app
<1>2. /\ broker' \in [attached : BOOLEAN, out : SUBSET Entries,
                      acked : [Entries -> SUBSET Nat], pending : SUBSET Ids]
      /\ broker'.attached = FALSE /\ broker'.out = {}
      /\ broker'.acked = broker.acked /\ broker'.pending = broker.pending
  BY <1>1 DEF IInv, Types
<1>3. Landed' = Landed /\ Outstanding' = {}
  BY <1>2 DEF Landed, Outstanding
<1>4. <<>> \in Seq(Delivery) /\ ToSet(<<>>) = {} BY EmptySeq, ToSetEmpty
<1>5. Types' BY <1>1, <1>2, <1>4 DEF IInv, Types, GroupTyped
<1>6. OverInv' BY <1>1, <1>2, <1>3, <1>4 DEF IInv, OverInv
<1>7. TimeInv' BY <1>1 DEF IInv, TimeInv
<1>8. LinkInv' BY <1>1, <1>2 DEF IInv, LinkInv
<1>9. SettledInv' BY <1>1, <1>3 DEF IInv, SettledInv
<1>10. StrandInv' BY <1>3 DEF StrandInv
<1> QED BY <1>5, <1>6, <1>7, <1>8, <1>9, <1>10 DEF IInv

LEMMA ResetKeeps ==
    ASSUME IInv, Reset
    PROVE  IInv'
<1>1. /\ conn = "lost" /\ conn' = "reset" /\ outbound' = <<>>
      /\ batch' = <<>> /\ queue' = <<>>
      /\ settled' = settled \ Carried(outbound)
      /\ UNCHANGED <<unacked, nacks, group, txn, held, done, inbound, broker, exact>>
  BY DEF Reset
<1>2. /\ <<>> \in Seq(Frame) /\ <<>> \in Seq(Ids) /\ ToSet(<<>>) = {}
      /\ <<>> \in Partial /\ DOMAIN <<>> = {}
  BY EmptySeq, ToSetEmpty, EmptyIsPartial
<1>3. Landed' = Landed BY <1>1 DEF Landed
<1>4. Outstanding' = {} BY <1>1 DEF IInv, LinkInv, Outstanding
<1>5. Gone(<<>>) = {} /\ AllCovered({}) = {} BY <1>2 DEF Gone, AllCovered
<1>6. Types' BY <1>1, <1>2 DEF IInv, Types, GroupTyped
<1>7. OverInv' BY <1>1, <1>2, <1>3, <1>5 DEF IInv, OverInv
<1>8. TimeInv' BY <1>1 DEF IInv, TimeInv
<1>9. LinkInv' BY <1>1, <1>2 DEF IInv, LinkInv
<1>10. SettledInv' BY <1>1, <1>3 DEF IInv, SettledInv
<1>11. StrandInv' BY <1>4 DEF StrandInv
<1> QED BY <1>6, <1>7, <1>8, <1>9, <1>10, <1>11 DEF IInv

LEMMA RebuildKeeps ==
    ASSUME IInv, Rebuild
    PROVE  IInv'
<1>1. /\ conn = "reset" /\ conn' = "up" /\ outbound' = Append(outbound, Subscribe)
      /\ UNCHANGED <<batch, unacked, nacks, group, txn, queue, held, done,
                     settled, exact, inbound, broker>>
  BY DEF Rebuild, client, app, Subscribe
<1>2. Subscribe \in Frame /\ Subscribe.op = "subscribe" /\ "subscribe" \notin AckOps
  BY DEF Subscribe, Frame, AckOps
<1>3. outbound \in Seq(Frame) BY DEF IInv, Types
<1>4. outbound' \in Seq(Frame) /\ ToSet(outbound') = ToSet(outbound) \cup {Subscribe}
  BY <1>1, <1>2, <1>3, ToSetAppend
<1>5. AllCovered(ToSet(outbound')) = AllCovered(ToSet(outbound))
  BY <1>2, <1>4 DEF AllCovered
<1>6. Carried(outbound') = Carried(outbound)
  <2>1. Subscribe.op \notin {"individual", "cumulative"} BY <1>2
  <2> QED BY <1>2, <1>3, <1>4, <2>1, OneMoreFrame
<1>7. Landed' = Landed BY <1>1 DEF Landed
<1>8. Outstanding' = {} BY <1>1 DEF IInv, LinkInv, Outstanding
<1>9. Types' BY <1>1, <1>4 DEF IInv, Types, GroupTyped
<1>10. OverInv' BY <1>1, <1>5, <1>7 DEF IInv, OverInv
<1>11. TimeInv' BY <1>1 DEF IInv, TimeInv
<1>12. LinkInv' BY <1>1, <1>2, <1>4 DEF IInv, LinkInv
<1>13. SettledInv' BY <1>1, <1>6, <1>7 DEF IInv, SettledInv
<1>14. StrandInv' BY <1>8 DEF StrandInv
<1> QED BY <1>9, <1>10, <1>11, <1>12, <1>13, <1>14 DEF IInv

\* The flush leaves the client in a state that the last frame closes.
LEMMA CloseKeeps ==
    ASSUME IInv, Close
    PROVE  IInv'
<1> DEFINE m == Flushed(State)
           f == [op |-> "close"]
           n == [m EXCEPT !.frames = Append(@, f)]
<1>1. /\ conn = "up" /\ Becomes(n) /\ group' = NoneGrouped
      /\ settled' = settled \cup Named /\ conn' = "closed"
      /\ UNCHANGED <<txn, queue, held, done, inbound, broker, exact>>
  BY DEF Close
<1>2. Types /\ GroupTyped BY DEF IInv, Types
<1>3. /\ State \in AckState
      /\ State.batch = batch /\ State.unacked = unacked
      /\ State.nacks = nacks /\ State.frames = outbound
  BY <1>2, StateIs
<1>4. Advances(State, m, Named, Grouped(group))
  BY <1>2, <1>3, FlushedAdvances
<1>5. m \in AckState BY <1>4 DEF Advances, Sends, Stops
<1>6. f \in Frame /\ f.op = "close" /\ f.op \notin AckOps BY DEF Frame, AckOps
<1> HIDE DEF m, f
<1>7. /\ n \in AckState /\ n.batch = m.batch /\ n.unacked = m.unacked
      /\ n.nacks = m.nacks /\ n.frames = Append(m.frames, f)
      /\ ToSet(n.frames) = ToSet(m.frames) \cup {f}
  BY <1>5, <1>6, AppendFrame
<1> HIDE DEF n
<1>8. /\ m.batch \in Partial /\ m.unacked \in Tracker
      /\ m.nacks \subseteq Ids /\ m.frames \in Seq(Frame) /\ n.frames \in Seq(Frame)
  BY <1>5, <1>7, StateFields
<1>9. /\ batch' = m.batch /\ unacked' = m.unacked /\ nacks' = m.nacks
      /\ outbound' = Append(m.frames, f) /\ outbound' = n.frames
      /\ ToSet(outbound') = ToSet(m.frames) \cup {f}
  BY <1>1, <1>7 DEF Becomes
<1>10. /\ AllCovered(ToSet(outbound')) = AllCovered(ToSet(m.frames))
       /\ Carried(outbound') = Carried(m.frames)
       /\ Asked(ToSet(outbound')) = Ids
  <2>1. AllCovered(ToSet(outbound')) = AllCovered(ToSet(m.frames))
    BY <1>6, <1>9 DEF AllCovered
  <2>2. f.op \notin {"individual", "cumulative"} BY <1>6
  <2>3. Carried(outbound') = Carried(m.frames)
    BY <1>6, <1>8, <1>9, <2>2, OneMoreFrame
  <2>4. Asked(ToSet(outbound')) = Ids BY <1>6, <1>9 DEF Asked
  <2> QED BY <2>1, <2>3, <2>4
<1>11. Landed' = Landed BY <1>1 DEF Landed
<1>12. GroupTyped' /\ Grouped(group') = {}
  BY <1>1 DEF GroupTyped, NoneGrouped, Grouped
<1>13. Types'
  <2>1. Named \in SUBSET Ids BY <1>2 DEF GroupTyped, Named
  <2> QED BY <1>1, <1>2, <1>8, <1>9, <1>12, <2>1 DEF Types
<1>14. OverInv'
  <2>1. Gone(batch') \cup AllCovered(ToSet(outbound')) \subseteq done'
    BY <1>1, <1>3, <1>4, <1>9, <1>10 DEF Advances, Sends, Stops, IInv, OverInv
  <2> QED BY <1>1, <1>11, <1>12, <2>1 DEF IInv, OverInv
<1>15. TimeInv' BY <1>1, <1>3, <1>4, <1>9 DEF Advances, Sends, Stops, IInv, TimeInv
<1>16. LinkInv'
  <2>1. ToSet(outbound) \subseteq ToSet(outbound') BY <1>3, <1>4, <1>9 DEF Advances, Sends, Stops
  <2>2. \A g \in ToSet(m.frames) : g.op # "close"
    BY <1>1, <1>3, <1>4 DEF Advances, Sends, Stops, IInv, LinkInv
  <2>3. ASSUME NEW i \in DOMAIN outbound', outbound'[i].op = "close"
        PROVE  i = Len(outbound')
    <3>1. /\ Len(m.frames) \in Nat /\ DOMAIN m.frames = 1..Len(m.frames)
          /\ DOMAIN outbound' = 1..Len(outbound')
      BY <1>8, <1>9, LenProperties
    <3>2. /\ Len(outbound') = Len(m.frames) + 1
          /\ \A j \in 1..Len(m.frames) : outbound'[j] = m.frames[j]
      <4>1. LET a == Append(m.frames, f)
            IN  /\ Len(a) = Len(m.frames) + 1
                /\ \A j \in 1..Len(m.frames) : a[j] = m.frames[j]
        BY <1>6, <1>8, AppendProperties
      <4>2. outbound' = Append(m.frames, f) BY <1>9
      <4> QED BY <4>1, <4>2
    <3>3. CASE i \in 1..Len(m.frames) BY <2>2, <2>3, <3>1, <3>2, <3>3 DEF ToSet
    <3> QED BY <3>1, <3>2, <3>3
  <2> QED BY <1>1, <2>1, <2>3 DEF IInv, LinkInv
<1>17. SettledInv'
  <2>1. settled' \subseteq Landed \cup Carried(outbound')
    BY <1>1, <1>3, <1>4, <1>10 DEF Advances, Sends, Stops, IInv, SettledInv
  <2> QED BY <1>1, <1>11, <2>1 DEF IInv, SettledInv
<1>18. StrandInv' BY <1>10 DEF StrandInv, Outstanding
<1> QED BY <1>13, <1>14, <1>15, <1>16, <1>17, <1>18 DEF IInv

-----------------------------------------------------------------------------
(* The broker.                                                             *)

LEMMA DispatchKeeps ==
    ASSUME IInv, NEW e \in Entries, Dispatch(e)
    PROVE  IInv'
<1> DEFINE d == [entry |-> e, unacked |-> Remaining(e)]
<1>1. /\ broker.attached /\ conn = "up"
      /\ inbound' = Append(inbound, d)
      /\ broker' = [broker EXCEPT !.out = @ \cup {e}]
      /\ UNCHANGED <<batch, unacked, nacks, group, txn, queue, held, done,
                     settled, exact, conn, outbound>>
  BY DEF Dispatch, client, app
<1>2. /\ broker' \in [attached : BOOLEAN, out : SUBSET Entries,
                      acked : [Entries -> SUBSET Nat], pending : SUBSET Ids]
      /\ broker'.attached = broker.attached /\ broker'.out = broker.out \cup {e}
      /\ broker'.acked = broker.acked /\ broker'.pending = broker.pending
  BY <1>1 DEF IInv, Types
<1>3. /\ \A i \in Fresh(e) : i \notin Remaining(e) =>
           i \in broker.acked[e] \/ <<e, i>> \in broker.pending
      /\ Remaining(e) \subseteq Fresh(e)
  BY DEF Remaining
<1>4. d \in Delivery /\ d.entry = e /\ d.unacked = Remaining(e)
  BY <1>3, FreshIsNat DEF Delivery
<1> HIDE DEF d
<1>5. inbound' \in Seq(Delivery) /\ ToSet(inbound') = ToSet(inbound) \cup {d}
  BY <1>1, <1>4, ToSetAppend DEF IInv, Types
<1>6. Landed' = Landed BY <1>2 DEF Landed
<1>7. Types' BY <1>1, <1>2, <1>5 DEF IInv, Types, GroupTyped
<1>8. OverInv'
  <2>1. ASSUME NEW i \in Fresh(e) \ Remaining(e) PROVE <<e, i>> \in done
    <3>1. <<e, i>> \in Ids /\ <<e, i>>[1] = e /\ <<e, i>>[2] = i BY IsId
    <3>2. <<e, i>> \in Landed \cup broker.pending BY <1>3, <3>1 DEF Landed
    <3> QED BY <3>2 DEF IInv, OverInv
  <2>2. \A c \in ToSet(inbound') : \A i \in Fresh(c.entry) \ c.unacked :
          <<c.entry, i>> \in done
    BY <1>4, <1>5, <2>1 DEF IInv, OverInv
  <2> QED BY <1>1, <1>2, <1>6, <2>2 DEF IInv, OverInv
<1>9. TimeInv' BY <1>1 DEF IInv, TimeInv
<1>10. LinkInv' BY <1>1, <1>2 DEF IInv, LinkInv
<1>11. SettledInv' BY <1>1, <1>6 DEF IInv, SettledInv
<1>12. StrandInv'
  <2> DEFINE All == Flying(ToSet(inbound')) \cup ToSet(queue) \cup held \cup nacks
                      \cup Grouped(group) \cup broker.pending \cup Asked(ToSet(outbound))
  <2>1. Flying(ToSet(inbound)) \subseteq Flying(ToSet(inbound')) BY <1>5 DEF Flying
  <2>2. Outstanding \subseteq All
    BY <2>1 DEF IInv, StrandInv
  <2>3. ASSUME NEW p \in Outstanding', p[1] = e PROVE p \in All
    <3>1. p \in Ids /\ p[2] \notin broker.acked[e] BY <1>2, <2>3 DEF Outstanding
    <3>2. p = <<e, p[2]>> /\ p[2] \in Fresh(e) BY <2>3, <3>1, IdParts
    <3>3. CASE p[2] \in Remaining(e)
      <4>1. p \in Flying(ToSet(inbound'))
        BY <1>4, <1>5, <2>3, <3>1, <3>3 DEF Flying
      <4> QED BY <4>1
    <3>4. CASE p[2] \notin Remaining(e) BY <1>3, <3>1, <3>2, <3>4
    <3> QED BY <3>3, <3>4
  <2>4. ASSUME NEW p \in Outstanding', p[1] # e PROVE p \in Outstanding
    BY <1>2, <2>4 DEF Outstanding
  <2>5. Outstanding' \subseteq All BY <2>2, <2>3, <2>4
  <2> QED BY <1>1, <1>2, <2>5 DEF StrandInv
<1> QED BY <1>7, <1>8, <1>9, <1>10, <1>11, <1>12 DEF IInv

\* What the broker makes of a frame, as far as the invariant sees it.
LEMMA TakeFacts ==
    ASSUME Types, NEW f \in Frame
    PROVE  LET b == Take(f)
           IN  /\ b \in [attached : BOOLEAN, out : SUBSET Entries,
                         acked : [Entries -> SUBSET Nat], pending : SUBSET Ids]
               /\ \A e \in Entries : /\ b.acked[e] \subseteq Fresh(e)
                                     /\ broker.acked[e] \subseteq b.acked[e]
               /\ \A p \in Ids : p[2] \in b.acked[p[1]] =>
                    p \in Landed \/ (f.op \in AckOps /\ p \in Covers(f))
               /\ broker.pending \subseteq b.pending
               /\ \A p \in b.pending : p \in broker.pending
                                         \/ (f.op \in AckOps /\ p \in Covers(f))
               /\ f.op = "subscribe" => b.attached /\ b.out = broker.out
               /\ f.op = "close" => ~b.attached /\ b.out = {}
               /\ f.op \notin {"subscribe", "close"} => b.attached = broker.attached
               /\ b.out \subseteq broker.out
               /\ broker.attached => \A p \in Ids :
                    /\ f.op \in {"individual", "cumulative"} /\ p \in Covers(f)
                         => p[2] \in b.acked[p[1]]
                    /\ f.op = "transactional" /\ p \in Covers(f)
                         => p \in b.pending \/ p \in Landed
                    /\ f.op = "redeliver" /\ (\E x \in f.ids : x[1] = p[1])
                         => p[1] \notin b.out
<1> DEFINE b == Take(f)
           acked == [e \in Entries |-> broker.acked[e] \cup
                       {i \in Fresh(e) : <<e, i>> \in Covers(f)}]
<1>1. /\ broker \in [attached : BOOLEAN, out : SUBSET Entries,
                     acked : [Entries -> SUBSET Nat], pending : SUBSET Ids]
      /\ \A e \in Entries : broker.acked[e] \subseteq Fresh(e)
      /\ broker.attached \in BOOLEAN
  BY BrokerFields DEF Types
<1>2. f.op \in AckOps \cup {"redeliver", "subscribe", "close"} BY DEF Frame
<1>3. \A p \in Ids : /\ p = <<p[1], p[2]>> /\ p[1] \in Entries
                     /\ p[2] \in Fresh(p[1])
  BY IdParts
<1>4. CASE f.op = "subscribe"
  <2>1. b = [broker EXCEPT !.attached = TRUE] BY <1>4 DEF Take
  <2>2. /\ b \in [attached : BOOLEAN, out : SUBSET Entries,
                  acked : [Entries -> SUBSET Nat], pending : SUBSET Ids]
        /\ b.attached /\ b.out = broker.out /\ b.acked = broker.acked
        /\ b.pending = broker.pending
    BY <1>1, <2>1
  <2> QED BY <1>1, <1>4, <2>2 DEF Landed
<1>5. CASE f.op = "close"
  <2>1. b = [broker EXCEPT !.attached = FALSE, !.out = {}] BY <1>5 DEF Take
  <2>2. /\ b \in [attached : BOOLEAN, out : SUBSET Entries,
                  acked : [Entries -> SUBSET Nat], pending : SUBSET Ids]
        /\ ~b.attached /\ b.out = {} /\ b.acked = broker.acked
        /\ b.pending = broker.pending
    BY <1>1, <2>1
  <2> QED BY <1>1, <1>5, <2>2 DEF Landed
<1>6. CASE f.op \notin {"subscribe", "close"} /\ ~broker.attached
  <2>1. b = broker BY <1>6 DEF Take
  <2> QED BY <1>1, <1>6, <2>1 DEF Landed
<1>7. CASE f.op = "redeliver" /\ broker.attached
  <2>1. b = [broker EXCEPT !.out = {e \in @ : ~ \E x \in f.ids : x[1] = e}]
    BY <1>7 DEF Take
  <2>2. /\ b \in [attached : BOOLEAN, out : SUBSET Entries,
                  acked : [Entries -> SUBSET Nat], pending : SUBSET Ids]
        /\ b.out = {e \in broker.out : ~ \E x \in f.ids : x[1] = e}
        /\ b.attached = broker.attached
        /\ b.acked = broker.acked /\ b.pending = broker.pending
    BY <1>1, <2>1
  <2> QED BY <1>1, <1>7, <2>2 DEF Landed, AckOps
<1>8. \A p \in Covers(f) : f.op \in AckOps => p \in Ids
  <2>1. ASSUME f.op \in AckOps, NEW p \in Covers(f) PROVE p \in Ids
    <3>1. f.sent \in SUBSET [entry : Entries, left : SUBSET Nat]
      BY <2>1 DEF Frame, AckOps
    <3>2. PICK a \in f.sent : \/ \E i \in Fresh(a.entry) : p = <<a.entry, i>>
                              \/ p \in Ids
      BY <2>1 DEF Covers
    <3>3. a.entry \in Entries BY <3>1
    <3> QED BY <3>2, <3>3, IsId
  <2> QED BY <2>1
<1>9. CASE f.op = "transactional" /\ broker.attached
  <2> DEFINE more == {x \in Covers(f) : x[2] \notin broker.acked[x[1]]}
  <2>1. b = [broker EXCEPT !.pending = @ \cup more] BY <1>9 DEF Take
  <2>2. more \in SUBSET Ids /\ f.op \in AckOps BY <1>8, <1>9 DEF AckOps
  <2>3. \A p \in Covers(f) : p \in more \/ p \in Landed
    BY <1>8, <2>2 DEF Landed
  <2>4. \A p \in more : p \in Covers(f) OBVIOUS
  <2> HIDE DEF more
  <2>5. /\ b \in [attached : BOOLEAN, out : SUBSET Entries,
                  acked : [Entries -> SUBSET Nat], pending : SUBSET Ids]
        /\ b.pending = broker.pending \cup more
        /\ b.attached = broker.attached
        /\ b.acked = broker.acked /\ b.out = broker.out
    BY <1>1, <2>1, <2>2
  <2> QED BY <1>1, <1>9, <2>2, <2>3, <2>4, <2>5 DEF Landed
<1>10. CASE f.op \in {"individual", "cumulative"} /\ broker.attached
  <2>1. b = [broker EXCEPT !.acked = acked, !.out = {e \in @ : acked[e] # Fresh(e)}]
    BY <1>10 DEF Take
  <2>2. /\ acked \in [Entries -> SUBSET Nat]
        /\ \A e \in Entries : /\ acked[e] \subseteq Fresh(e)
                              /\ broker.acked[e] \subseteq acked[e]
    BY <1>1, FreshIsNat
  <2>3. \A p \in Ids : p[2] \in acked[p[1]] <=> p \in Landed \/ p \in Covers(f)
    BY <1>3 DEF Landed
  <2> HIDE DEF acked
  <2>4. /\ b \in [attached : BOOLEAN, out : SUBSET Entries,
                  acked : [Entries -> SUBSET Nat], pending : SUBSET Ids]
        /\ b.pending = broker.pending /\ b.attached = broker.attached
        /\ b.acked = acked /\ b.out \subseteq broker.out
    BY <1>1, <2>1, <2>2
  <2>5. f.op \in AckOps BY <1>10 DEF AckOps
  <2> QED BY <1>1, <1>10, <2>2, <2>3, <2>4, <2>5
<1> QED BY <1>1, <1>2, <1>4, <1>5, <1>6, <1>7, <1>9, <1>10 DEF AckOps

LEMMA BrokerTakesKeeps ==
    ASSUME IInv, BrokerTakes
    PROVE  IInv'
<1> DEFINE f == Head(outbound)
           b == Take(f)
<1>1. /\ outbound # <<>> /\ conn \in {"up", "closed"}
      /\ broker' = b /\ outbound' = Tail(outbound)
      /\ settled' = IF Subscribe \in ToSet(outbound)
                    THEN settled \ Carried(<<f>>) ELSE settled
      /\ UNCHANGED <<batch, unacked, nacks, group, txn, queue, held, done,
                     exact, conn, inbound>>
  BY DEF BrokerTakes, client, Subscribe
<1>2. Types /\ outbound \in Seq(Frame) BY DEF IInv, Types
<1>3. /\ f \in Frame /\ Tail(outbound) \in Seq(Frame)
      /\ ToSet(outbound) = {f} \cup ToSet(Tail(outbound))
  BY <1>1, <1>2, ToSetTail
<1> HIDE DEF f
<1>4. /\ b \in [attached : BOOLEAN, out : SUBSET Entries,
                acked : [Entries -> SUBSET Nat], pending : SUBSET Ids]
      /\ \A e \in Entries : /\ b.acked[e] \subseteq Fresh(e)
                            /\ broker.acked[e] \subseteq b.acked[e]
      /\ \A p \in Ids : p[2] \in b.acked[p[1]] =>
           p \in Landed \/ (f.op \in AckOps /\ p \in Covers(f))
      /\ broker.pending \subseteq b.pending
      /\ \A p \in b.pending : p \in broker.pending
                                \/ (f.op \in AckOps /\ p \in Covers(f))
      /\ f.op = "subscribe" => b.attached /\ b.out = broker.out
      /\ f.op = "close" => ~b.attached /\ b.out = {}
      /\ f.op \notin {"subscribe", "close"} => b.attached = broker.attached
      /\ b.out \subseteq broker.out
      /\ broker.attached => \A p \in Ids :
           /\ f.op \in {"individual", "cumulative"} /\ p \in Covers(f)
                => p[2] \in b.acked[p[1]]
           /\ f.op = "transactional" /\ p \in Covers(f)
                => p \in b.pending \/ p \in Landed
           /\ f.op = "redeliver" /\ (\E x \in f.ids : x[1] = p[1])
                => p[1] \notin b.out
  BY <1>2, <1>3, TakeFacts
<1> HIDE DEF b
<1>5. Landed \subseteq Landed' BY <1>1, <1>4, IdParts DEF Landed
<1>6. Types' BY <1>1, <1>2, <1>3, <1>4 DEF Types, GroupTyped
<1>7. OverInv'
  <2>1. f.op \in AckOps => Covers(f) \subseteq done
    BY <1>3 DEF IInv, OverInv, AllCovered
  <2>2. AllCovered(ToSet(outbound')) \subseteq done
    BY <1>1, <1>3 DEF IInv, OverInv, AllCovered
  <2>3. Landed' \subseteq done BY <1>1, <1>4, <2>1 DEF IInv, OverInv, Landed
  <2>4. broker'.pending \subseteq done BY <1>1, <1>4, <2>1 DEF IInv, OverInv
  <2> QED BY <1>1, <2>2, <2>3, <2>4 DEF IInv, OverInv
<1>8. TimeInv'
  <2>1. settled' \subseteq settled BY <1>1
  <2> QED BY <1>1, <2>1 DEF IInv, TimeInv
<1>9. broker.attached \/ Subscribe \in ToSet(outbound)
  BY <1>1 DEF IInv, LinkInv
<1>10. f.op = "close" => conn = "closed" /\ outbound' = <<>>
  <2>1. ASSUME f.op = "close" PROVE conn = "closed" /\ outbound' = <<>>
    <3>1. conn = "closed" BY <1>1, <1>3, <2>1 DEF IInv, LinkInv
    <3>2. /\ Len(outbound) \in Nat /\ Len(outbound) # 0
          /\ DOMAIN outbound = 1..Len(outbound) /\ f = outbound[1]
          /\ Len(Tail(outbound)) = Len(outbound) - 1
      BY <1>1, <1>2, EmptySeq, LenProperties, HeadTailProperties DEF f
    <3>3. 1 \in DOMAIN outbound BY <3>2
    <3>4. Len(outbound) = 1 BY <2>1, <3>1, <3>2, <3>3 DEF IInv, LinkInv
    <3>5. Len(Tail(outbound)) = 0 BY <3>2, <3>4
    <3> QED BY <1>1, <1>3, <3>1, <3>5, EmptySeq
  <2> QED BY <2>1
<1>11. \/ broker'.attached \/ Subscribe \in ToSet(outbound')
       \/ f.op = "close"
  <2>1. CASE f.op = "subscribe" BY <1>1, <1>4, <2>1
  <2>2. CASE f.op \notin {"subscribe", "close"}
    <3>1. f # Subscribe BY <2>2 DEF Subscribe
    <3> QED BY <1>1, <1>3, <1>4, <1>9, <2>2, <3>1
  <2> QED BY <2>1, <2>2
<1>12. LinkInv'
  <2>1. conn' = "up" \/ (conn' = "closed" /\ outbound' # <<>>)
          => broker'.attached \/ Subscribe \in ToSet(outbound')
    BY <1>1, <1>10, <1>11
  <2>2. conn' \notin {"lost", "reset"} BY <1>1
  <2>3. ~broker'.attached => broker'.out = {}
    <3>1. CASE f.op = "subscribe" BY <1>1, <1>4, <3>1
    <3>2. CASE f.op = "close" BY <1>1, <1>4, <3>2
    <3>3. CASE f.op \notin {"subscribe", "close"}
      BY <1>1, <1>4, <3>3 DEF IInv, LinkInv
    <3> QED BY <3>1, <3>2, <3>3
  <2>4. conn' # "closed" => \A g \in ToSet(outbound') : g.op # "close"
    BY <1>1, <1>3 DEF IInv, LinkInv
  <2>5. conn' = "closed" =>
          /\ group' = NoneGrouped
          /\ \A i \in DOMAIN outbound' : outbound'[i].op = "close" => i = Len(outbound')
    <3>1. /\ Len(outbound) \in Nat /\ DOMAIN outbound = 1..Len(outbound)
          /\ Len(outbound') = Len(outbound) - 1
          /\ DOMAIN outbound' = 1..(Len(outbound) - 1)
          /\ \A i \in 1..Len(outbound') : outbound'[i] = outbound[i + 1]
      BY <1>1, <1>2, <1>3, LenProperties, HeadTailProperties
    <3>2. ASSUME conn = "closed", NEW i \in DOMAIN outbound', outbound'[i].op = "close"
          PROVE  i = Len(outbound')
      <4>1. i + 1 \in DOMAIN outbound /\ outbound[i + 1].op = "close" BY <3>1, <3>2
      <4>2. i + 1 = Len(outbound) BY <3>2, <4>1 DEF IInv, LinkInv
      <4> QED BY <3>1, <4>2
    <3> QED BY <1>1, <3>2 DEF IInv, LinkInv
  <2> QED BY <2>1, <2>2, <2>3, <2>4, <2>5 DEF LinkInv
<1>13. SettledInv'
  <2>1. settled \subseteq Landed \cup Carried(outbound) BY DEF IInv, SettledInv
  <2>2. Carried(outbound) \subseteq Carried(<<f>>) \cup Carried(outbound')
    <3>1. ToSet(<<f>>) = {f} BY DEF ToSet
    <3> QED BY <1>1, <1>3, <3>1 DEF Carried
  <2>3. CASE Subscribe \in ToSet(outbound)
    <3>1. settled' = settled \ Carried(<<f>>) BY <1>1, <2>3
    <3> QED BY <1>1, <1>5, <2>1, <2>2, <3>1 DEF IInv, SettledInv
  <2>4. CASE Subscribe \notin ToSet(outbound)
    <3>1. settled' = settled /\ broker.attached BY <1>1, <1>9, <2>4
    <3>2. \A p \in Carried(<<f>>) : f.op \in {"individual", "cumulative"} /\ p \in Covers(f)
      <4>1. ToSet(<<f>>) = {f} BY DEF ToSet
      <4> QED BY <4>1 DEF Carried
    <3>3. settled \cap Carried(<<f>>) \subseteq Landed'
      <4>1. settled \subseteq Ids BY <1>2 DEF Types
      <4> QED BY <1>1, <1>4, <3>1, <3>2, <4>1 DEF Landed
    <3> QED BY <1>1, <1>5, <2>1, <2>2, <3>1, <3>3 DEF IInv, SettledInv
  <2> QED BY <2>3, <2>4
<1>14. StrandInv'
  <2> DEFINE All == Flying(ToSet(inbound)) \cup ToSet(queue) \cup held \cup nacks
                      \cup Grouped(group) \cup b.pending \cup Asked(ToSet(outbound'))
  <2>1. SUFFICES ASSUME NEW p \in Outstanding' PROVE p \in All
    BY <1>1 DEF StrandInv
  <2>2. p \in Ids /\ p[1] \in b.out /\ p[2] \notin b.acked[p[1]] /\ p \notin Landed'
    BY <1>1, <2>1 DEF Outstanding, Landed
  <2>3. p \in Outstanding BY <1>4, <1>5, <2>2 DEF Outstanding, Landed
  <2>4. broker.attached BY <1>4, <2>2 DEF IInv, LinkInv
  <2>5. \/ p \in Flying(ToSet(inbound)) \cup ToSet(queue) \cup held \cup nacks
                   \cup Grouped(group) \cup broker.pending
        \/ p \in Asked(ToSet(outbound))
    BY <2>3 DEF IInv, StrandInv
  <2>6. CASE p \in Asked(ToSet(outbound))
    <3>1. PICK g \in ToSet(outbound) :
            \/ g.op = "close"
            \/ g.op = "redeliver" /\ \E x \in g.ids : x[1] = p[1]
            \/ g.op \in AckOps /\ p \in Covers(g)
      BY <2>6 DEF Asked
    <3>2. CASE g \in ToSet(outbound')
      <4>1. p \in Asked(ToSet(outbound')) BY <2>2, <3>1, <3>2 DEF Asked
      <4> QED BY <4>1
    <3>3. CASE g = f
      <4>1. CASE f.op = "close" BY <1>4, <2>2, <4>1
      <4>2. CASE f.op = "redeliver" /\ \E x \in f.ids : x[1] = p[1]
        BY <1>4, <2>2, <2>4, <4>2
      <4>3. CASE f.op \in AckOps /\ p \in Covers(f)
        <5>1. CASE f.op = "transactional"
          BY <1>4, <1>5, <2>2, <2>4, <4>3, <5>1
        <5>2. CASE f.op \in {"individual", "cumulative"}
          BY <1>4, <2>2, <2>4, <4>3, <5>2
        <5> QED BY <4>3, <5>1, <5>2 DEF AckOps
      <4> QED BY <3>1, <3>3, <4>1, <4>2, <4>3
    <3> QED BY <1>1, <1>3, <3>2, <3>3
  <2> QED BY <1>4, <2>5, <2>6
<1> QED BY <1>6, <1>7, <1>8, <1>12, <1>13, <1>14 DEF IInv

-----------------------------------------------------------------------------
(* Every step.                                                             *)

LEMMA StutterKeeps == ASSUME IInv, UNCHANGED vars PROVE IInv'
<1>1. UNCHANGED <<batch, unacked, nacks, group, txn, queue, held, conn, outbound,
                  inbound, broker, done, settled, exact>>
  BY DEF vars
<1>2. Landed' = Landed /\ Outstanding' = Outstanding
  BY <1>1 DEF Landed, Outstanding
<1>3. Types' BY <1>1 DEF IInv, Types, GroupTyped
<1>4. OverInv' BY <1>1, <1>2 DEF IInv, OverInv
<1>5. TimeInv' BY <1>1 DEF IInv, TimeInv
<1>6. LinkInv' BY <1>1 DEF IInv, LinkInv
<1>7. SettledInv' BY <1>1, <1>2 DEF IInv, SettledInv
<1>8. StrandInv' BY <1>1, <1>2 DEF IInv, StrandInv
<1> QED BY <1>3, <1>4, <1>5, <1>6, <1>7, <1>8 DEF IInv

LEMMA NextKeeps == ASSUME IInv, [Next]_vars PROVE IInv'
<1>1. CASE Application
  <2>1. CASE Receive BY <2>1, ReceiveKeeps
  <2>2. CASE RedeliverAll BY <2>2, RedeliverAllKeeps
  <2>3. CASE \E ids \in SUBSET held : Cardinality(ids) =< 2 /\ Ack(ids)
    BY <2>3, AckKeeps
  <2>4. ASSUME NEW id \in held,
               \/ AckCumulativeNow(id) \/ AckGroupedIndividual(id)
               \/ AckGroupedCumulative(id) \/ NegativeAck(id) \/ AckInTransaction(id)
        PROVE  IInv'
    BY <2>4, AckCumulativeKeeps, GroupedAckKeeps, NegativeAckKeeps,
       AckInTransactionKeeps
  <2>5. CASE Close BY <2>5, CloseKeeps
  <2>6. CASE SettleTransaction BY <2>6, SettleTransactionKeeps
  <2> QED BY <1>1, <2>1, <2>2, <2>3, <2>4, <2>5, <2>6 DEF Application
<1>2. CASE Driver
  <2>1. CASE Deliver BY <2>1, DeliverKeeps
  <2>2. CASE TickIsLate BY <2>2, TickIsLateKeeps
  <2>3. CASE TimeoutTick \/ NackTick \/ GroupTick \/ LateTick BY <2>3, TickKeeps
  <2>4. CASE Disconnect BY <2>4, DisconnectKeeps
  <2>5. CASE Reset BY <2>5, ResetKeeps
  <2>6. CASE Rebuild BY <2>6, RebuildKeeps
  <2> QED BY <1>2, <2>1, <2>2, <2>3, <2>4, <2>5, <2>6 DEF Driver
<1>3. CASE Environment
  <2>1. CASE BrokerTakes BY <2>1, BrokerTakesKeeps
  <2>2. CASE \E e \in Entries : Dispatch(e) BY <2>2, DispatchKeeps
  <2>3. CASE \E fate \in {"committed", "aborted"} : EndTransaction(fate)
    BY <2>3, EndTransactionKeeps
  <2> QED BY <1>3, <2>1, <2>2, <2>3 DEF Environment
<1>4. CASE UNCHANGED vars BY <1>4, StutterKeeps
<1> QED BY <1>1, <1>2, <1>3, <1>4 DEF Next

\* Every reachable state satisfies the inductive invariant.
THEOREM InvariantHolds == Spec => []IInv
<1>1. Init => IInv BY InitIInv
<1>2. IInv /\ [Next]_vars => IInv' BY NextKeeps
<1> QED BY <1>1, <1>2, PTL DEF Spec

\* However a message is acked (alone, in a list, cumulatively, grouped, or in a
\* transaction), and whatever is redelivered or replayed, the broker never
\* counts a position as acked that the application has not acknowledged: the
\* bitset of a partial ack never carries a sibling over.
THEOREM OverAckTheorem == Spec => []NeverOverAcked
<1>1. IInv => NeverOverAcked
  <2> SUFFICES ASSUME IInv, NEW e \in Entries, NEW i \in broker.acked[e]
               PROVE  <<e, i>> \in done
    BY DEF NeverOverAcked
  <2>1. i \in Fresh(e) BY DEF IInv, Types
  <2>2. <<e, i>> \in Ids /\ <<e, i>>[1] = e /\ <<e, i>>[2] = i BY <2>1, IsId
  <2>3. <<e, i>> \in Landed BY <2>2 DEF Landed
  <2> QED BY <2>3 DEF IInv, OverInv
<1> QED BY <1>1, InvariantHolds, PTL

\* A position that the broker regards as delivered and unacked is always on its
\* way to the application, with it, waiting to be asked for again, or answered
\* by a frame on its way.
THEOREM StrandedTheorem == Spec => []NothingStranded
<1>1. IInv => NothingStranded
  <2> SUFFICES ASSUME IInv, NEW e \in broker.out, NEW i \in Fresh(e) \ broker.acked[e]
               PROVE
         \/ \E k \in DOMAIN inbound : inbound[k].entry = e /\ i \in inbound[k].unacked
         \/ <<e, i>> \in ToSet(queue) \cup held \cup nacks \cup Grouped(group)
         \/ <<e, i>> \in broker.pending
         \/ \E k \in DOMAIN outbound :
              \/ outbound[k].op = "close"
              \/ outbound[k].op = "redeliver" /\ \E x \in outbound[k].ids : x[1] = e
              \/ outbound[k].op \notin {"close", "redeliver", "subscribe"}
                   /\ <<e, i>> \in Covers(outbound[k])
    BY DEF NothingStranded
  <2>1. e \in Entries BY BrokerFields DEF IInv
  <2>2. <<e, i>> \in Ids /\ <<e, i>>[1] = e /\ <<e, i>>[2] = i BY <2>1, IsId
  <2>3. <<e, i>> \in Outstanding BY <2>2 DEF Outstanding
  <2>4. <<e, i>> \in Flying(ToSet(inbound)) \cup ToSet(queue) \cup held \cup nacks
          \cup Grouped(group) \cup broker.pending \cup Asked(ToSet(outbound))
    BY <2>3 DEF IInv, StrandInv
  <2>5. CASE <<e, i>> \in Flying(ToSet(inbound))
    BY <2>2, <2>5 DEF Flying, ToSet
  <2>6. CASE <<e, i>> \in Asked(ToSet(outbound))
    <3>1. PICK k \in DOMAIN outbound :
            \/ outbound[k].op = "close"
            \/ outbound[k].op = "redeliver" /\ \E x \in outbound[k].ids : x[1] = e
            \/ outbound[k].op \in AckOps /\ <<e, i>> \in Covers(outbound[k])
      BY <2>2, <2>6 DEF Asked, ToSet
    <3>2. outbound[k].op \in AckOps =>
            outbound[k].op \notin {"close", "redeliver", "subscribe"}
      BY DEF AckOps
    <3> QED BY <3>1, <3>2
  <2> QED BY <2>4, <2>5, <2>6
<1> QED BY <1>1, InvariantHolds, PTL

\* Over any number of buckets, late ticks and evictions, a message whose ack has
\* left is on no redelivery timer, unless a tick has evicted empty buckets alone
\* from in front of others.
THEOREM UntimedTheorem == Spec => []AckedIsUntimedWhileExact
<1>1. IInv => AckedIsUntimedWhileExact
  BY DEF IInv, TimeInv, AckedIsUntimedWhileExact, AckedIsUntimed
<1> QED BY <1>1, InvariantHolds, PTL

\* When the broker has taken everything up to the close, all that was acked in
\* the session, grouped acks and committed transactions included, is acked there.
THEOREM CloseTheorem == Spec => []CloseKeepsAcks
<1>1. IInv => CloseKeepsAcks
  <2> SUFFICES ASSUME IInv, conn = "closed", outbound = <<>>,
                      NEW p \in settled \cup Grouped(group)
               PROVE  p[2] \in broker.acked[p[1]]
    BY DEF CloseKeepsAcks
  <2>1. Grouped(group) = {} BY DEF IInv, LinkInv, NoneGrouped, Grouped
  <2>2. Carried(outbound) = {} BY ToSetEmpty DEF Carried
  <2>3. p \in Landed BY <2>1, <2>2 DEF IInv, SettledInv
  <2> QED BY <2>3 DEF Landed
<1> QED BY <1>1, InvariantHolds, PTL

=============================================================================
