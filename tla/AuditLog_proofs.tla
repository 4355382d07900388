--------------------------- MODULE AuditLog_proofs ---------------------------
(***************************************************************************)
(* The audit log kept in files is the trail its callers count on: every    *)
(* step of AuditLog is one of AuditTrail or a stutter, for any events,     *)
(* queue and file size, number of archives, failed writes and kills; the   *)
(* chain of its lines is whole, every record is in it once, and a stop     *)
(* writes what waited when it was called.                                  *)
(***************************************************************************)
EXTENDS AuditLog, SequenceTheorems, FiniteSetTheorems, WellFoundedInduction, TLAPS

(* The events of records, and of the lines of the files, in their order. *)
InOrder(recs) == [i \in DOMAIN recs |-> recs[i].event]

AsTrail(lines) == [i \in DOMAIN lines |-> lines[i].rec.event]

Line == [rec : Record, whole : BOOLEAN]

(* ConcatProperties of a sequence that has a name. *)
LEMMA Concatenated ==
  ASSUME NEW S, NEW s \in Seq(S), NEW t \in Seq(S), NEW st, st = s \o t
  PROVE  /\ st \in Seq(S) /\ Len(st) = Len(s) + Len(t)
         /\ \A i \in 1 .. Len(s) + Len(t) : st[i] = IF i <= Len(s) THEN s[i] ELSE t[i - Len(s)]
BY ConcatProperties

LEMMA FunctionIsSeq ==
  ASSUME NEW S, NEW n \in Nat, NEW f \in [1 .. n -> S]
  PROVE  f \in Seq(S) /\ Len(f) = n
BY SeqDef

LEMMA InOrderType ==
  ASSUME NEW recs \in Seq(Record)
  PROVE  /\ InOrder(recs) \in Seq(Event) /\ Len(InOrder(recs)) = Len(recs)
         /\ \A i \in 1 .. Len(recs) : InOrder(recs)[i] = recs[i].event
<1>1. Len(recs) \in Nat /\ DOMAIN recs = 1 .. Len(recs) /\ \A i \in 1 .. Len(recs) : recs[i] \in Record
  BY LenProperties
<1>2. InOrder(recs) \in [1 .. Len(recs) -> Event]
  BY <1>1 DEF InOrder, Record
<1>3. InOrder(recs) \in Seq(Event) /\ Len(InOrder(recs)) = Len(recs)
  BY <1>1, <1>2, FunctionIsSeq
<1> QED BY <1>1, <1>3 DEF InOrder

LEMMA AsTrailType ==
  ASSUME NEW lines \in Seq(Line)
  PROVE  /\ AsTrail(lines) \in Seq(Event) /\ Len(AsTrail(lines)) = Len(lines)
         /\ \A i \in 1 .. Len(lines) : AsTrail(lines)[i] = lines[i].rec.event
<1>1. Len(lines) \in Nat /\ DOMAIN lines = 1 .. Len(lines) /\ \A i \in 1 .. Len(lines) : lines[i] \in Line
  BY LenProperties
<1>2. AsTrail(lines) \in [1 .. Len(lines) -> Event]
  BY <1>1 DEF AsTrail, Line, Record
<1>3. AsTrail(lines) \in Seq(Event) /\ Len(AsTrail(lines)) = Len(lines)
  BY <1>1, <1>2, FunctionIsSeq
<1> QED BY <1>1, <1>3 DEF AsTrail

(* Lines put behind others bring their events behind those of the others. *)
LEMMA PutInOrder ==
  ASSUME NEW lines \in Seq(Line), NEW put \in Seq(Line), NEW recs \in Seq(Record), Len(put) = Len(recs),
         \A i \in 1 .. Len(recs) : put[i].rec = recs[i]
  PROVE  lines \o put \in Seq(Line) /\ AsTrail(lines \o put) = AsTrail(lines) \o InOrder(recs)
<1> DEFINE more == lines \o put
<1>1. Len(recs) \in Nat
  BY LenProperties
<1>2. /\ more \in Seq(Line) /\ Len(more) = Len(lines) + Len(recs)
      /\ \A i \in 1 .. Len(lines) + Len(recs) :
           more[i] = IF i <= Len(lines) THEN lines[i] ELSE put[i - Len(lines)]
  <2>1. /\ more \in Seq(Line) /\ Len(more) = Len(lines) + Len(put)
        /\ \A i \in 1 .. Len(lines) + Len(put) :
             more[i] = IF i <= Len(lines) THEN lines[i] ELSE put[i - Len(lines)]
    BY ConcatProperties, ZenonT(40)
  <2> HIDE DEF more
  <2> QED BY <2>1
<1> HIDE DEF more
<1> DEFINE before == AsTrail(lines)
           new == InOrder(recs)
           both == before \o new
<1>3. /\ before \in Seq(Event) /\ Len(before) = Len(lines) /\ \A i \in 1 .. Len(lines) : before[i] = lines[i].rec.event
      /\ new \in Seq(Event) /\ Len(new) = Len(recs) /\ \A i \in 1 .. Len(recs) : new[i] = recs[i].event
  BY AsTrailType, InOrderType
<1> HIDE DEF before, new
<1>4. /\ both \in Seq(Event) /\ Len(both) = Len(lines) + Len(recs)
      /\ \A i \in 1 .. Len(lines) + Len(recs) :
           both[i] = IF i <= Len(lines) THEN before[i] ELSE new[i - Len(lines)]
  <2>0. before \in Seq(Event) /\ new \in Seq(Event)
    BY <1>3
  <2>1. /\ both \in Seq(Event) /\ Len(both) = Len(before) + Len(new)
        /\ \A i \in 1 .. Len(before) + Len(new) :
             both[i] = IF i <= Len(before) THEN before[i] ELSE new[i - Len(before)]
    BY <2>0, ConcatProperties, ZenonT(40)
  <2> HIDE DEF both
  <2> QED BY <1>3, <2>1
<1> HIDE DEF both
<1>5. Len(lines) \in Nat
  BY LenProperties
<1>6. ASSUME NEW i \in 1 .. Len(lines) + Len(recs) PROVE more[i].rec.event = both[i]
  <2>1. CASE i <= Len(lines)
    <3>1. i \in 1 .. Len(lines)
      BY <1>1, <1>5, <2>1
    <3> QED BY <1>2, <1>3, <1>4, <2>1, <3>1
  <2>2. CASE ~(i <= Len(lines))
    <3>1. i - Len(lines) \in 1 .. Len(recs)
      BY <1>1, <1>5, <2>2
    <3> QED BY <1>2, <1>3, <1>4, <2>2, <3>1
  <2> QED BY <2>1, <2>2
<1>7. /\ AsTrail(more) \in Seq(Event) /\ Len(AsTrail(more)) = Len(more)
      /\ \A i \in 1 .. Len(more) : AsTrail(more)[i] = more[i].rec.event
  BY <1>2, AsTrailType
<1>8. AsTrail(more) = both
  BY <1>2, <1>4, <1>6, <1>7, SeqEqual
<1> QED BY <1>2, <1>8 DEF both, before, new, more

(* What a write puts down is the records it was given, in their order. *)
LEMMA LandedInOrder ==
  ASSUME NEW lines \in Seq(Line), NEW recs \in Seq(Record), NEW t \in BOOLEAN
  PROVE  LET more == lines \o [i \in DOMAIN recs |-> IF i = 1 /\ t THEN Glued(recs[i]) ELSE Whole(recs[i])]
         IN  more \in Seq(Line) /\ AsTrail(more) = AsTrail(lines) \o InOrder(recs)
<1> DEFINE put == [i \in DOMAIN recs |-> IF i = 1 /\ t THEN Glued(recs[i]) ELSE Whole(recs[i])]
<1>1. Len(recs) \in Nat /\ DOMAIN recs = 1 .. Len(recs) /\ \A i \in 1 .. Len(recs) : recs[i] \in Record
  BY LenProperties
<1>2. put \in [1 .. Len(recs) -> Line] /\ \A i \in 1 .. Len(recs) : put[i].rec = recs[i]
  BY <1>1 DEF Line, Glued, Whole
<1>3. put \in Seq(Line) /\ Len(put) = Len(recs)
  BY <1>1, <1>2, FunctionIsSeq
<1> HIDE DEF put
<1>4. lines \o put \in Seq(Line) /\ AsTrail(lines \o put) = AsTrail(lines) \o InOrder(recs)
  BY <1>2, <1>3, PutInOrder
<1> QED BY <1>4 DEF put

(* The oldest records of two batches are those of the first, and behind it *)
(* are those of the second.                                                *)
LEMMA WaitingInOrder ==
  ASSUME NEW b \in Seq(Record), NEW q \in Seq(Record), NEW n \in 0 .. Len(b)
  PROVE  /\ InOrder(b \o q) = InOrder(b) \o InOrder(q)
         /\ InOrder(SubSeq(b, 1, n)) = SubSeq(InOrder(b \o q), 1, n)
         /\ InOrder(q) = SubSeq(InOrder(b \o q), Len(b) + 1, Len(b \o q))
<1>0. Len(b) \in Nat /\ Len(q) \in Nat /\ n \in Nat /\ n <= Len(b)
  BY LenProperties
<1> DEFINE bq == b \o q
<1>1. /\ bq \in Seq(Record) /\ Len(bq) = Len(b) + Len(q)
      /\ \A i \in 1 .. Len(b) + Len(q) : bq[i] = IF i <= Len(b) THEN b[i] ELSE q[i - Len(b)]
  BY Concatenated
<1> HIDE DEF bq
<1> DEFINE eb == InOrder(b)
           eq == InOrder(q)
           both == InOrder(bq)
<1>2. /\ eb \in Seq(Event) /\ Len(eb) = Len(b) /\ \A i \in 1 .. Len(b) : eb[i] = b[i].event
      /\ eq \in Seq(Event) /\ Len(eq) = Len(q) /\ \A i \in 1 .. Len(q) : eq[i] = q[i].event
      /\ both \in Seq(Event) /\ Len(both) = Len(b) + Len(q)
      /\ \A i \in 1 .. Len(b) + Len(q) : both[i] = bq[i].event
  BY <1>1, InOrderType
<1> HIDE DEF eb, eq, both
<1>3. \A i \in 1 .. Len(b) + Len(q) : both[i] = IF i <= Len(b) THEN eb[i] ELSE eq[i - Len(b)]
  <2> SUFFICES ASSUME NEW i \in 1 .. Len(b) + Len(q)
               PROVE  both[i] = IF i <= Len(b) THEN eb[i] ELSE eq[i - Len(b)]
    OBVIOUS
  <2>1. CASE i <= Len(b)
    BY <1>0, <1>1, <1>2, <2>1
  <2>2. CASE ~(i <= Len(b))
    <3>1. i - Len(b) \in 1 .. Len(q)
      BY <1>0, <2>2
    <3> QED BY <1>1, <1>2, <2>2, <3>1
  <2> QED BY <2>1, <2>2
<1>4. /\ eb \o eq \in Seq(Event) /\ Len(eb \o eq) = Len(b) + Len(q)
      /\ \A i \in 1 .. Len(b) + Len(q) : (eb \o eq)[i] = IF i <= Len(b) THEN eb[i] ELSE eq[i - Len(b)]
  <2> DEFINE ebq == eb \o eq
  <2>1. /\ ebq \in Seq(Event) /\ Len(ebq) = Len(eb) + Len(eq)
        /\ \A i \in 1 .. Len(eb) + Len(eq) : ebq[i] = IF i <= Len(eb) THEN eb[i] ELSE eq[i - Len(eb)]
    <3>1. eb \in Seq(Event) /\ eq \in Seq(Event)
      BY <1>2
    <3> QED BY <3>1, Concatenated
  <2> HIDE DEF ebq
  <2>2. /\ ebq \in Seq(Event) /\ Len(ebq) = Len(b) + Len(q)
        /\ \A i \in 1 .. Len(b) + Len(q) : ebq[i] = IF i <= Len(b) THEN eb[i] ELSE eq[i - Len(b)]
    BY <1>2, <2>1
  <2> QED BY <2>2 DEF ebq
<1>5. both = eb \o eq
  BY <1>2, <1>3, <1>4, SeqEqual
<1>6. /\ SubSeq(b, 1, n) \in Seq(Record) /\ Len(SubSeq(b, 1, n)) = n
      /\ \A i \in 1 .. n : SubSeq(b, 1, n)[i] = b[i]
  <2>1. \A i \in 1 .. n : b[i] \in Record
    BY <1>0, ElementOfSeq
  <2> QED BY <1>0, <2>1, SubSeqProperties
<1>7. /\ SubSeq(both, 1, n) \in Seq(Event) /\ Len(SubSeq(both, 1, n)) = n
      /\ \A i \in 1 .. n : SubSeq(both, 1, n)[i] = both[i]
  <2>1. \A i \in 1 .. n : both[i] \in Event
    BY <1>0, <1>2, ElementOfSeq
  <2> QED BY <1>0, <2>1, SubSeqProperties
<1>8. InOrder(SubSeq(b, 1, n)) = SubSeq(both, 1, n)
  <2>1. /\ InOrder(SubSeq(b, 1, n)) \in Seq(Event) /\ Len(InOrder(SubSeq(b, 1, n))) = n
        /\ \A i \in 1 .. n : InOrder(SubSeq(b, 1, n))[i] = b[i].event
    BY <1>6, InOrderType
  <2>2. ASSUME NEW i \in 1 .. n PROVE both[i] = b[i].event
    <3>1. i \in 1 .. Len(b) /\ i \in 1 .. Len(b) + Len(q) /\ i <= Len(b)
      BY <1>0
    <3> QED BY <1>2, <1>3, <3>1
  <2> QED BY <1>7, <2>1, <2>2, SeqEqual
<1>9. eq = SubSeq(both, Len(b) + 1, Len(b) + Len(q))
  <2> DEFINE rest == SubSeq(both, Len(b) + 1, Len(b) + Len(q))
  <2>1. \A i \in Len(b) + 1 .. Len(b) + Len(q) : both[i] \in Event
    BY <1>0, <1>2, ElementOfSeq
  <2>2. /\ rest \in Seq(Event)
        /\ Len(rest) = IF Len(b) + 1 <= Len(b) + Len(q) THEN Len(b) + Len(q) - (Len(b) + 1) + 1 ELSE 0
        /\ \A i \in 1 .. Len(b) + Len(q) - (Len(b) + 1) + 1 : rest[i] = both[Len(b) + 1 + i - 1]
    BY <1>0, <2>1, SubSeqProperties
  <2> HIDE DEF rest
  <2>3. Len(rest) = Len(q)
    BY <1>0, <2>2
  <2>4. ASSUME NEW i \in 1 .. Len(q) PROVE rest[i] = eq[i]
    <3>1. rest[i] = both[Len(b) + i] /\ Len(b) + i \in 1 .. Len(b) + Len(q)
      BY <1>0, <2>2
    <3> QED BY <1>0, <1>3, <3>1
  <2>5. eq = rest
    BY <1>2, <2>2, <2>3, <2>4, SeqEqual
  <2> QED BY <2>5 DEF rest
<1> QED BY <1>1, <1>5, <1>8, <1>9 DEF eb, eq, both, bq

LEMMA InOrderConcat ==
  ASSUME NEW b \in Seq(Record), NEW q \in Seq(Record)
  PROVE  InOrder(b \o q) = InOrder(b) \o InOrder(q) /\ InOrder(b \o q) \in Seq(Event)
<1>1. 0 \in 0 .. Len(b)
  BY LenProperties
<1>2. InOrder(b) \in Seq(Event) /\ InOrder(q) \in Seq(Event)
  BY InOrderType
<1>3. InOrder(b) \o InOrder(q) \in Seq(Event)
  BY <1>2, ConcatProperties
<1> QED BY <1>1, <1>3, WaitingInOrder

(* A record put in the queue is the last of those that wait. *)
LEMMA QueuedInOrder ==
  ASSUME NEW b \in Seq(Record), NEW q \in Seq(Record), NEW r \in Record
  PROVE  /\ Append(q, r) \in Seq(Record)
         /\ InOrder(b \o Append(q, r)) = Append(InOrder(b \o q), r.event)
         /\ EventsOf(Append(q, r)) = EventsOf(q) \cup {r.event}
<1>0. Len(q) \in Nat /\ DOMAIN q = 1 .. Len(q)
  BY LenProperties
<1>1. /\ Append(q, r) \in Seq(Record) /\ Len(Append(q, r)) = Len(q) + 1
      /\ \A i \in 1 .. Len(q) : Append(q, r)[i] = q[i]
      /\ Append(q, r)[Len(q) + 1] = r
  BY AppendProperties
<1>2. /\ InOrder(q) \in Seq(Event) /\ Len(InOrder(q)) = Len(q)
      /\ \A i \in 1 .. Len(q) : InOrder(q)[i] = q[i].event
  BY InOrderType
<1>3. r.event \in Event
  BY DEF Record
<1> DEFINE more == Append(q, r)
           named == Append(InOrder(q), r.event)
<1>4. /\ InOrder(more) \in Seq(Event) /\ Len(InOrder(more)) = Len(q) + 1
      /\ \A i \in 1 .. Len(q) + 1 : InOrder(more)[i] = more[i].event
  BY <1>1, InOrderType
<1>5. /\ named \in Seq(Event) /\ Len(named) = Len(q) + 1
      /\ \A i \in 1 .. Len(q) : named[i] = q[i].event
      /\ named[Len(q) + 1] = r.event
  BY <1>2, <1>3, AppendProperties
<1>6. ASSUME NEW i \in 1 .. Len(q) + 1 PROVE InOrder(more)[i] = named[i]
  <2>1. CASE i = Len(q) + 1
    BY <1>0, <1>1, <1>4, <1>5, <2>1
  <2>2. CASE i # Len(q) + 1
    <3>1. i \in 1 .. Len(q)
      BY <1>0, <2>2
    <3> QED BY <1>0, <1>1, <1>4, <1>5, <3>1
  <2> QED BY <2>1, <2>2
<1>7. InOrder(more) = named
  <2> HIDE DEF more, named
  <2> QED BY <1>4, <1>5, <1>6, SeqEqual
<1>8. InOrder(b \o more) = Append(InOrder(b \o q), r.event)
  <2>1. InOrder(b \o more) = InOrder(b) \o named
    BY <1>1, <1>7, InOrderConcat
  <2>2. InOrder(b) \in Seq(Event)
    BY InOrderType
  <2>3. named = InOrder(q) \o <<r.event>>
    BY <1>2, <1>3, AppendIsConcat
  <2>4. InOrder(b) \o (InOrder(q) \o <<r.event>>) = (InOrder(b) \o InOrder(q)) \o <<r.event>>
    BY <1>2, <1>3, <2>2, ConcatAssociative
  <2>5. InOrder(b) \o InOrder(q) = InOrder(b \o q) /\ InOrder(b \o q) \in Seq(Event)
    BY InOrderConcat
  <2>6. InOrder(b \o q) \o <<r.event>> = Append(InOrder(b \o q), r.event)
    BY <1>3, <2>5, AppendIsConcat
  <2> QED BY <2>1, <2>3, <2>4, <2>5, <2>6
<1>9. EventsOf(more) = EventsOf(q) \cup {r.event}
  <2>1. DOMAIN more = 1 .. Len(q) + 1
    BY <1>1, LenProperties
  <2> HIDE DEF more
  <2>2. \A i \in 1 .. Len(q) : more[i] = q[i]
    BY <1>1 DEF more
  <2>3. more[Len(q) + 1] = r
    BY <1>1 DEF more
  <2> QED BY <1>0, <2>1, <2>2, <2>3 DEF EventsOf
<1> QED BY <1>1, <1>8, <1>9

(* The events of a sequence of records, and of the files. *)
LEMMA EventsInOrder ==
  ASSUME NEW b \in Seq(Record), NEW q \in Seq(Record)
  PROVE  /\ EventsOf(b) = Range(InOrder(b)) /\ EventsOf(b) \subseteq Event
         /\ EventsOf(b \o q) = EventsOf(b) \cup EventsOf(q)
<1>1. ASSUME NEW s \in Seq(Record)
      PROVE  EventsOf(s) = Range(InOrder(s)) /\ EventsOf(s) \subseteq Event
  <2>1. /\ DOMAIN s = 1 .. Len(s) /\ DOMAIN InOrder(s) = 1 .. Len(s)
        /\ \A i \in 1 .. Len(s) : InOrder(s)[i] = s[i].event /\ s[i].event \in Event
    <3>1. Len(s) \in Nat /\ DOMAIN s = 1 .. Len(s) /\ \A i \in 1 .. Len(s) : s[i] \in Record
      BY LenProperties
    <3>2. InOrder(s) \in Seq(Event) /\ Len(InOrder(s)) = Len(s) /\ \A i \in 1 .. Len(s) : InOrder(s)[i] = s[i].event
      BY InOrderType
    <3>3. DOMAIN InOrder(s) = 1 .. Len(s)
      BY <3>2, LenProperties
    <3> QED BY <3>1, <3>2, <3>3 DEF Record
  <2> QED BY <2>1 DEF EventsOf, Range
<1>2. b \o q \in Seq(Record) /\ InOrder(b) \in Seq(Event) /\ InOrder(q) \in Seq(Event)
  BY ConcatProperties, InOrderType
<1>3. InOrder(b \o q) = InOrder(b) \o InOrder(q)
  BY InOrderConcat
<1>4. Range(InOrder(b) \o InOrder(q)) = Range(InOrder(b)) \cup Range(InOrder(q))
  BY <1>2, RangeConcatenation
<1> QED BY <1>1, <1>2, <1>3, <1>4

LEMMA WrittenInOrder ==
  ASSUME NEW lines \in Seq(Line)
  PROVE  LinesFrom(lines, 1) = Range(AsTrail(lines)) /\ LinesFrom(lines, 1) \subseteq Event
<1>1. /\ Len(lines) \in Nat /\ DOMAIN lines = 1 .. Len(lines) /\ DOMAIN AsTrail(lines) = 1 .. Len(lines)
      /\ \A i \in 1 .. Len(lines) : AsTrail(lines)[i] = lines[i].rec.event /\ lines[i].rec.event \in Event
  <2>1. Len(lines) \in Nat /\ DOMAIN lines = 1 .. Len(lines) /\ \A i \in 1 .. Len(lines) : lines[i] \in Line
    BY LenProperties
  <2>2. /\ AsTrail(lines) \in Seq(Event) /\ Len(AsTrail(lines)) = Len(lines)
        /\ \A i \in 1 .. Len(lines) : AsTrail(lines)[i] = lines[i].rec.event
    BY AsTrailType
  <2>3. DOMAIN AsTrail(lines) = 1 .. Len(lines)
    BY <2>2, LenProperties
  <2> QED BY <2>1, <2>2, <2>3 DEF Line, Record
<1> QED BY <1>1 DEF LinesFrom, Range

-----------------------------------------------------------------------------
(* Types *)

LEMMA MaxExists ==
  ASSUME NEW n \in Nat, NEW S \in SUBSET (1 .. n), S # {}
  PROVE  Max(S) \in S
<1> DEFINE R == OpToRel(<, Nat)
           left(x) == n - x
           T == {left(x) : x \in S}
<1>1. T \subseteq Nat /\ T # {}
  OBVIOUS
<1>2. PICK t \in T : \A u \in T : <<u, t>> \notin R
  BY <1>1, NatLessThanWellFounded, WFMin, Zenon
<1>3. PICK x \in S : t = left(x)
  OBVIOUS
<1>4. ASSUME NEW y \in S, ~(x >= y) PROVE FALSE
  <2>1. left(y) \in T /\ left(y) \in Nat /\ t \in Nat /\ left(y) < t
    BY <1>1, <1>3, <1>4
  <2>2. <<left(y), t>> \in Nat \X Nat /\ <<left(y), t>>[1] < <<left(y), t>>[2]
    BY <2>1
  <2>3. <<left(y), t>> \in R
    BY <2>2, Zenon DEF OpToRel
  <2> QED BY <1>2, <2>1, <2>3
<1>5. \E x1 \in S : \A y \in S : x1 >= y
  BY <1>4
<1> QED BY <1>5 DEF Max

(* A chain is resumed from a record of the files, or begun. *)
LEMMA ResumedFrom ==
  ASSUME LogTypeOK
  PROVE  LastReadable.seq \in Nat /\ LastReadable.event \in Event \cup {Genesis}
<1> DEFINE readable == {i \in NewestFile : log[i].whole}
<1>1. log \in Seq(Line) /\ live \in Nat \ {0} /\ archives \in Seq(Nat \ {0})
  BY DEF LogTypeOK, Line
<1>2. Len(log) \in Nat /\ \A i \in 1 .. Len(log) : log[i] \in Line
  BY <1>1, LenProperties
<1>3. archives # <<>> => Last(archives) \in Nat \ {0}
  <2>1. archives # <<>> => Len(archives) \in 1 .. Len(archives)
    BY <1>1, EmptySeq
  <2> QED BY <1>1, <2>1, ElementOfSeq DEF Last
<1>4. NewestFile \subseteq 1 .. Len(log)
  BY <1>1, <1>2, <1>3 DEF NewestFile
<1>5. CASE readable = {}
  BY <1>5 DEF LastReadable, NoRecord
<1>6. CASE readable # {}
  <2>1. Max(readable) \in readable
    BY <1>2, <1>4, <1>6, MaxExists
  <2>2. log[Max(readable)] \in Line
    BY <1>2, <1>4, <2>1
  <2>3. LastReadable = log[Max(readable)].rec
    BY <1>6 DEF LastReadable
  <2> HIDE DEF readable
  <2> QED BY <2>2, <2>3 DEF Line, Record
<1> QED BY <1>5, <1>6

TurnType == [by : Event \cup {Timer, Close}, sync : BOOLEAN]

(* A flush is asked for behind the others, and the first is settled. *)
LEMMA TurnsType ==
  ASSUME NEW ts \in Seq(TurnType), NEW by \in Event \cup {Timer, Close}, NEW sync \in BOOLEAN
  PROVE  /\ Append(ts, Turn(by, sync)) \in Seq(TurnType) /\ Append(ts, Turn(by, sync)) # <<>>
         /\ ts # <<>> => Head(ts) \in TurnType /\ Tail(ts) \in Seq(TurnType)
                          /\ Append(Tail(ts), Turn(by, sync)) \in Seq(TurnType)
<1>1. Turn(by, sync) \in TurnType
  BY DEF Turn, TurnType
<1>2. ts # <<>> => Head(ts) \in TurnType /\ Tail(ts) \in Seq(TurnType)
  BY HeadTailProperties
<1> QED BY <1>1, <1>2, AppendProperties

LEMMA InitLogTypes == Init => LogTypeOK
<1> SUFFICES ASSUME Init PROVE LogTypeOK
  OBVIOUS
<1>1. <<>> \in Seq(Record) /\ <<>> \in Seq([by : Event \cup {Timer, Close}, sync : BOOLEAN])
      /\ <<>> \in Seq([rec : Record, whole : BOOLEAN]) /\ <<>> \in Seq(Nat \ {0})
  BY EmptySeq
<1>2. NewChain \in [seq : Nat, prev : Event \cup {Genesis}, resumed : {"no", "reading", "yes"}]
  BY DEF NewChain
<1>3. /\ mode \in {"down", "up", "closing"} /\ stage \in {"idle", "write", "publish", "rotate"}
      /\ call \in [Event -> {"new", "resuming", "writing", "flushing", "recorded", "refused", "dropped", "cut"}]
      /\ torn \in BOOLEAN /\ live \in Nat \ {0} /\ faults \in Nat
      /\ synced \subseteq Event /\ owed \subseteq Event
  <2>1. /\ mode = "down" /\ stage = "idle" /\ torn = FALSE /\ live = 1 /\ faults = 0
        /\ synced = {} /\ owed = {} /\ call = [e \in Event |-> "new"]
    BY DEF Init
  <2>2. [e \in Event |-> "new"] \in [Event -> {"new", "resuming", "writing", "flushing", "recorded",
                                               "refused", "dropped", "cut"}]
    OBVIOUS
  <2>3. 1 \in Nat \ {0} /\ 0 \in Nat /\ FALSE \in BOOLEAN /\ {} \subseteq Event
        /\ "down" \in {"down", "up", "closing"} /\ "idle" \in {"idle", "write", "publish", "rotate"}
    OBVIOUS
  <2> QED BY <2>1, <2>2, <2>3, Zenon
<1>4. head \in [seq : Nat, event : Event \cup {Genesis}]
  <2>1. head = [seq |-> 0, event |-> Genesis]
    BY DEF Init
  <2> QED BY <2>1
<1>5. chain = NewChain /\ queue = <<>> /\ batch = <<>> /\ turns = <<>> /\ log = <<>> /\ archives = <<>>
  BY DEF Init
<1> QED BY <1>1, <1>2, <1>3, <1>4, <1>5, Zenon DEF LogTypeOK

Calls == {"new", "resuming", "writing", "flushing", "recorded", "refused", "dropped", "cut"}

(* A record accepted. *)
LEMMA StampsType ==
  ASSUME LogTypeOK, NEW e \in Event, NEW seq \in Nat, NEW prev \in Event \cup {Genesis}, Stamps(e, seq, prev)
  PROVE  /\ chain' \in [seq : Nat, prev : Event \cup {Genesis}, resumed : {"no", "reading", "yes"}]
         /\ queue' \in Seq(Record) /\ turns' \in Seq(TurnType) /\ call' \in [Event -> Calls]
<1> DEFINE rec == [event |-> e, seq |-> seq + 1, prev |-> prev]
<1>1. rec \in Record
  BY DEF Record
<1>2. queue' = Append(queue, rec) /\ chain' = [seq |-> seq + 1, prev |-> e, resumed |-> "yes"]
  BY DEF Stamps
<1>3. queue' \in Seq(Record)
  BY <1>1, <1>2, AppendProperties DEF LogTypeOK
<1>4. turns \in Seq(TurnType) /\ call \in [Event -> Calls]
  BY DEF LogTypeOK, TurnType, Calls
<1>5. turns' = turns \/ turns' = Append(turns, Turn(e, e \in Critical))
  BY DEF Stamps
<1>6. turns' \in Seq(TurnType)
  <2>1. (e \in Critical) \in BOOLEAN
    OBVIOUS
  <2>2. Append(turns, Turn(e, e \in Critical)) \in Seq(TurnType)
    BY <1>4, <2>1, TurnsType
  <2> QED BY <1>4, <1>5, <2>2
<1>7. call' = [call EXCEPT ![e] = "writing"] \/ call' = [call EXCEPT ![e] = "recorded"]
  BY DEF Stamps
<1>8. call' \in [Event -> Calls]
  BY <1>4, <1>7 DEF Calls
<1> QED BY <1>2, <1>3, <1>6, <1>8

(* A flush settled. *)
LEMMA SettlesType ==
  ASSUME LogTypeOK, turns # <<>>, NEW ok \in BOOLEAN, Settles(ok)
  PROVE  turns' \in Seq(TurnType) /\ call' \in [Event -> Calls] /\ stage' = "idle"
<1>1. turns \in Seq(TurnType) /\ call \in [Event -> Calls]
  BY DEF LogTypeOK, TurnType, Calls
<1>2. Head(turns).by \in Event \cup {Timer, Close} /\ Tail(turns) \in Seq(TurnType)
  BY <1>1, TurnsType, EventAssumption DEF TurnType
<1>3. turns' \in {Tail(turns), Append(Tail(turns), Turn(Head(turns).by, FALSE))} /\ stage' = "idle"
  BY DEF Settles
<1>4. turns' \in Seq(TurnType)
  BY <1>1, <1>2, <1>3, TurnsType
<1>5. call' = call \/ \E c \in {"flushing", "recorded", "refused", "dropped"} : call' = [call EXCEPT ![Head(turns).by] = c]
  BY DEF Settles
<1>6. call' \in [Event -> Calls]
  BY <1>1, <1>5 DEF Calls
<1> QED BY <1>3, <1>4, <1>6

(* A process that ended. *)
LEMMA ForgetsType ==
  ASSUME LogTypeOK, Forgets
  PROVE  /\ mode' = "down" /\ queue' = <<>> /\ batch' = <<>> /\ turns' = <<>> /\ stage' = "idle" /\ owed' = {}
         /\ chain' \in [seq : Nat, prev : Event \cup {Genesis}, resumed : {"no", "reading", "yes"}]
         /\ call' \in [Event -> Calls]
BY DEF LogTypeOK, Forgets, NewChain, Calls

(* What a write that failed or was cut off left in the files. *)
LEMMA LandedType ==
  ASSUME LogTypeOK, NEW p \in Part, Landed(p)
  PROVE  /\ log' \in Seq(Line) /\ torn' \in BOOLEAN
         /\ p.n \in 0 .. Len(batch)
         /\ AsTrail(log') = AsTrail(log) \o InOrder(SubSeq(batch, 1, p.n))
<1>1. p.n \in 0 .. Len(batch) /\ p.piece \in BOOLEAN
  BY DEF Part
<1>2. batch \in Seq(Record) /\ Len(batch) \in Nat /\ \A i \in 1 .. Len(batch) : batch[i] \in Record
  BY LenProperties DEF LogTypeOK
<1>3. SubSeq(batch, 1, p.n) \in Seq(Record)
  BY <1>1, <1>2, SubSeqProperties
<1>4. log \in Seq(Line) /\ torn \in BOOLEAN
  BY DEF LogTypeOK, Line
<1> DEFINE recs == SubSeq(batch, 1, p.n)
<1>5. log' = log \o [i \in DOMAIN recs |-> IF i = 1 /\ torn THEN Glued(recs[i]) ELSE Whole(recs[i])]
  BY DEF Landed, Landing
<1> HIDE DEF recs
<1>6. log' \in Seq(Line) /\ AsTrail(log') = AsTrail(log) \o InOrder(recs)
  BY <1>3, <1>4, <1>5, LandedInOrder DEF recs
<1>7. torn' \in BOOLEAN
  BY <1>1, <1>4 DEF Landed
<1> QED BY <1>1, <1>6, <1>7 DEF recs

(* A flush under way is the first that was asked for, and has records in   *)
(* hand while it writes them only.                                         *)
StageInv == /\ stage # "idle" => turns # <<>>
            /\ stage # "write" => batch = <<>>

LEMMA StepKeepsLogTypes == LogTypeOK /\ StageInv /\ [Next]_vars => LogTypeOK'
<1> SUFFICES ASSUME LogTypeOK, StageInv, [Next]_vars PROVE LogTypeOK'
  OBVIOUS
<1> DEFINE ChainType == [seq : Nat, prev : Event \cup {Genesis}, resumed : {"no", "reading", "yes"}]
           HeadType == [seq : Nat, event : Event \cup {Genesis}]
           TypesOf(m, c, ca, q, b, ts, st, l, t, as, li, h, f, sy, o) ==
             /\ m \in {"down", "up", "closing"} /\ c \in ChainType /\ ca \in [Event -> Calls]
             /\ q \in Seq(Record) /\ b \in Seq(Record) /\ ts \in Seq(TurnType)
             /\ st \in {"idle", "write", "publish", "rotate"}
             /\ l \in Seq(Line) /\ t \in BOOLEAN /\ as \in Seq(Nat \ {0}) /\ li \in Nat \ {0}
             /\ h \in HeadType /\ f \in Nat /\ sy \subseteq Event /\ o \subseteq Event
<1>1. LogTypeOK <=> TypesOf(mode, chain, call, queue, batch, turns, stage, log, torn, archives, live, head, faults, synced, owed)
  BY DEF LogTypeOK, TurnType, Calls, Line
<1>2. LogTypeOK' <=> TypesOf(mode', chain', call', queue', batch', turns', stage', log', torn', archives', live', head',
                             faults', synced', owed')
  BY DEF LogTypeOK, TurnType, Calls, Line
<1> HIDE DEF ChainType, HeadType
<1>3. <<>> \in Seq(Record) /\ <<>> \in Seq(TurnType)
  BY EmptySeq
<1>4. ASSUME NEW e \in Event, FirstRecord(e) PROVE LogTypeOK'
  <2>1. [chain EXCEPT !.resumed = "reading"] \in ChainType
    BY <1>1 DEF ChainType
  <2>2. [call EXCEPT ![e] = "resuming"] \in [Event -> Calls]
    BY <1>1 DEF Calls
  <2> QED BY <1>1, <1>2, <1>4, <2>1, <2>2 DEF FirstRecord, files
<1>5. ASSUME NEW e \in Event, Resumes(e) \/ Records(e) PROVE LogTypeOK'
  <2>1. chain.seq \in Nat /\ chain.prev \in Event \cup {Genesis}
    BY <1>1 DEF ChainType
  <2>2. /\ chain' \in ChainType /\ queue' \in Seq(Record) /\ turns' \in Seq(TurnType) /\ call' \in [Event -> Calls]
    BY <1>5, <2>1, ResumedFrom, StampsType DEF Resumes, Records, ChainType
  <2> QED BY <1>1, <1>2, <1>5, <2>2 DEF Resumes, Records, files
<1>6. CASE TimerFlushes
  <2>1. turns' \in Seq(TurnType)
    BY <1>1, <1>6, TurnsType DEF TimerFlushes
  <2> QED BY <1>1, <1>2, <1>6, <2>1 DEF TimerFlushes, files
<1>7. ASSUME Forgets PROVE /\ mode' \in {"down", "up", "closing"} /\ chain' \in ChainType /\ call' \in [Event -> Calls]
                           /\ queue' \in Seq(Record) /\ batch' \in Seq(Record) /\ turns' \in Seq(TurnType)
                           /\ stage' \in {"idle", "write", "publish", "rotate"} /\ owed' \subseteq Event
  BY <1>3, <1>7, ForgetsType DEF ChainType
<1>8. CASE NothingToFlush
  <2>1. CASE Forgets
    BY <1>1, <1>2, <1>7, <1>8, <2>1 DEF NothingToFlush, files
  <2>2. CASE Settles(TRUE) /\ UNCHANGED <<mode, chain, queue, batch, owed>>
    <3>1. turns' \in Seq(TurnType) /\ call' \in [Event -> Calls] /\ stage' = "idle"
      BY <1>8, <2>2, SettlesType DEF NothingToFlush
    <3> QED BY <1>1, <1>2, <1>8, <2>2, <3>1 DEF NothingToFlush, files
  <2> QED BY <1>8, <2>1, <2>2 DEF NothingToFlush
<1>9. CASE TakesQueue
  BY <1>1, <1>2, <1>3, <1>9 DEF TakesQueue, files
<1>10. CASE Writes
  <2>1. log \in Seq(Line) /\ batch \in Seq(Record) /\ torn \in BOOLEAN
    BY <1>1
  <2>2. log' \in Seq(Line)
    BY <1>10, <2>1, LandedInOrder DEF Writes, Landing
  <2>3. synced' \subseteq Event
    BY <1>1, <1>10, EventAssumption DEF Writes
  <2> QED BY <1>1, <1>2, <1>3, <1>10, <2>2, <2>3 DEF Writes
<1>11. ASSUME NEW p \in Part, WriteFails(p) PROVE LogTypeOK'
  <2>1. log' \in Seq(Line) /\ torn' \in BOOLEAN
    BY <1>11, LandedType DEF WriteFails
  <2>2. CASE Forgets
    BY <1>1, <1>2, <1>7, <1>11, <2>1, <2>2 DEF WriteFails
  <2>3. CASE ~Ends /\ Settles(FALSE) /\ queue' = Requeued /\ batch' = <<>> /\ UNCHANGED <<mode, chain, owed>>
    <3>1. queue' \in Seq(Record)
      BY <1>1, <2>3, ConcatProperties DEF Requeued
    <3>2. turns' \in Seq(TurnType) /\ call' \in [Event -> Calls] /\ stage' = "idle"
      BY <1>11, <2>3, SettlesType DEF StageInv, WriteFails
    <3> QED BY <1>1, <1>2, <1>3, <1>11, <2>1, <2>3, <3>1, <3>2 DEF WriteFails
  <2> QED BY <1>11, <2>2, <2>3 DEF WriteFails
<1>12. CASE Publishes
  <2>1. [seq |-> chain.seq, event |-> chain.prev] \in HeadType
    BY <1>1 DEF ChainType, HeadType
  <2> QED BY <1>1, <1>2, <1>12, <2>1 DEF Publishes, files
<1>13. CASE FlushEnds
  <2>1. log' = log /\ torn' = torn /\ archives' \in Seq(Nat \ {0}) /\ live' \in Nat \ {0}
    <3>1. CASE UNCHANGED files
      BY <1>1, <3>1 DEF files
    <3>2. CASE Rotates
      <4> DEFINE all == Append(archives, live)
      <4>1. all \in Seq(Nat \ {0}) /\ Len(all) \in Nat
        BY <1>1, AppendProperties, LenProperties
      <4>2. Len(log) \in Nat
        BY <1>1, LenProperties
      <4> HIDE DEF all
      <4>3. Len(all) > MaxFiles => SubSeq(all, Len(all) - MaxFiles + 1, Len(all)) \in Seq(Nat \ {0})
        <5> SUFFICES ASSUME Len(all) > MaxFiles PROVE SubSeq(all, Len(all) - MaxFiles + 1, Len(all)) \in Seq(Nat \ {0})
          OBVIOUS
        <5>1. Len(all) - MaxFiles + 1 \in Int /\ Len(all) \in Int
              /\ Len(all) - MaxFiles + 1 .. Len(all) \subseteq 1 .. Len(all)
          BY <4>1, SizeAssumption
        <5>2. \A i \in Len(all) - MaxFiles + 1 .. Len(all) : all[i] \in Nat \ {0}
          BY <4>1, <5>1, ElementOfSeq
        <5> QED BY <5>1, <5>2, SubSeqProperties
      <4>4. live' = Len(log) + 1 /\ log' = log /\ torn' = torn
        BY <3>2 DEF Rotates
      <4>5. archives' = IF Len(all) > MaxFiles THEN SubSeq(all, Len(all) - MaxFiles + 1, Len(all)) ELSE all
        BY <3>2 DEF Rotates, all
      <4>6. archives' \in Seq(Nat \ {0})
        BY <4>1, <4>3, <4>5
      <4> QED BY <4>2, <4>4, <4>6
    <3> QED BY <1>13, <3>1, <3>2 DEF FlushEnds
  <2>2. CASE Forgets
    BY <1>1, <1>2, <1>7, <1>13, <2>1, <2>2 DEF FlushEnds
  <2>3. CASE Settles(TRUE) /\ UNCHANGED <<mode, chain, queue, batch, owed>>
    <3>1. turns' \in Seq(TurnType) /\ call' \in [Event -> Calls] /\ stage' = "idle"
      BY <1>13, <2>3, SettlesType DEF StageInv, FlushEnds
    <3> QED BY <1>1, <1>2, <1>13, <2>1, <2>3, <3>1 DEF FlushEnds
  <2> QED BY <1>13, <2>2, <2>3 DEF FlushEnds
<1>14. CASE StartsUp
  BY <1>1, <1>2, <1>14 DEF StartsUp, memory, files
<1>15. CASE Stops
  <2>1. turns' \in Seq(TurnType)
    BY <1>1, <1>15, TurnsType DEF Stops
  <2>2. EventsOf(queue) \cup EventsOf(batch) \subseteq Event
    BY <1>1, EventsInOrder
  <2> QED BY <1>1, <1>2, <1>15, <2>1, <2>2 DEF Stops, files
<1>16. ASSUME NEW p \in Part, Killed(p) PROVE LogTypeOK'
  <2>1. log' \in Seq(Line) /\ torn' \in BOOLEAN
    BY <1>1, <1>16, LandedType DEF Killed
  <2> QED BY <1>1, <1>2, <1>7, <1>16, <2>1 DEF Killed
<1>17. CASE UNCHANGED vars
  BY <1>1, <1>2, <1>17 DEF vars, memory, files
<1> QED BY <1>4, <1>5, <1>6, <1>8, <1>9, <1>10, <1>11, <1>12, <1>13, <1>14, <1>15, <1>16, <1>17 DEF Next, Flushing

LEMMA StepKeepsStage == LogTypeOK /\ StageInv /\ [Next]_vars => StageInv'
<1> SUFFICES ASSUME LogTypeOK, StageInv, [Next]_vars PROVE StageInv'
  OBVIOUS
<1>1. turns \in Seq(TurnType)
  BY DEF LogTypeOK, TurnType
<1>2. \A by \in Event \cup {Timer, Close}, sync \in BOOLEAN : Append(turns, Turn(by, sync)) # <<>>
  BY <1>1, TurnsType
<1>3. ASSUME NEW e \in Event, NEW seq, NEW prev, Stamps(e, seq, prev), UNCHANGED <<stage, batch>> PROVE StageInv'
  <2>1. turns' = turns \/ turns' = Append(turns, Turn(e, e \in Critical))
    BY <1>3 DEF Stamps
  <2>2. Append(turns, Turn(e, e \in Critical)) # <<>>
    <3>1. (e \in Critical) \in BOOLEAN
      OBVIOUS
    <3> QED BY <1>2, <3>1
  <2> QED BY <1>3, <2>1, <2>2 DEF StageInv
<1>4. ASSUME NEW e \in Event, FirstRecord(e) \/ Resumes(e) \/ Records(e) PROVE StageInv'
  BY <1>3, <1>4 DEF FirstRecord, Resumes, Records, StageInv
<1>5. CASE TimerFlushes \/ Stops
  BY <1>2, <1>5 DEF TimerFlushes, Stops, StageInv
<1>6. CASE TakesQueue \/ Writes \/ Publishes \/ StartsUp
  BY <1>6 DEF TakesQueue, Writes, Publishes, StartsUp, StageInv, memory
<1>7. ASSUME NEW p \in Part, Killed(p) PROVE StageInv'
  BY <1>7 DEF Killed, Forgets, StageInv
<1>8. CASE NothingToFlush
  BY <1>8 DEF NothingToFlush, Settles, Forgets, StageInv
<1>9. ASSUME NEW p \in Part, WriteFails(p) PROVE StageInv'
  BY <1>9 DEF WriteFails, Settles, Forgets, StageInv
<1>10. CASE FlushEnds
  BY <1>10 DEF FlushEnds, Settles, Forgets, StageInv
<1>11. CASE UNCHANGED vars
  BY <1>11 DEF vars, memory, StageInv
<1> QED BY <1>4, <1>5, <1>6, <1>7, <1>8, <1>9, <1>10, <1>11 DEF Next, Flushing

(* Every state that can be reached has the types of LogTypeOK. *)
THEOREM LogTypesCorrect == Spec => []LogTypeOK
<1>1. Init => LogTypeOK /\ StageInv
  BY InitLogTypes DEF Init, StageInv
<1>2. LogTypeOK /\ StageInv /\ [Next]_vars => LogTypeOK' /\ StageInv'
  BY StepKeepsLogTypes, StepKeepsStage
<1> QED BY <1>1, <1>2, PTL DEF Spec

-----------------------------------------------------------------------------
(* Where the record of a call is: nowhere before it is accepted, among     *)
(* those that wait or in the files while its first flush is not settled,   *)
(* in the files once it was.  A call awaits one flush at a time, and the   *)
(* flush under way has its record in hand or finds it in the files.        *)
TurnsInv == /\ \A i \in DOMAIN turns : turns[i].by \in Event => call[turns[i].by] \in {"writing", "flushing"}
            /\ \A i, j \in DOMAIN turns : turns[i].by \in Event /\ turns[i].by = turns[j].by => i = j

AccountInv == /\ \A e \in Event : /\ call[e] \in {"new", "resuming"} => e \notin Waiting \cup Written
                                  /\ call[e] = "writing" => e \in Waiting \cup Written
                                  /\ call[e] = "flushing" => e \in Written
              /\ stage # "idle" /\ Head(turns).by \in Event => Head(turns).by \in EventsOf(batch) \cup Written

DownInv == mode = "down" => /\ queue = <<>> /\ turns = <<>> /\ stage = "idle"
                            /\ \A e \in Event : call[e] \notin {"resuming", "writing", "flushing"}

LogInv == LogTypeOK /\ StageInv /\ TurnsInv /\ AccountInv /\ DownInv

LEMMA TurnsFacts ==
  ASSUME LogTypeOK
  PROVE  /\ turns \in Seq(TurnType) /\ Len(turns) \in Nat /\ DOMAIN turns = 1 .. Len(turns)
         /\ \A t \in TurnType : /\ DOMAIN Append(turns, t) = 1 .. Len(turns) + 1
                                /\ \A i \in 1 .. Len(turns) : Append(turns, t)[i] = turns[i]
                                /\ Append(turns, t)[Len(turns) + 1] = t
                                /\ Head(Append(turns, t)) = IF turns = <<>> THEN t ELSE Head(turns)
         /\ turns # <<>> => /\ Head(turns) = turns[1] /\ Len(turns) >= 1
                            /\ Tail(turns) \in Seq(TurnType) /\ Len(Tail(turns)) = Len(turns) - 1
                            /\ DOMAIN Tail(turns) = 1 .. Len(turns) - 1
                            /\ \A i \in 1 .. Len(turns) - 1 : Tail(turns)[i] = turns[i + 1]
<1>1. turns \in Seq(TurnType) /\ Len(turns) \in Nat /\ DOMAIN turns = 1 .. Len(turns)
  BY LenProperties DEF LogTypeOK, TurnType
<1>2. ASSUME NEW t \in TurnType
      PROVE  /\ DOMAIN Append(turns, t) = 1 .. Len(turns) + 1
             /\ \A i \in 1 .. Len(turns) : Append(turns, t)[i] = turns[i]
             /\ Append(turns, t)[Len(turns) + 1] = t
             /\ Head(Append(turns, t)) = IF turns = <<>> THEN t ELSE Head(turns)
  <2> DEFINE more == Append(turns, t)
  <2>1. /\ more \in Seq(TurnType) /\ Len(more) = Len(turns) + 1
        /\ \A i \in 1 .. Len(turns) : more[i] = turns[i]
        /\ more[Len(turns) + 1] = t
    BY <1>1, AppendProperties
  <2>2. DOMAIN more = 1 .. Len(turns) + 1
    BY <2>1, LenProperties
  <2>3. Head(more) = IF turns = <<>> THEN t ELSE Head(turns)
    BY <1>1, HeadTailAppend
  <2> HIDE DEF more
  <2>4. /\ DOMAIN more = 1 .. Len(turns) + 1
        /\ \A i \in 1 .. Len(turns) : more[i] = turns[i]
        /\ more[Len(turns) + 1] = t
        /\ Head(more) = IF turns = <<>> THEN t ELSE Head(turns)
    BY <2>1, <2>2, <2>3
  <2> QED BY <2>4 DEF more
<1>3. ASSUME turns # <<>>
      PROVE  /\ Head(turns) = turns[1] /\ Len(turns) >= 1
             /\ Tail(turns) \in Seq(TurnType) /\ Len(Tail(turns)) = Len(turns) - 1
             /\ DOMAIN Tail(turns) = 1 .. Len(turns) - 1
             /\ \A i \in 1 .. Len(turns) - 1 : Tail(turns)[i] = turns[i + 1]
  <2> DEFINE rest == Tail(turns)
  <2>1. /\ rest \in Seq(TurnType) /\ Len(rest) = Len(turns) - 1
        /\ \A i \in 1 .. Len(rest) : rest[i] = turns[i + 1]
    BY <1>1, <1>3, HeadTailProperties
  <2>2. DOMAIN rest = 1 .. Len(turns) - 1
    BY <2>1, LenProperties
  <2>3. Head(turns) = turns[1] /\ Len(turns) >= 1
    BY <1>1, <1>3, EmptySeq
  <2> HIDE DEF rest
  <2>4. \A i \in 1 .. Len(turns) - 1 : rest[i] = turns[i + 1]
    BY <2>1
  <2> QED BY <2>1, <2>2, <2>3, <2>4 DEF rest
<1> QED BY <1>1, <1>2, <1>3

(* A flush asked for behind the others by somebody who awaits none. *)
LEMMA AskKeepsTurns ==
  ASSUME LogTypeOK, TurnsInv, NEW t \in TurnType, turns' = Append(turns, t),
         \A e \in Event : call[e] \in {"writing", "flushing"} => call'[e] = call[e],
         t.by \in Event => call[t.by] \notin {"writing", "flushing"} /\ call'[t.by] \in {"writing", "flushing"}
  PROVE  TurnsInv'
<1>1. /\ Len(turns) \in Nat /\ DOMAIN turns = 1 .. Len(turns) /\ DOMAIN turns' = 1 .. Len(turns) + 1
      /\ \A i \in 1 .. Len(turns) : turns'[i] = turns[i]
      /\ turns'[Len(turns) + 1] = t
  BY TurnsFacts
<1>2. \A i \in 1 .. Len(turns) + 1 : i \in 1 .. Len(turns) \/ i = Len(turns) + 1
  BY <1>1
<1>3. ASSUME NEW i \in 1 .. Len(turns) + 1, turns'[i].by \in Event PROVE call'[turns'[i].by] \in {"writing", "flushing"}
  BY <1>1, <1>2, <1>3 DEF TurnsInv
<1>4. ASSUME NEW i \in 1 .. Len(turns) + 1, NEW j \in 1 .. Len(turns) + 1,
             turns'[i].by \in Event, turns'[i].by = turns'[j].by
      PROVE  i = j
  BY <1>1, <1>2, <1>4 DEF TurnsInv
<1> QED BY <1>1, <1>3, <1>4 DEF TurnsInv

(* A record accepted. *)
LEMMA StampKeepsAccount ==
  ASSUME LogInv, NEW e \in Event, call[e] \in {"new", "resuming"}, mode # "down",
         NEW seq \in Nat, NEW prev \in Event \cup {Genesis}, Stamps(e, seq, prev),
         UNCHANGED <<mode, stage, batch, log>>
  PROVE  TurnsInv' /\ AccountInv' /\ DownInv'
<1> DEFINE rec == [event |-> e, seq |-> seq + 1, prev |-> prev]
<1>1. batch \in Seq(Record) /\ queue \in Seq(Record) /\ call \in [Event -> Calls]
  BY DEF LogInv, LogTypeOK, Calls
<1>2. rec \in Record /\ rec.event = e /\ queue' = Append(queue, rec)
  BY DEF Record, Stamps
<1>3. EventsOf(queue') = EventsOf(queue) \cup {e}
  BY <1>1, <1>2, QueuedInOrder
<1>4. Waiting' = Waiting \cup {e} /\ Written' = Written /\ EventsOf(batch)' = EventsOf(batch)
  BY <1>3 DEF Waiting, Written, EventsOf, LinesFrom
<1>5. \A f \in Event \ {e} : call'[f] = call[f]
  BY <1>1 DEF Stamps
<1>6. call'[e] \in {"writing", "recorded"}
  BY <1>1 DEF Stamps
<1> DEFINE t == Turn(e, e \in Critical)
<1>7. t \in TurnType /\ t.by = e
  BY DEF Turn, TurnType
<1>8. turns' = turns \/ (turns' = Append(turns, t) /\ call'[e] = "writing")
  BY <1>1 DEF Stamps
<1> HIDE DEF t
<1>9. TurnsInv'
  <2>1. CASE turns' = turns
    <3>1. \A i \in DOMAIN turns : turns[i].by # e
      BY DEF LogInv, TurnsInv
    <3>2. \A i \in DOMAIN turns : turns[i].by \in Event => call'[turns[i].by] = call[turns[i].by]
      BY <1>5, <3>1
    <3> QED BY <2>1, <3>2 DEF LogInv, TurnsInv
  <2>2. CASE turns' = Append(turns, t) /\ call'[e] = "writing"
    <3>1. \A f \in Event : call[f] \in {"writing", "flushing"} => call'[f] = call[f]
      BY <1>5
    <3>2. LogTypeOK /\ TurnsInv
      BY DEF LogInv
    <3>3. call[e] \notin {"writing", "flushing"} /\ call'[e] \in {"writing", "flushing"}
      BY <2>2
    <3> QED BY <1>7, <2>2, <3>1, <3>2, <3>3, AskKeepsTurns
  <2> QED BY <1>8, <2>1, <2>2
<1>10. stage # "idle" => Head(turns') = Head(turns)
  <2>1. stage # "idle" => turns # <<>>
    BY DEF LogInv, StageInv
  <2>2. turns # <<>> => Head(Append(turns, t)) = Head(turns)
    BY <1>7, TurnsFacts DEF LogInv
  <2> QED BY <1>8, <2>1, <2>2
<1>11. ASSUME NEW f \in Event
       PROVE  /\ call'[f] \in {"new", "resuming"} => f \notin Waiting' \cup Written'
              /\ call'[f] = "writing" => f \in Waiting' \cup Written'
              /\ call'[f] = "flushing" => f \in Written'
  <2>1. CASE f = e
    BY <1>4, <1>6, <2>1
  <2>2. CASE f # e
    BY <1>4, <1>5, <2>2 DEF LogInv, AccountInv
  <2> QED BY <2>1, <2>2
<1>12. stage' # "idle" /\ Head(turns').by \in Event => Head(turns').by \in EventsOf(batch') \cup Written'
  BY <1>4, <1>10 DEF LogInv, AccountInv
<1>13. AccountInv'
  BY <1>11, <1>12 DEF AccountInv
<1> QED BY <1>9, <1>13 DEF DownInv

(* A flush settled: well, when its record is in the files. *)
LEMMA SettleKeepsAccount ==
  ASSUME LogInv, turns # <<>>, ~Ends, NEW ok \in BOOLEAN, Settles(ok), mode' = mode,
         Written \subseteq Written', Waiting' \cup Written' = Waiting \cup Written,
         ok /\ Head(turns).by \in Event => Head(turns).by \in Written'
  PROVE  TurnsInv' /\ AccountInv' /\ DownInv'
<1> DEFINE by == Head(turns).by
           rest == Tail(turns)
<1>1. call \in [Event -> Calls]
  BY DEF LogInv, LogTypeOK, Calls
<1>2. /\ turns \in Seq(TurnType) /\ Len(turns) \in Nat /\ DOMAIN turns = 1 .. Len(turns)
      /\ by = turns[1].by /\ Len(turns) >= 1 /\ DOMAIN rest = 1 .. Len(turns) - 1
      /\ rest \in Seq(TurnType) /\ Len(rest) = Len(turns) - 1
      /\ \A i \in 1 .. Len(turns) - 1 : rest[i] = turns[i + 1]
  BY TurnsFacts DEF LogInv
<1>3. by \in Event \cup {Timer} /\ Timer \notin Event
  <2>1. turns[1] \in TurnType
    BY <1>2, ElementOfSeq
  <2> QED BY <1>2, <2>1, EventAssumption DEF TurnType, Ends
<1>4. mode # "down"
  BY DEF LogInv, DownInv
<1>5. stage' = "idle"
  BY DEF Settles
<1>6. \A f \in Event \ {by} : call'[f] = call[f]
  BY <1>1 DEF Settles
<1>7. \A i \in 1 .. Len(turns) - 1 : rest[i].by \in Event => rest[i].by # by /\ call[rest[i].by] \in {"writing", "flushing"}
  <2> SUFFICES ASSUME NEW i \in 1 .. Len(turns) - 1, rest[i].by \in Event
               PROVE  rest[i].by # by /\ call[rest[i].by] \in {"writing", "flushing"}
    OBVIOUS
  <2>1. rest[i] = turns[i + 1] /\ i + 1 \in DOMAIN turns /\ i + 1 # 1 /\ 1 \in DOMAIN turns
    BY <1>2
  <2> QED BY <1>2, <2>1 DEF LogInv, TurnsInv
<1>8. \A i, j \in 1 .. Len(turns) - 1 : rest[i].by \in Event /\ rest[i].by = rest[j].by => i = j
  <2> SUFFICES ASSUME NEW i \in 1 .. Len(turns) - 1, NEW j \in 1 .. Len(turns) - 1, rest[i].by \in Event, rest[i].by = rest[j].by
               PROVE  i = j
    OBVIOUS
  <2>1. rest[i] = turns[i + 1] /\ rest[j] = turns[j + 1] /\ i + 1 \in DOMAIN turns /\ j + 1 \in DOMAIN turns
    BY <1>2
  <2>2. i + 1 = j + 1
    BY <2>1 DEF LogInv, TurnsInv
  <2> QED BY <1>2, <2>2
<1> DEFINE again == Turn(by, FALSE)
           more == Append(rest, again)
<1>9. \/ by \in Event /\ ok /\ call'[by] = "flushing" /\ turns' = more
      \/ by \in Event /\ call'[by] \in {"recorded", "refused", "dropped"} /\ turns' = rest
      \/ by = Timer /\ call' = call /\ turns' = rest
  BY <1>1, <1>3, EventAssumption DEF Settles
<1>10. again \in TurnType /\ again.by = by
  BY <1>3 DEF TurnType, Turn
<1>11. /\ DOMAIN more = 1 .. Len(turns) /\ more[Len(turns)] = again
       /\ \A i \in 1 .. Len(turns) - 1 : more[i] = rest[i]
  <2>1. /\ more \in Seq(TurnType) /\ Len(more) = Len(rest) + 1
        /\ \A i \in 1 .. Len(rest) : more[i] = rest[i]
        /\ more[Len(rest) + 1] = again
    <3>1. rest \in Seq(TurnType) /\ again \in TurnType
      BY <1>2, <1>10
    <3> HIDE DEF rest, again
    <3> QED BY <3>1, AppendProperties
  <2>2. DOMAIN more = 1 .. Len(more)
    BY <2>1, LenProperties
  <2> HIDE DEF more, rest, again
  <2>3. Len(more) = Len(turns) /\ Len(rest) + 1 = Len(turns)
    BY <1>2, <2>1
  <2> QED BY <1>2, <2>1, <2>2, <2>3
<1> HIDE DEF by, rest, again, more
<1>12. TurnsInv'
  <2>1. \A i \in 1 .. Len(turns) - 1 : rest[i].by \in Event => rest[i].by # by /\ call'[rest[i].by] \in {"writing", "flushing"}
    BY <1>6, <1>7
  <2>2. CASE turns' = rest
    BY <1>2, <1>8, <2>1, <2>2 DEF TurnsInv
  <2>3. CASE by \in Event /\ call'[by] = "flushing" /\ turns' = more
    <3>1. \A i \in 1 .. Len(turns) : i \in 1 .. Len(turns) - 1 \/ i = Len(turns)
      <4>1. Len(turns) \in Nat
        BY <1>2
      <4> QED BY <4>1
    <3>2. ASSUME NEW i \in 1 .. Len(turns), more[i].by \in Event PROVE call'[more[i].by] \in {"writing", "flushing"}
      BY <1>10, <1>11, <2>1, <2>3, <3>1, <3>2
    <3>3. ASSUME NEW i \in 1 .. Len(turns), NEW j \in 1 .. Len(turns), more[i].by \in Event, more[i].by = more[j].by
          PROVE  i = j
      BY <1>8, <1>10, <1>11, <2>1, <3>1, <3>3
    <3> QED BY <1>11, <2>3, <3>2, <3>3 DEF TurnsInv
  <2> QED BY <1>9, <2>2, <2>3
<1>13. ASSUME NEW f \in Event
       PROVE  /\ call'[f] \in {"new", "resuming"} => f \notin Waiting' \cup Written'
              /\ call'[f] = "writing" => f \in Waiting' \cup Written'
              /\ call'[f] = "flushing" => f \in Written'
  <2>1. CASE f = by
    BY <1>3, <1>9, <2>1 DEF by
  <2>2. CASE f # by
    BY <1>6, <2>2 DEF LogInv, AccountInv
  <2> QED BY <2>1, <2>2
<1>14. AccountInv'
  BY <1>5, <1>13 DEF AccountInv
<1>15. DownInv'
  BY <1>4 DEF DownInv
<1> QED BY <1>12, <1>14, <1>15

(* A process that ended, whatever of its batch is in the files. *)
LEMMA ForgetKeepsAccount ==
  ASSUME LogInv, Forgets, Written' \subseteq Waiting \cup Written
  PROVE  TurnsInv' /\ AccountInv' /\ DownInv'
<1>1. call \in [Event -> Calls]
  BY DEF LogInv, LogTypeOK, Calls
<1>2. /\ mode' = "down" /\ queue' = <<>> /\ batch' = <<>> /\ turns' = <<>> /\ stage' = "idle"
      /\ \A e \in Event : call'[e] = IF call[e] \in {"resuming", "writing", "flushing"} THEN "cut" ELSE call[e]
  BY DEF Forgets
<1>3. Waiting' = {} /\ DOMAIN turns' = {}
  BY <1>2 DEF Waiting, EventsOf
<1>4. \A e \in Event : call'[e] \notin {"resuming", "writing", "flushing"} /\ (call'[e] = "new" => call[e] = "new")
  BY <1>2
<1>5. \A e \in Event : call'[e] = "new" => e \notin Waiting' \cup Written'
  BY <1>3, <1>4 DEF LogInv, AccountInv
<1>6. AccountInv'
  BY <1>2, <1>4, <1>5 DEF AccountInv
<1> QED BY <1>2, <1>3, <1>4, <1>6 DEF TurnsInv, DownInv

-----------------------------------------------------------------------------
(* What the steps are seen from outside. *)
Waits == InOrder(batch \o queue)

Told == {e \in Critical : call[e] = "recorded"}

LEMMA IsStutter ==
  ASSUME (mode # "down") = (mode' # "down"), Waits' = Waits, AsTrail(log)' = AsTrail(log), Told' = Told
  PROVE  UNCHANGED Trail!trailVars
BY DEF Trail!trailVars, Waits, InOrder, AsTrail, Told

LEMMA IsBegin ==
  ASSUME mode = "down", mode' # "down", Waits' = Waits, AsTrail(log)' = AsTrail(log), Told' = Told
  PROVE  Trail!TrailNext
<1>1. Trail!Begin
  BY DEF Trail!Begin, Waits, InOrder, AsTrail, Told
<1> QED BY <1>1 DEF Trail!TrailNext

LEMMA IsAccept ==
  ASSUME NEW e \in Event, mode # "down", mode' # "down", e \notin Range(Waits) \cup Range(AsTrail(log)),
         Waits' = Append(Waits, e), AsTrail(log)' = AsTrail(log), Told' = Told
  PROVE  Trail!TrailNext
<1>1. Trail!Accept(e)
  BY DEF Trail!Accept, Trail!In, Range, Waits, InOrder, AsTrail, Told
<1> QED BY <1>1 DEF Trail!TrailNext

LEMMA IsAnswer ==
  ASSUME NEW e \in Event, (mode # "down") = (mode' # "down"), e \in Range(AsTrail(log)),
         Waits' = Waits, AsTrail(log)' = AsTrail(log), Told' = Told \cup {e}
  PROVE  Trail!TrailNext
<1>1. Trail!Answer(e)
  BY DEF Trail!Answer, Trail!In, Range, Waits, InOrder, AsTrail, Told
<1> QED BY <1>1 DEF Trail!TrailNext

LEMMA IsStore ==
  ASSUME NEW n \in 0 .. Len(Waits), mode # "down", mode' # "down",
         AsTrail(log)' = AsTrail(log) \o SubSeq(Waits, 1, n),
         Waits' = Waits \/ Waits' = SubSeq(Waits, n + 1, Len(Waits)), Told' = Told
  PROVE  Trail!TrailNext
<1>1. Trail!Store(n)
  BY DEF Trail!Store, Trail!First, Trail!After, Waits, InOrder, AsTrail, Told
<1> QED BY <1>1 DEF Trail!TrailNext, Waits, InOrder

LEMMA IsEnd ==
  ASSUME NEW n \in 0 .. Len(Waits), mode # "down", mode' = "down",
         AsTrail(log)' = AsTrail(log) \o SubSeq(Waits, 1, n), Waits' = <<>>, Told' = Told
  PROVE  Trail!TrailNext
<1>1. Trail!End(n)
  BY DEF Trail!End, Trail!First, Waits, InOrder, AsTrail, Told
<1> QED BY <1>1 DEF Trail!TrailNext, Waits, InOrder

LEMMA WaitsFacts ==
  ASSUME LogTypeOK
  PROVE  /\ batch \in Seq(Record) /\ queue \in Seq(Record) /\ log \in Seq(Line) /\ call \in [Event -> Calls]
         /\ Waits \in Seq(Event) /\ Range(Waits) = Waiting
         /\ Len(batch) \in Nat /\ 0 .. Len(batch) \subseteq 0 .. Len(Waits)
         /\ AsTrail(log) \in Seq(Event) /\ Range(AsTrail(log)) = Written
         /\ \A n \in 0 .. Len(batch) : SubSeq(Waits, 1, n) = InOrder(SubSeq(batch, 1, n))
         /\ SubSeq(Waits, Len(batch) + 1, Len(Waits)) = InOrder(queue)
<1>1. batch \in Seq(Record) /\ queue \in Seq(Record) /\ log \in Seq(Line) /\ call \in [Event -> Calls]
  BY DEF LogTypeOK, Line, Calls
<1>2. Len(batch) \in Nat /\ Len(queue) \in Nat
  BY <1>1, LenProperties
<1>3. batch \o queue \in Seq(Record) /\ Len(batch \o queue) = Len(batch) + Len(queue)
  BY <1>1, ConcatProperties
<1>4. Waits \in Seq(Event) /\ Len(Waits) = Len(batch) + Len(queue)
  BY <1>3, InOrderType DEF Waits
<1>5. Range(Waits) = Waiting
  BY <1>1, <1>3, EventsInOrder DEF Waits, Waiting
<1>6. \A n \in 0 .. Len(batch) : SubSeq(Waits, 1, n) = InOrder(SubSeq(batch, 1, n))
  BY <1>1, WaitingInOrder DEF Waits
<1>7. SubSeq(Waits, Len(batch) + 1, Len(Waits)) = InOrder(queue)
  <2>1. 0 \in 0 .. Len(batch)
    BY <1>2
  <2> QED BY <1>1, <1>3, <1>4, <2>1, WaitingInOrder DEF Waits
<1>8. AsTrail(log) \in Seq(Event) /\ Range(AsTrail(log)) = Written
  BY <1>1, AsTrailType, WrittenInOrder DEF Written
<1> QED BY <1>1, <1>2, <1>4, <1>5, <1>6, <1>7, <1>8, SMTT(30)

(* Who is told what when a flush settles, and when the process ends. *)
LEMMA SettleTells ==
  ASSUME LogInv, turns # <<>>, ~Ends, NEW ok \in BOOLEAN, Settles(ok)
  PROVE  \/ Told' = Told
         \/ ok /\ Head(turns).by \in Critical /\ Told' = Told \cup {Head(turns).by}
<1> DEFINE by == Head(turns).by
<1>1. call \in [Event -> Calls] /\ turns \in Seq(TurnType)
  BY WaitsFacts, TurnsFacts DEF LogInv
<1>2. by \in Event => call[by] \in {"writing", "flushing"}
  <2>1. by = turns[1].by /\ 1 \in DOMAIN turns
    BY TurnsFacts DEF LogInv
  <2> QED BY <2>1 DEF LogInv, TurnsInv
<1>3. by \in Event \cup {Timer} /\ Timer \notin Event
  <2>1. Head(turns) \in TurnType
    BY <1>1, HeadTailProperties
  <2> QED BY <2>1, EventAssumption DEF TurnType, Ends
<1>4. \A e \in Event \ {by} : call'[e] = call[e]
  BY <1>1 DEF Settles
<1>5. \/ by \in Event /\ call'[by] \in {"flushing", "refused", "dropped"}
      \/ by \in Event /\ ok /\ call'[by] = "recorded"
      \/ by = Timer /\ call' = call
  BY <1>1, <1>3, EventAssumption DEF Settles
<1> HIDE DEF by
<1>6. CASE by \in Event /\ call'[by] \in {"flushing", "refused", "dropped"}
  BY <1>2, <1>4, <1>6, EventAssumption DEF Told
<1>7. CASE by \in Event /\ ok /\ call'[by] = "recorded"
  <2>1. CASE by \in Critical
    BY <1>2, <1>4, <1>7, <2>1, EventAssumption DEF Told, by
  <2>2. CASE by \notin Critical
    BY <1>2, <1>4, <1>7, <2>2, EventAssumption DEF Told
  <2> QED BY <2>1, <2>2
<1>8. CASE by = Timer /\ call' = call
  BY <1>8 DEF Told
<1> QED BY <1>5, <1>6, <1>7, <1>8

LEMMA ForgetTells ==
  ASSUME LogTypeOK, Forgets
  PROVE  mode' = "down" /\ Waits' = <<>> /\ Waiting' = {} /\ Told' = Told
<1>1. \A e \in Event : call'[e] = "recorded" <=> call[e] = "recorded"
  BY DEF Forgets
<1>2. Told' = Told
  BY <1>1, EventAssumption DEF Told
<1>3. batch' = <<>> /\ queue' = <<>>
  BY DEF Forgets
<1>4. <<>> \o <<>> = <<>> /\ DOMAIN <<>> = {}
  OBVIOUS
<1>5. Waits' = <<>>
  BY <1>3, <1>4 DEF Waits, InOrder
<1> QED BY <1>2, <1>3, <1>5 DEF Forgets, Waiting, EventsOf

(* A flush that ends with nothing more put down. *)
LEMMA SettlesWell ==
  ASSUME LogInv, turns # <<>>, batch = <<>>, log' = log,
         (~Ends /\ Settles(TRUE) /\ UNCHANGED <<mode, chain, queue, batch, owed>>) \/ (Ends /\ Forgets),
         Head(turns).by \in Event => Head(turns).by \in Written
  PROVE  TurnsInv' /\ AccountInv' /\ DownInv' /\ [Trail!TrailNext]_(Trail!trailVars)
<1>1. LogTypeOK /\ mode # "down"
  BY DEF LogInv, DownInv
<1>2. Written' = Written /\ AsTrail(log)' = AsTrail(log)
  BY DEF Written, LinesFrom, AsTrail
<1>3. CASE ~Ends /\ Settles(TRUE) /\ UNCHANGED <<mode, chain, queue, batch, owed>>
  <2>1. Waiting' = Waiting /\ Waits' = Waits /\ mode' = mode
    BY <1>3 DEF Waiting, EventsOf, Waits, InOrder
  <2>2. TurnsInv' /\ AccountInv' /\ DownInv'
    BY <1>2, <1>3, <2>1, SettleKeepsAccount
  <2>3. Told' = Told \/ (Head(turns).by \in Critical /\ Told' = Told \cup {Head(turns).by})
    BY <1>3, SettleTells
  <2>4. CASE Told' = Told
    BY <1>2, <2>1, <2>2, <2>4, IsStutter
  <2>5. CASE Head(turns).by \in Critical /\ Told' = Told \cup {Head(turns).by}
    <3>1. PICK e \in Event : e = Head(turns).by
      BY <2>5, EventAssumption
    <3>2. e \in Range(AsTrail(log)) /\ Told' = Told \cup {e}
      BY <1>1, <2>5, <3>1, WaitsFacts
    <3>3. (mode # "down") = (mode' # "down")
      BY <2>1
    <3>4. Trail!TrailNext
      BY <1>2, <2>1, <3>2, <3>3, IsAnswer
    <3> QED BY <2>2, <3>4
  <2> QED BY <2>3, <2>4, <2>5
<1>4. CASE Ends /\ Forgets
  <2>1. TurnsInv' /\ AccountInv' /\ DownInv'
    BY <1>2, <1>4, ForgetKeepsAccount
  <2>2. mode' = "down" /\ Waits' = <<>> /\ Told' = Told
    BY <1>1, <1>4, ForgetTells
  <2>3. 0 \in 0 .. Len(Waits) /\ SubSeq(Waits, 1, 0) = <<>> /\ AsTrail(log) \o <<>> = AsTrail(log)
    BY <1>1, WaitsFacts, LenProperties, SubSeqEmpty, ConcatEmptySeq
  <2>4. Trail!TrailNext
    BY <1>1, <1>2, <2>2, <2>3, IsEnd
  <2> QED BY <2>1, <2>4
<1> QED BY <1>3, <1>4

(* Part of a batch put down. *)
LEMMA PutDown ==
  ASSUME LogTypeOK, NEW n \in 0 .. Len(batch), AsTrail(log') = AsTrail(log) \o InOrder(SubSeq(batch, 1, n)),
         log' \in Seq(Line)
  PROVE  /\ AsTrail(log)' = AsTrail(log) \o SubSeq(Waits, 1, n)
         /\ Written \subseteq Written' /\ Written' \subseteq EventsOf(batch) \cup Written
         /\ n = Len(batch) => Written' = EventsOf(batch) \cup Written
<1> DEFINE put == InOrder(SubSeq(batch, 1, n))
<1>1. batch \in Seq(Record) /\ Len(batch) \in Nat /\ \A i \in 1 .. Len(batch) : batch[i] \in Record
  BY WaitsFacts, LenProperties
<1>2. SubSeq(Waits, 1, n) = put /\ AsTrail(log) \in Seq(Event) /\ Range(AsTrail(log)) = Written
  BY WaitsFacts
<1>3. /\ SubSeq(batch, 1, n) \in Seq(Record) /\ Len(SubSeq(batch, 1, n)) = n
      /\ \A i \in 1 .. n : SubSeq(batch, 1, n)[i] = batch[i]
  <2>1. \A i \in 1 .. n : batch[i] \in Record
    BY <1>1
  <2>2. n \in Nat
    BY <1>1
  <2> QED BY <2>1, <2>2, SubSeqProperties
<1>4. put \in Seq(Event) /\ Range(put) = EventsOf(SubSeq(batch, 1, n))
  BY <1>3, InOrderType, EventsInOrder
<1>5. EventsOf(SubSeq(batch, 1, n)) \subseteq EventsOf(batch)
  <2>1. DOMAIN SubSeq(batch, 1, n) = 1 .. n /\ DOMAIN batch = 1 .. Len(batch) /\ 1 .. n \subseteq 1 .. Len(batch)
    BY <1>1, <1>3, LenProperties
  <2> QED BY <1>3, <2>1 DEF EventsOf
<1>6. n = Len(batch) => SubSeq(batch, 1, n) = batch
  BY <1>1, SubSeqFull
<1>7. Written' = Range(AsTrail(log'))
  BY WrittenInOrder DEF Written
<1> HIDE DEF put
<1>8. Range(AsTrail(log) \o put) = Range(AsTrail(log)) \cup Range(put)
  BY <1>2, <1>4, RangeConcatenation
<1>9. Written' = Written \cup EventsOf(SubSeq(batch, 1, n))
  BY <1>2, <1>4, <1>7, <1>8 DEF put
<1>10. AsTrail(log)' = AsTrail(log')
  BY DEF AsTrail
<1> QED BY <1>2, <1>5, <1>6, <1>9, <1>10 DEF put

(* The first record of a process, while the files are read. *)
LEMMA ResumingStep ==
  ASSUME LogInv, NEW e \in Event, FirstRecord(e)
  PROVE  TurnsInv' /\ AccountInv' /\ DownInv' /\ UNCHANGED Trail!trailVars
<1>1. call \in [Event -> Calls] /\ call[e] = "new" /\ call' = [call EXCEPT ![e] = "resuming"]
  BY WaitsFacts DEF LogInv, FirstRecord
<1>2. UNCHANGED <<mode, queue, turns, stage, batch, log>>
  BY DEF FirstRecord, files
<1>3. /\ Waiting' = Waiting /\ Written' = Written /\ EventsOf(batch)' = EventsOf(batch)
      /\ Waits' = Waits /\ AsTrail(log)' = AsTrail(log)
  BY <1>2 DEF Waiting, Written, EventsOf, LinesFrom, Waits, InOrder, AsTrail
<1>4. Told' = Told
  BY <1>1, EventAssumption DEF Told
<1>5. \A i \in DOMAIN turns : turns[i].by # e
  BY <1>1 DEF LogInv, TurnsInv
<1>6. TurnsInv'
  BY <1>1, <1>2, <1>5 DEF LogInv, TurnsInv
<1>7. ASSUME NEW f \in Event
      PROVE  /\ call'[f] \in {"new", "resuming"} => f \notin Waiting' \cup Written'
             /\ call'[f] = "writing" => f \in Waiting' \cup Written'
             /\ call'[f] = "flushing" => f \in Written'
  BY <1>1, <1>3 DEF LogInv, AccountInv
<1>8. AccountInv'
  BY <1>2, <1>3, <1>7 DEF LogInv, AccountInv
<1>9. DownInv'
  BY <1>2 DEF DownInv, FirstRecord
<1> QED BY <1>2, <1>3, <1>4, <1>6, <1>8, <1>9, IsStutter

(* A record accepted. *)
LEMMA AcceptStep ==
  ASSUME LogInv, NEW e \in Event, Resumes(e) \/ Records(e)
  PROVE  TurnsInv' /\ AccountInv' /\ DownInv' /\ Trail!TrailNext
<1>1. call[e] \in {"new", "resuming"} /\ mode # "down"
  BY DEF LogInv, DownInv, Resumes, Records
<1>2. UNCHANGED <<mode, stage, batch, log>>
  BY DEF Resumes, Records, files
<1>3. PICK seq \in Nat, prev \in Event \cup {Genesis} : Stamps(e, seq, prev)
  <2>1. chain.seq \in Nat /\ chain.prev \in Event \cup {Genesis}
    BY DEF LogInv, LogTypeOK
  <2>2. LastReadable.seq \in Nat /\ LastReadable.event \in Event \cup {Genesis}
    BY ResumedFrom DEF LogInv
  <2> QED BY <2>1, <2>2 DEF Resumes, Records
<1>4. TurnsInv' /\ AccountInv' /\ DownInv'
  BY <1>1, <1>2, <1>3, StampKeepsAccount
<1> DEFINE rec == [event |-> e, seq |-> seq + 1, prev |-> prev]
<1>5. rec \in Record /\ rec.event = e /\ queue' = Append(queue, rec)
  BY <1>3 DEF Record, Stamps
<1>6. batch \in Seq(Record) /\ queue \in Seq(Record) /\ call \in [Event -> Calls]
  BY WaitsFacts DEF LogInv
<1>7. InOrder(batch \o Append(queue, rec)) = Append(Waits, e)
  BY <1>5, <1>6, QueuedInOrder DEF Waits
<1>8. Waits' = InOrder(batch \o Append(queue, rec))
  BY <1>2, <1>5 DEF Waits, InOrder
<1>9. AsTrail(log)' = AsTrail(log)
  BY <1>2 DEF AsTrail
<1>10. Told' = Told
  <2>1. e \in Critical => call'[e] = "writing"
    BY <1>3, <1>6 DEF Stamps
  <2>2. \A f \in Event \ {e} : call'[f] = call[f]
    BY <1>3, <1>6 DEF Stamps
  <2> QED BY <1>1, <2>1, <2>2, EventAssumption DEF Told
<1>11. e \notin Range(Waits) \cup Range(AsTrail(log))
  BY <1>1, WaitsFacts DEF LogInv, AccountInv
<1>12. mode' # "down" /\ Waits' = Append(Waits, e)
  BY <1>1, <1>2, <1>7, <1>8
<1> QED BY <1>1, <1>4, <1>9, <1>10, <1>11, <1>12, IsAccept

(* A flush asked for by the interval or by close. *)
LEMMA AskStep ==
  ASSUME LogInv, TimerFlushes \/ Stops
  PROVE  TurnsInv' /\ AccountInv' /\ DownInv' /\ UNCHANGED Trail!trailVars
<1>1. PICK t \in TurnType : turns' = Append(turns, t) /\ t.by \in {Timer, Close}
  <2>1. Turn(Timer, FALSE) \in TurnType /\ Turn(Timer, FALSE).by = Timer
    BY DEF Turn, TurnType
  <2>2. Turn(Close, TRUE) \in TurnType /\ Turn(Close, TRUE).by = Close
    BY DEF Turn, TurnType
  <2>3. turns' = Append(turns, Turn(Timer, FALSE)) \/ turns' = Append(turns, Turn(Close, TRUE))
    BY DEF TimerFlushes, Stops
  <2> QED BY <2>1, <2>2, <2>3
<1>2. mode # "down" /\ mode' # "down" /\ UNCHANGED <<call, queue, batch, stage, log>>
  BY DEF TimerFlushes, Stops, files
<1>3. Waiting' = Waiting /\ Written' = Written /\ EventsOf(batch)' = EventsOf(batch)
  BY <1>2 DEF Waiting, Written, EventsOf, LinesFrom
<1>4. Waits' = Waits /\ AsTrail(log)' = AsTrail(log) /\ Told' = Told
  BY <1>2 DEF Waits, InOrder, AsTrail, Told
<1>5. t.by \notin Event
  BY <1>1, EventAssumption
<1>6. TurnsInv'
  BY <1>1, <1>2, <1>5, AskKeepsTurns DEF LogInv
<1>7. stage # "idle" => Head(turns') = Head(turns)
  <2>1. stage # "idle" => turns # <<>>
    BY DEF LogInv, StageInv
  <2> QED BY <1>1, <2>1, TurnsFacts DEF LogInv
<1>8. AccountInv'
  BY <1>2, <1>3, <1>7 DEF LogInv, AccountInv
<1>9. DownInv'
  BY <1>2 DEF DownInv
<1> QED BY <1>2, <1>4, <1>6, <1>8, <1>9, IsStutter

(* The queue taken in hand, and a head published: nothing seen outside. *)
LEMMA InHandStep ==
  ASSUME LogInv, TakesQueue \/ Publishes
  PROVE  TurnsInv' /\ AccountInv' /\ DownInv' /\ UNCHANGED Trail!trailVars
<1>1. /\ UNCHANGED <<mode, call, turns, log>> /\ turns # <<>> /\ mode # "down"
      /\ batch \in Seq(Record) /\ queue \in Seq(Record)
  BY WaitsFacts DEF LogInv, StageInv, DownInv, TakesQueue, Publishes, files
<1>2. batch' \o queue' = batch \o queue /\ EventsOf(batch') \cup EventsOf(queue') = Waiting
  <2>1. CASE TakesQueue
    <3>1. batch = <<>> /\ batch' = queue /\ queue' = <<>>
      BY <2>1 DEF LogInv, StageInv, TakesQueue
    <3>2. <<>> \o queue = queue /\ queue \o <<>> = queue
      BY <1>1, ConcatEmptySeq
    <3>3. EventsOf(<<>>) = {}
      BY DEF EventsOf
    <3> QED BY <3>1, <3>2, <3>3 DEF Waiting
  <2>2. CASE Publishes
    BY <2>2 DEF Publishes, Waiting
  <2> QED BY <2>1, <2>2
<1>3. Waits' = Waits /\ AsTrail(log)' = AsTrail(log) /\ Told' = Told
  <2>1. (batch \o queue)' = batch \o queue
    BY <1>2
  <2> QED BY <1>1, <2>1 DEF Waits, InOrder, AsTrail, Told
<1>4. Waiting' = Waiting /\ Written' = Written
  BY <1>1, <1>2 DEF Waiting, EventsOf, Written, LinesFrom
<1>5. Head(turns).by \in Event => Head(turns).by \in EventsOf(batch') \cup Written
  <2>1. CASE TakesQueue
    <3>1. Head(turns) = turns[1] /\ 1 \in DOMAIN turns
      BY <1>1, TurnsFacts DEF LogInv
    <3>2. Head(turns).by \in Event => Head(turns).by \in Waiting \cup Written
      BY <3>1 DEF LogInv, TurnsInv, AccountInv
    <3>3. Waiting = EventsOf(batch')
      <4>1. queue' = <<>> /\ EventsOf(<<>>) = {}
        BY <2>1 DEF TakesQueue, EventsOf
      <4> QED BY <1>2, <4>1
    <3> QED BY <3>2, <3>3
  <2>2. CASE Publishes
    <3>1. batch' = batch /\ stage # "idle"
      BY <2>2 DEF Publishes
    <3> QED BY <3>1 DEF LogInv, AccountInv
  <2> QED BY <2>1, <2>2
<1>6. AccountInv'
  <2>1. EventsOf(batch)' = EventsOf(batch')
    BY DEF EventsOf
  <2>2. ASSUME NEW f \in Event
        PROVE  /\ call'[f] \in {"new", "resuming"} => f \notin Waiting' \cup Written'
               /\ call'[f] = "writing" => f \in Waiting' \cup Written'
               /\ call'[f] = "flushing" => f \in Written'
    BY <1>1, <1>4 DEF LogInv, AccountInv
  <2>3. Head(turns').by \in Event => Head(turns').by \in EventsOf(batch)' \cup Written'
    BY <1>1, <1>4, <1>5, <2>1
  <2> QED BY <2>2, <2>3 DEF AccountInv
<1>7. TurnsInv' /\ DownInv'
  BY <1>1 DEF LogInv, TurnsInv, DownInv
<1> QED BY <1>1, <1>3, <1>6, <1>7, IsStutter

(* The whole batch is put down. *)
LEMMA WriteStep ==
  ASSUME LogInv, Writes
  PROVE  TurnsInv' /\ AccountInv' /\ DownInv' /\ Trail!TrailNext
<1>1. /\ UNCHANGED <<mode, call, turns, queue>> /\ batch' = <<>> /\ turns # <<>> /\ mode # "down"
      /\ LogTypeOK
  BY DEF LogInv, StageInv, DownInv, Writes
<1>2. /\ batch \in Seq(Record) /\ queue \in Seq(Record) /\ log \in Seq(Line) /\ torn \in BOOLEAN
      /\ Len(batch) \in 0 .. Len(batch) /\ Len(batch) \in 0 .. Len(Waits)
  <2>1. torn \in BOOLEAN
    BY DEF LogInv, LogTypeOK
  <2> QED BY <1>1, <2>1, WaitsFacts, SMTT(30)
<1>3. log' \in Seq(Line) /\ AsTrail(log') = AsTrail(log) \o InOrder(batch)
  BY <1>2, LandedInOrder DEF Writes, Landing
<1>4. SubSeq(batch, 1, Len(batch)) = batch
  BY <1>2, SubSeqFull
<1>5. AsTrail(log)' = AsTrail(log) \o SubSeq(Waits, 1, Len(batch)) /\ Written' = EventsOf(batch) \cup Written
  BY <1>1, <1>2, <1>3, <1>4, PutDown
<1>6. Waits' = SubSeq(Waits, Len(batch) + 1, Len(Waits))
  <2>1. <<>> \o queue = queue
    BY <1>2, ConcatEmptySeq
  <2>2. (batch \o queue)' = queue
    BY <1>1, <2>1
  <2>3. Waits' = InOrder(queue)
    BY <2>2 DEF Waits, InOrder
  <2> QED BY <1>1, <2>3, WaitsFacts
<1>7. Told' = Told /\ mode' # "down"
  BY <1>1 DEF Told
<1>8. Trail!TrailNext
  BY <1>1, <1>2, <1>5, <1>6, <1>7, IsStore
<1>9. Waiting' = EventsOf(queue)
  BY <1>1 DEF Waiting, EventsOf
<1>10. AccountInv'
  <2>1. ASSUME NEW f \in Event
        PROVE  /\ call'[f] \in {"new", "resuming"} => f \notin Waiting' \cup Written'
               /\ call'[f] = "writing" => f \in Waiting' \cup Written'
               /\ call'[f] = "flushing" => f \in Written'
    BY <1>1, <1>5, <1>9 DEF LogInv, AccountInv, Waiting
  <2>2. Head(turns').by \in Event => Head(turns').by \in Written'
    BY <1>1, <1>5 DEF LogInv, AccountInv, Writes
  <2> QED BY <2>1, <2>2 DEF AccountInv
<1>11. TurnsInv' /\ DownInv'
  BY <1>1 DEF LogInv, TurnsInv, DownInv
<1> QED BY <1>8, <1>10, <1>11

(* Part of the batch is put down, and the write fails or is cut off. *)
LEMMA CutStep ==
  ASSUME LogInv, NEW p \in Part, WriteFails(p) \/ Killed(p)
  PROVE  TurnsInv' /\ AccountInv' /\ DownInv' /\ Trail!TrailNext
<1>1. LogTypeOK /\ mode # "down" /\ batch \in Seq(Record) /\ queue \in Seq(Record)
  BY WaitsFacts DEF LogInv, DownInv, WriteFails, Killed
<1>2. PICK n \in 0 .. Len(batch) : log' \in Seq(Line) /\ AsTrail(log') = AsTrail(log) \o InOrder(SubSeq(batch, 1, n))
  <2>1. CASE Landed(p)
    BY <1>1, <2>1, LandedType
  <2>2. CASE log' = log
    <3>1. 0 \in 0 .. Len(batch) /\ log \in Seq(Line) /\ AsTrail(log) \in Seq(Event)
      BY <1>1, WaitsFacts
    <3>2. SubSeq(batch, 1, 0) = <<>> /\ InOrder(<<>>) = <<>>
      BY SubSeqEmpty DEF InOrder
    <3>3. AsTrail(log) \o <<>> = AsTrail(log)
      BY <3>1, ConcatEmptySeq
    <3> QED BY <2>2, <3>1, <3>2, <3>3
  <2> QED BY <2>1, <2>2 DEF WriteFails, Killed
<1>3. /\ AsTrail(log)' = AsTrail(log) \o SubSeq(Waits, 1, n)
      /\ Written \subseteq Written' /\ Written' \subseteq EventsOf(batch) \cup Written
  BY <1>1, <1>2, PutDown
<1>4. n \in 0 .. Len(Waits)
  BY <1>1, WaitsFacts
<1>5. CASE Forgets
  <2>1. mode' = "down" /\ Waits' = <<>> /\ Told' = Told
    BY <1>1, <1>5, ForgetTells
  <2>2. Trail!TrailNext
    BY <1>1, <1>3, <1>4, <2>1, IsEnd
  <2>3. Written' \subseteq Waiting \cup Written
    BY <1>3 DEF Waiting
  <2> QED BY <1>5, <2>2, <2>3, ForgetKeepsAccount
<1>6. CASE WriteFails(p) /\ ~Ends /\ Settles(FALSE) /\ queue' = Requeued /\ batch' = <<>> /\ UNCHANGED <<mode, chain, owed>>
  <2>1. turns # <<>> /\ mode' = mode
    BY <1>6 DEF LogInv, StageInv, WriteFails
  <2>2. batch \o queue \in Seq(Record) /\ batch' \o queue' = batch \o queue
    <3>1. batch \o queue \in Seq(Record)
      BY <1>1, ConcatProperties
    <3>2. <<>> \o (batch \o queue) = batch \o queue
      BY <3>1, ConcatEmptySeq
    <3> QED BY <1>6, <3>1, <3>2 DEF Requeued
  <2>3. Waits' = Waits
    <3>1. (batch \o queue)' = batch \o queue
      BY <2>2
    <3> QED BY <3>1 DEF Waits, InOrder
  <2>4. Waiting' = Waiting
    <3>1. EventsOf(batch \o queue) = Waiting
      BY <1>1, EventsInOrder DEF Waiting
    <3>2. batch' = <<>> /\ queue' = batch \o queue
      BY <1>6 DEF Requeued
    <3>3. Waiting' = EventsOf(batch \o queue)
      BY <3>2 DEF Waiting, EventsOf
    <3> QED BY <3>1, <3>3
  <2>5. Waiting' \cup Written' = Waiting \cup Written
    BY <1>3, <2>4 DEF Waiting
  <2>6. Told' = Told
    BY <1>6, <2>1, SettleTells
  <2>7. Trail!TrailNext
    BY <1>1, <1>3, <1>4, <2>1, <2>3, <2>6, IsStore
  <2> QED BY <1>3, <1>6, <2>1, <2>5, <2>7, SettleKeepsAccount
<1> QED BY <1>5, <1>6 DEF WriteFails, Killed

LEMMA LogStep == LogInv /\ [Next]_vars => LogInv' /\ [Trail!TrailNext]_(Trail!trailVars)
<1> SUFFICES ASSUME LogInv, [Next]_vars
             PROVE  TurnsInv' /\ AccountInv' /\ DownInv' /\ [Trail!TrailNext]_(Trail!trailVars)
  BY StepKeepsLogTypes, StepKeepsStage DEF LogInv
<1>1. CASE \E e \in Event : FirstRecord(e)
  BY <1>1, ResumingStep
<1>2. CASE \E e \in Event : Resumes(e) \/ Records(e)
  BY <1>2, AcceptStep
<1>3. CASE TimerFlushes \/ Stops
  BY <1>3, AskStep
<1>4. CASE TakesQueue \/ Publishes
  BY <1>4, InHandStep
<1>5. CASE Writes
  BY <1>5, WriteStep
<1>6. CASE \E p \in Part : WriteFails(p) \/ Killed(p)
  BY <1>6, CutStep
<1>7. CASE NothingToFlush
  <2>1. turns # <<>> /\ batch = <<>> /\ log' = log /\ queue = <<>>
    BY <1>7 DEF LogInv, StageInv, NothingToFlush, files
  <2>2. Head(turns).by \in Event => Head(turns).by \in Written
    <3>1. Head(turns) = turns[1] /\ 1 \in DOMAIN turns
      BY <2>1, TurnsFacts DEF LogInv
    <3>2. Waiting = {}
      BY <2>1 DEF Waiting, EventsOf
    <3> QED BY <3>1, <3>2 DEF LogInv, TurnsInv, AccountInv
  <2> QED BY <1>7, <2>1, <2>2, SettlesWell DEF NothingToFlush
<1>8. CASE FlushEnds
  <2>1. turns # <<>> /\ batch = <<>> /\ log' = log
    BY <1>8 DEF LogInv, StageInv, FlushEnds, Rotates, files
  <2>2. Head(turns).by \in Event => Head(turns).by \in Written
    <3>1. EventsOf(batch) = {}
      BY <2>1 DEF EventsOf
    <3> QED BY <1>8, <3>1 DEF LogInv, AccountInv, FlushEnds
  <2> QED BY <1>8, <2>1, <2>2, SettlesWell DEF FlushEnds
<1>9. CASE StartsUp
  <2>1. UNCHANGED <<call, queue, batch, turns, stage, log>> /\ mode = "down" /\ mode' = "up"
    BY <1>9 DEF StartsUp, memory, files
  <2>2. Waits' = Waits /\ AsTrail(log)' = AsTrail(log) /\ Told' = Told
    BY <2>1 DEF Waits, InOrder, AsTrail, Told
  <2>3. TurnsInv' /\ AccountInv' /\ DownInv'
    BY <2>1 DEF LogInv, TurnsInv, AccountInv, DownInv, Waiting, Written, EventsOf, LinesFrom
  <2> QED BY <2>1, <2>2, <2>3, IsBegin
<1>10. CASE UNCHANGED vars
  <2>1. UNCHANGED <<call, queue, batch, turns, stage, log, mode>>
    BY <1>10 DEF vars, memory, files
  <2>2. Waits' = Waits /\ AsTrail(log)' = AsTrail(log) /\ Told' = Told
    BY <2>1 DEF Waits, InOrder, AsTrail, Told
  <2>3. TurnsInv' /\ AccountInv' /\ DownInv'
    BY <2>1 DEF LogInv, TurnsInv, AccountInv, DownInv, Waiting, Written, EventsOf, LinesFrom
  <2> QED BY <2>1, <2>2, <2>3, IsStutter
<1> QED BY <1>1, <1>2, <1>3, <1>4, <1>5, <1>6, <1>7, <1>8, <1>9, <1>10 DEF Next, Flushing

LEMMA InitLog == Init => LogInv /\ Trail!TrailInit
<1> SUFFICES ASSUME Init PROVE LogInv /\ Trail!TrailInit
  OBVIOUS
<1>1. /\ mode = "down" /\ call = [e \in Event |-> "new"] /\ queue = <<>> /\ turns = <<>> /\ stage = "idle"
      /\ batch = <<>> /\ log = <<>>
  BY DEF Init
<1>2. Waiting = {} /\ Written = {} /\ DOMAIN turns = {} /\ <<>> \o <<>> = <<>>
  BY <1>1 DEF Waiting, Written, EventsOf, LinesFrom
<1>3. StageInv /\ TurnsInv /\ AccountInv /\ DownInv
  BY <1>1, <1>2 DEF StageInv, TurnsInv, AccountInv, DownInv
<1>4. Trail!TrailInit
  BY <1>1, <1>2, EventAssumption DEF Trail!TrailInit
<1> QED BY <1>3, <1>4, InitLogTypes DEF LogInv

(* The account of every call, the inductive invariant of the log: the      *)
(* record of a call is nowhere before it is accepted, waits or is written  *)
(* while its first flush is not settled, and is written once it was.       *)
THEOREM LogKeepsAccount == Spec => [](TurnsInv /\ AccountInv /\ DownInv)
<1>1. LogInv => TurnsInv /\ AccountInv /\ DownInv
  BY DEF LogInv
<1> QED BY <1>1, InitLog, LogStep, PTL DEF Spec

(* Every step of the log in files is one of the trail its callers count on *)
(* or none of their business: records are stored in the order they were    *)
(* accepted in, none is forgotten while the process lives, and the caller  *)
(* of a critical one is answered once it is stored.                        *)
THEOREM LogImplementsTrail == Spec => TrailSpec
BY InitLog, LogStep, PTL DEF Spec, TrailSpec, Trail!TrailSpec

-----------------------------------------------------------------------------
(* The process reads the files for one record, its first, and has nothing  *)
(* that waits before it did; a flush that writes has something to write.   *)
ResumeInv ==
  /\ \A e, f \in Event : call[e] = "resuming" /\ call[f] = "resuming" => e = f
  /\ \A e \in Event : call[e] = "resuming" => chain.resumed = "reading"
  /\ queue # <<>> \/ stage # "idle" => chain.resumed = "yes"
  /\ stage = "write" => batch # <<>>

(* The files are never without a line to resume from: the live file begins *)
(* behind the last line at most, and then the newest archive has lines.    *)
FilesInv == /\ live <= Len(log) + 1
            /\ archives = <<>> => live = 1
            /\ archives # <<>> => Last(archives) <= Len(log)

(* What a settled flush changes of the calls. *)
LEMMA SettledCalls ==
  ASSUME LogInv, turns # <<>>, NEW ok \in BOOLEAN, Settles(ok)
  PROVE  /\ stage' = "idle"
         /\ \A e \in Event : call'[e] = call[e] \/ (/\ call[e] \in {"writing", "flushing"}
                                                    /\ call'[e] \in {"flushing", "recorded", "refused", "dropped"})
<1>1. call \in [Event -> Calls] /\ Head(turns) = turns[1] /\ 1 \in DOMAIN turns
  BY TurnsFacts, WaitsFacts DEF LogInv
<1>2. Head(turns).by \in Event => call[Head(turns).by] \in {"writing", "flushing"}
  BY <1>1 DEF LogInv, TurnsInv
<1>3. call' = call \/ \E c \in {"flushing", "recorded", "refused", "dropped"} :
                        Head(turns).by \in Event /\ call' = [call EXCEPT ![Head(turns).by] = c]
  BY EventAssumption DEF Settles
<1>4. ASSUME NEW e \in Event
      PROVE  call'[e] = call[e] \/ (/\ call[e] \in {"writing", "flushing"}
                                   /\ call'[e] \in {"flushing", "recorded", "refused", "dropped"})
  BY <1>1, <1>2, <1>3
<1> QED BY <1>4 DEF Settles

LEMMA ForgottenCalls ==
  ASSUME Forgets
  PROVE  /\ stage' = "idle" /\ queue' = <<>> /\ batch' = <<>> /\ chain' = NewChain /\ turns' = <<>> /\ owed' = {}
         /\ mode' = "down"
         /\ \A e \in Event : call'[e] = IF call[e] \in {"resuming", "writing", "flushing"} THEN "cut" ELSE call[e]
BY DEF Forgets

LEMMA StampedCalls ==
  ASSUME LogInv, NEW e \in Event, NEW seq, NEW prev, Stamps(e, seq, prev)
  PROVE  /\ call'[e] \in {"writing", "recorded"}
         /\ \A f \in Event \ {e} : call'[f] = call[f]
         /\ chain' = [seq |-> seq + 1, prev |-> e, resumed |-> "yes"]
         /\ queue' = Append(queue, [event |-> e, seq |-> seq + 1, prev |-> prev])
<1>1. call \in [Event -> Calls]
  BY WaitsFacts DEF LogInv
<1> QED BY <1>1 DEF Stamps

LEMMA StepKeepsResume == LogInv /\ ResumeInv /\ [Next]_vars => ResumeInv'
<1> SUFFICES ASSUME LogInv, ResumeInv, [Next]_vars PROVE ResumeInv'
  OBVIOUS
<1>0. call \in [Event -> Calls] /\ batch \in Seq(Record) /\ queue \in Seq(Record)
  BY WaitsFacts DEF LogInv
<1>1. ASSUME NEW e \in Event, FirstRecord(e) PROVE ResumeInv'
  <2>1. /\ chain.resumed = "no" /\ queue = <<>> /\ stage = "idle"
        /\ UNCHANGED <<queue, stage, batch>> /\ call' = [call EXCEPT ![e] = "resuming"]
    BY <1>1 DEF FirstRecord, ResumeInv
  <2>2. chain'.resumed = "reading"
    BY <1>1 DEF FirstRecord, LogInv, LogTypeOK
  <2>3. \A f \in Event : call'[f] = "resuming" => f = e
    BY <1>0, <2>1 DEF ResumeInv
  <2> QED BY <2>1, <2>2, <2>3 DEF ResumeInv
<1>2. ASSUME NEW e \in Event, Resumes(e) \/ Records(e) PROVE ResumeInv'
  <2>1. PICK seq, prev : Stamps(e, seq, prev)
    BY <1>2 DEF Resumes, Records
  <2>2. \A f \in Event : call'[f] # "resuming"
    <3>1. \A f \in Event \ {e} : call[f] # "resuming"
      BY <1>2 DEF ResumeInv, Resumes, Records
    <3>2. call'[e] \in {"writing", "recorded"} /\ \A f \in Event \ {e} : call'[f] = call[f]
      BY <2>1, StampedCalls
    <3> QED BY <3>1, <3>2
  <2>3. chain'.resumed = "yes" /\ UNCHANGED <<stage, batch>>
    <3>1. chain' = [seq |-> seq + 1, prev |-> e, resumed |-> "yes"]
      BY <2>1, StampedCalls
    <3> QED BY <1>2, <3>1 DEF Resumes, Records
  <2> QED BY <2>2, <2>3 DEF ResumeInv
<1>3. CASE TimerFlushes \/ Stops \/ StartsUp
  BY <1>3 DEF TimerFlushes, Stops, StartsUp, memory, ResumeInv
<1>4. CASE TakesQueue \/ Writes \/ Publishes
  BY <1>4 DEF TakesQueue, Writes, Publishes, ResumeInv
<1>5. ASSUME NEW ok \in BOOLEAN, Settles(ok), turns # <<>>, chain' = chain, queue' # <<>> => chain.resumed = "yes"
      PROVE  ResumeInv'
  <2>1. stage' = "idle" /\ \A e \in Event : call'[e] = "resuming" => call[e] = "resuming"
    BY <1>5, SettledCalls
  <2> QED BY <1>5, <2>1 DEF ResumeInv
<1>6. CASE Forgets
  BY <1>6, ForgottenCalls DEF ResumeInv
<1>7. CASE NothingToFlush \/ FlushEnds
  <2>1. turns # <<>>
    BY <1>7 DEF LogInv, StageInv, NothingToFlush, FlushEnds
  <2>2. CASE Settles(TRUE) /\ UNCHANGED <<mode, chain, queue, batch, owed>>
    BY <1>5, <2>1, <2>2 DEF ResumeInv
  <2> QED BY <1>6, <1>7, <2>2 DEF NothingToFlush, FlushEnds
<1>8. ASSUME NEW p \in Part, WriteFails(p) PROVE ResumeInv'
  <2>1. turns # <<>> /\ stage = "write"
    BY <1>8 DEF LogInv, StageInv, WriteFails
  <2>2. CASE Settles(FALSE) /\ chain' = chain
    BY <1>5, <2>1, <2>2 DEF ResumeInv
  <2> QED BY <1>6, <1>8, <2>2 DEF WriteFails
<1>9. ASSUME NEW p \in Part, Killed(p) PROVE ResumeInv'
  BY <1>6, <1>9 DEF Killed
<1>10. CASE UNCHANGED vars
  BY <1>10 DEF vars, memory, ResumeInv
<1> QED BY <1>1, <1>2, <1>3, <1>4, <1>7, <1>8, <1>9, <1>10 DEF Next, Flushing

(* Lines put behind others. *)
LEMMA PutBehind ==
  ASSUME NEW lines \in Seq(Line), NEW put \in Seq(Line), NEW more, more = lines \o put
  PROVE  /\ more \in Seq(Line) /\ Len(more) = Len(lines) + Len(put)
         /\ \A i \in 1 .. Len(lines) : more[i] = lines[i]
         /\ \A i \in 1 .. Len(put) : more[Len(lines) + i] = put[i]
<1>1. Len(lines) \in Nat /\ Len(put) \in Nat
  BY LenProperties
<1>2. /\ more \in Seq(Line) /\ Len(more) = Len(lines) + Len(put)
      /\ \A i \in 1 .. Len(lines) + Len(put) : more[i] = IF i <= Len(lines) THEN lines[i] ELSE put[i - Len(lines)]
  BY Concatenated
<1>3. ASSUME NEW i \in 1 .. Len(put) PROVE more[Len(lines) + i] = put[i]
  <2>1. Len(lines) + i \in 1 .. Len(lines) + Len(put) /\ ~(Len(lines) + i <= Len(lines)) /\ Len(lines) + i - Len(lines) = i
    BY <1>1
  <2> QED BY <1>2, <2>1
<1> QED BY <1>1, <1>2, <1>3

(* The lines that records make, of which the first may go on in a torn one. *)
LinesOf(recs, t) == [i \in DOMAIN recs |-> IF i = 1 /\ t THEN Glued(recs[i]) ELSE Whole(recs[i])]

LEMMA LinesOfRecords ==
  ASSUME NEW recs \in Seq(Record), NEW t \in BOOLEAN
  PROVE  /\ LinesOf(recs, t) \in Seq(Line) /\ Len(LinesOf(recs, t)) = Len(recs)
         /\ \A i \in 1 .. Len(recs) : /\ LinesOf(recs, t)[i].rec = recs[i]
                                      /\ LinesOf(recs, t)[i].whole <=> ~(i = 1 /\ t)
<1> DEFINE put == LinesOf(recs, t)
<1>1. Len(recs) \in Nat /\ DOMAIN recs = 1 .. Len(recs) /\ \A i \in 1 .. Len(recs) : recs[i] \in Record
  BY LenProperties
<1>2. /\ put \in [1 .. Len(recs) -> Line]
      /\ \A i \in 1 .. Len(recs) : put[i].rec = recs[i] /\ (put[i].whole <=> ~(i = 1 /\ t))
  BY <1>1 DEF LinesOf, Line, Glued, Whole
<1>3. put \in Seq(Line) /\ Len(put) = Len(recs)
  BY <1>1, <1>2, FunctionIsSeq
<1> QED BY <1>2, <1>3

(* What a failed write or a kill leaves of the files: they are those of    *)
(* before, or the first records of the batch landed behind them.           *)
LEMMA PartLandings ==
  ASSUME LogTypeOK, NEW n \in 0 .. Len(batch), Landing(SubSeq(batch, 1, n))
  PROVE  /\ log' \in Seq(Line) /\ Len(log') = Len(log) + n
         /\ \A i \in 1 .. Len(log) : log'[i] = log[i]
         /\ \A i \in 1 .. n : /\ log'[Len(log) + i].rec = batch[i]
                              /\ log'[Len(log) + i].whole <=> ~(i = 1 /\ torn)
<1> DEFINE recs == SubSeq(batch, 1, n)
<1>1. log \in Seq(Line) /\ torn \in BOOLEAN /\ batch \in Seq(Record) /\ Len(batch) \in Nat
      /\ \A i \in 1 .. Len(batch) : batch[i] \in Record
  BY WaitsFacts, LenProperties DEF LogTypeOK
<1>2. recs \in Seq(Record) /\ Len(recs) = n /\ \A i \in 1 .. n : recs[i] = batch[i]
  <2>1. n \in Nat /\ \A i \in 1 .. n : batch[i] \in Record
    BY <1>1
  <2> QED BY <2>1, SubSeqProperties
<1>3. PICK put : put = LinesOf(recs, torn)
  OBVIOUS
<1>4. log' = log \o put
  BY <1>3 DEF Landing, LinesOf
<1> HIDE DEF recs
<1>5. /\ put \in Seq(Line) /\ Len(put) = n
      /\ \A i \in 1 .. n : put[i].rec = batch[i] /\ (put[i].whole <=> ~(i = 1 /\ torn))
  <2>1. /\ put \in Seq(Line) /\ Len(put) = Len(recs)
        /\ \A i \in 1 .. Len(recs) : put[i].rec = recs[i] /\ (put[i].whole <=> ~(i = 1 /\ torn))
    <3>1. recs \in Seq(Record) /\ torn \in BOOLEAN
      BY <1>1, <1>2
    <3> QED BY <1>3, <3>1, LinesOfRecords
  <2> QED BY <1>2, <2>1
<1>6. /\ log' \in Seq(Line) /\ Len(log') = Len(log) + Len(put)
      /\ \A i \in 1 .. Len(log) : log'[i] = log[i]
      /\ \A i \in 1 .. Len(put) : log'[Len(log) + i] = put[i]
  <2>1. log \in Seq(Line) /\ put \in Seq(Line)
    BY <1>1, <1>5
  <2>2. PICK more : more = log'
    OBVIOUS
  <2>3. more = log \o put
    BY <1>4, <2>2
  <2>4. /\ more \in Seq(Line) /\ Len(more) = Len(log) + Len(put)
        /\ \A i \in 1 .. Len(log) : more[i] = log[i]
        /\ \A i \in 1 .. Len(put) : more[Len(log) + i] = put[i]
    BY <2>1, <2>3, PutBehind
  <2> QED BY <2>2, <2>4
<1> QED BY <1>5, <1>6

LEMMA WriteLandings ==
  ASSUME LogTypeOK, Writes
  PROVE  Landing(SubSeq(batch, 1, Len(batch)))
<1>1. SubSeq(batch, 1, Len(batch)) = batch
  BY WaitsFacts, SubSeqFull
<1> QED BY <1>1 DEF Writes

-----------------------------------------------------------------------------
(* n records of the batch landed behind the lines of the files. *)
Lands(n) == /\ log' \in Seq(Line) /\ Len(log') = Len(log) + n
            /\ \A i \in 1 .. Len(log) : log'[i] = log[i]
            /\ \A i \in 1 .. n : /\ log'[Len(log) + i].rec = batch[i]
                                 /\ log'[Len(log) + i].whole <=> ~(i = 1 /\ torn)
            /\ n = 0 => log' = log /\ (torn => torn')

(* What becomes of the records that wait when n of the batch land: they    *)
(* stay, are taken in hand, are through, go back or are forgotten.         *)
Moves(n) == \/ n = 0 /\ batch' = batch /\ queue' = queue
            \/ n = 0 /\ batch = <<>> /\ batch' = queue /\ queue' = <<>>
            \/ n = Len(batch) /\ batch' = <<>> /\ queue' = queue
            \/ batch' = <<>> /\ queue' = batch \o queue
            \/ batch' = <<>> /\ queue' = <<>> /\ chain'.resumed = "no"

(* No call goes back to before its record was accepted. *)
CallsGoOn == \A e \in Event : call[e] \notin {"new", "resuming"} => call'[e] \notin {"new", "resuming"}

(* A step that accepts no record. *)
Quiet(n) == /\ Lands(n) /\ Moves(n) /\ CallsGoOn
            /\ chain' = chain \/ chain'.resumed # "yes"
            /\ \/ head' = head
               \/ head' = [seq |-> chain.seq, event |-> chain.prev] /\ chain.resumed = "yes" /\ chain' = chain

LEMMA NothingLands == LogTypeOK /\ log' = log /\ torn' = torn => Lands(0)
<1> SUFFICES ASSUME LogTypeOK, log' = log, torn' = torn PROVE Lands(0)
  OBVIOUS
<1>1. log \in Seq(Line) /\ Len(log) \in Nat
  BY WaitsFacts, LenProperties
<1> QED BY <1>1 DEF Lands

LEMMA QuietSteps ==
  ASSUME LogInv, ResumeInv, [Next]_vars, ~ \E e \in Event : Resumes(e) \/ Records(e)
  PROVE  \E n \in 0 .. Len(batch) : Quiet(n)
<1>0. /\ LogTypeOK /\ call \in [Event -> Calls] /\ Len(batch) \in Nat /\ 0 \in 0 .. Len(batch)
      /\ Len(batch) \in 0 .. Len(batch)
  BY WaitsFacts DEF LogInv
<1>1. ASSUME UNCHANGED <<log, torn>>, UNCHANGED <<batch, queue>> \/ (batch = <<>> /\ batch' = queue /\ queue' = <<>>),
             CallsGoOn, chain' = chain \/ chain'.resumed # "yes", head' = head
      PROVE  Quiet(0)
  BY <1>0, <1>1, NothingLands DEF Quiet, Moves
<1>2. ASSUME NEW e \in Event, FirstRecord(e) PROVE Quiet(0)
  <2>1. CallsGoOn
    BY <1>0, <1>2 DEF CallsGoOn, FirstRecord
  <2>2. chain'.resumed # "yes"
    BY <1>2 DEF FirstRecord, LogInv, LogTypeOK
  <2> QED BY <1>1, <1>2, <2>1, <2>2 DEF FirstRecord, files
<1>3. CASE TimerFlushes \/ Stops \/ StartsUp \/ TakesQueue
  <2>1. CallsGoOn
    BY <1>3 DEF CallsGoOn, TimerFlushes, Stops, StartsUp, TakesQueue
  <2>2. TakesQueue => batch = <<>>
    BY DEF LogInv, StageInv, TakesQueue
  <2>3. UNCHANGED <<log, torn, chain, head>>
    BY <1>3 DEF TimerFlushes, Stops, StartsUp, TakesQueue, memory, files
  <2>4. UNCHANGED <<batch, queue>> \/ (batch = <<>> /\ batch' = queue /\ queue' = <<>>)
    BY <1>3, <2>2 DEF TimerFlushes, Stops, StartsUp, TakesQueue, memory
  <2> QED BY <1>1, <2>1, <2>3, <2>4
<1>4. CASE Writes
  <2>1. Lands(Len(batch))
    <3>1. Landing(SubSeq(batch, 1, Len(batch)))
      BY <1>0, <1>4, WriteLandings
    <3>2. batch # <<>> /\ batch \in Seq(Record)
      BY <1>0, <1>4, WaitsFacts DEF ResumeInv, Writes
    <3>3. Len(batch) # 0
      BY <3>2, EmptySeq
    <3> QED BY <1>0, <3>1, <3>3, PartLandings DEF Lands
  <2>2. CallsGoOn
    BY <1>4 DEF CallsGoOn, Writes
  <2>3. batch' = <<>> /\ queue' = queue /\ chain' = chain /\ head' = head
    BY <1>4 DEF Writes
  <2> QED BY <1>0, <2>1, <2>2, <2>3 DEF Quiet, Moves
<1>5. CASE Publishes
  <2>1. CallsGoOn /\ UNCHANGED <<log, torn, batch, queue, chain>>
    BY <1>5 DEF CallsGoOn, Publishes, files
  <2>2. chain.resumed = "yes"
    BY <1>5 DEF ResumeInv, Publishes
  <2>3. Lands(0)
    BY <1>0, <2>1, NothingLands
  <2> QED BY <1>0, <1>5, <2>1, <2>2, <2>3 DEF Quiet, Moves, Publishes
<1>6. Forgets => CallsGoOn /\ chain'.resumed = "no" /\ batch' = <<>> /\ queue' = <<>>
  <2>1. Forgets => CallsGoOn
    BY ForgottenCalls DEF CallsGoOn
  <2> QED BY <2>1, ForgottenCalls DEF NewChain
<1>7. ASSUME NEW ok \in BOOLEAN, Settles(ok), turns # <<>> PROVE CallsGoOn
  BY <1>7, SettledCalls DEF CallsGoOn
<1>8. CASE NothingToFlush \/ FlushEnds
  <2>1. turns # <<>> /\ UNCHANGED <<log, torn, head>>
    BY <1>8 DEF LogInv, StageInv, NothingToFlush, FlushEnds, Rotates, files
  <2>2. CASE Settles(TRUE) /\ UNCHANGED <<mode, chain, queue, batch, owed>>
    BY <1>0, <1>1, <1>7, <2>1, <2>2
  <2>3. CASE Forgets
    <3>1. Lands(0)
      BY <1>0, <2>1, NothingLands
    <3> QED BY <1>0, <1>6, <2>1, <2>3, <3>1 DEF Quiet, Moves
  <2> QED BY <1>8, <2>2, <2>3 DEF NothingToFlush, FlushEnds
<1>9. ASSUME NEW p \in Part, Landed(p) PROVE p.n \in 0 .. Len(batch) /\ Lands(p.n)
  <2>1. p.n \in 0 .. Len(batch) /\ Landing(SubSeq(batch, 1, p.n)) /\ torn' = (p.piece \/ (p.n = 0 /\ torn))
    BY <1>9 DEF Part, Landed
  <2>2. p.n = 0 => log' = log
    <3>1. p.n = 0 => SubSeq(batch, 1, p.n) = <<>>
      BY SubSeqEmpty
    <3>2. ASSUME p.n = 0 PROVE log' = log \o LinesOf(<<>>, torn)
      BY <2>1, <3>1, <3>2 DEF Landing, LinesOf
    <3>3. LinesOf(<<>>, torn) = <<>>
      BY DEF LinesOf
    <3>4. log \o <<>> = log
      BY <1>0, WaitsFacts, ConcatEmptySeq
    <3> QED BY <3>2, <3>3, <3>4
  <2> QED BY <1>0, <2>1, <2>2, PartLandings DEF Lands
<1>10. ASSUME NEW p \in Part, WriteFails(p) PROVE \E n \in 0 .. Len(batch) : Quiet(n)
  <2>1. p.n \in 0 .. Len(batch) /\ Lands(p.n) /\ head' = head /\ turns # <<>>
    BY <1>9, <1>10 DEF LogInv, StageInv, WriteFails
  <2>2. CASE Settles(FALSE) /\ queue' = Requeued /\ batch' = <<>> /\ chain' = chain
    BY <1>7, <2>1, <2>2 DEF Quiet, Moves, Requeued
  <2>3. CASE Forgets
    BY <1>6, <2>1, <2>3 DEF Quiet, Moves
  <2> QED BY <1>10, <2>2, <2>3 DEF WriteFails
<1>11. ASSUME NEW p \in Part, Killed(p) PROVE \E n \in 0 .. Len(batch) : Quiet(n)
  <2>1. CallsGoOn /\ chain'.resumed = "no" /\ batch' = <<>> /\ queue' = <<>> /\ head' = head
    BY <1>6, <1>11 DEF Killed
  <2>2. PICK n \in 0 .. Len(batch) : Lands(n)
    <3>1. CASE Landed(p)
      BY <1>9, <3>1
    <3>2. CASE UNCHANGED <<log, torn>>
      BY <1>0, <3>2, NothingLands
    <3> QED BY <1>11, <3>1, <3>2 DEF Killed
  <2> QED BY <2>1, <2>2 DEF Quiet, Moves
<1>12. CASE UNCHANGED vars
  <2>1. CallsGoOn /\ UNCHANGED <<log, torn, batch, queue, chain, head>>
    BY <1>12 DEF CallsGoOn, vars, memory, files
  <2> QED BY <1>1, <2>1
<1> QED BY <1>0, <1>2, <1>3, <1>4, <1>5, <1>8, <1>10, <1>11, <1>12 DEF Next, Flushing

-----------------------------------------------------------------------------
(* Every record ever made, in the files or still on its way there. *)
Stamped == {log[i].rec : i \in DOMAIN log} \cup Range(batch) \cup Range(queue)

(* seq and event are those of one record that was made. *)
Names(seq, event) == /\ event \in Event /\ call[event] \notin {"new", "resuming"}
                     /\ \A r \in Stamped : r.event = event => r.seq = seq

(* An event has one record, made when it was accepted; the chain's tail    *)
(* and the published head are each the number of the event they name.      *)
OneInv == /\ \A r \in Stamped : call[r.event] \notin {"new", "resuming"}
          /\ \A r, q \in Stamped : r.event = q.event => r = q
          /\ chain.resumed = "yes" => Names(chain.seq, chain.prev)
          /\ head.seq > 0 => Names(head.seq, head.event)

LEMMA StampedFacts ==
  ASSUME LogTypeOK
  PROVE  /\ Stamped \subseteq Record /\ DOMAIN log = 1 .. Len(log) /\ DOMAIN batch = 1 .. Len(batch)
         /\ Range(batch) = {batch[i] : i \in 1 .. Len(batch)} /\ Range(queue) \subseteq Record
<1>1. /\ log \in Seq(Line) /\ batch \in Seq(Record) /\ queue \in Seq(Record)
  BY WaitsFacts
<1>2. /\ DOMAIN log = 1 .. Len(log) /\ \A i \in 1 .. Len(log) : log[i] \in Line
      /\ DOMAIN batch = 1 .. Len(batch) /\ \A i \in 1 .. Len(batch) : batch[i] \in Record
      /\ DOMAIN queue = 1 .. Len(queue) /\ \A i \in 1 .. Len(queue) : queue[i] \in Record
  BY <1>1, LenProperties
<1> QED BY <1>2 DEF Stamped, Range, Line

LEMMA QuietMakesNone ==
  ASSUME LogTypeOK, NEW n \in 0 .. Len(batch), Quiet(n)
  PROVE  Stamped' \subseteq Stamped
<1>1. /\ DOMAIN log = 1 .. Len(log) /\ DOMAIN batch = 1 .. Len(batch) /\ batch \in Seq(Record) /\ queue \in Seq(Record)
      /\ Range(batch) = {batch[i] : i \in 1 .. Len(batch)}
  BY StampedFacts, WaitsFacts
<1>2. DOMAIN log' = 1 .. Len(log) + n /\ Len(log) \in Nat /\ n \in Nat /\ n <= Len(batch)
  <2>1. log' \in Seq(Line) /\ Len(log') = Len(log) + n
    BY DEF Quiet, Lands
  <2> QED BY <1>1, <2>1, WaitsFacts, LenProperties
<1>3. ASSUME NEW i \in DOMAIN log' PROVE log'[i].rec \in Stamped
  <2>1. CASE i \in 1 .. Len(log)
    BY <1>1, <2>1 DEF Quiet, Lands, Stamped
  <2>2. CASE i \notin 1 .. Len(log)
    <3>1. PICK k \in 1 .. n : i = Len(log) + k
      <4>1. i - Len(log) \in 1 .. n /\ i = Len(log) + (i - Len(log))
        BY <1>2, <2>2
      <4> QED BY <4>1
    <3>2. log'[i].rec = batch[k] /\ k \in 1 .. Len(batch)
      BY <1>2, <3>1 DEF Quiet, Lands
    <3> QED BY <1>1, <3>2 DEF Stamped
  <2> QED BY <2>1, <2>2
<1>4. Range(batch') \cup Range(queue') \subseteq Range(batch) \cup Range(queue)
  <2>1. Range(<<>>) = {} /\ Range(batch \o queue) = Range(batch) \cup Range(queue)
    <3>1. Range(batch \o queue) = Range(batch) \cup Range(queue)
      BY <1>1, RangeConcatenation
    <3>2. Range(<<>>) = {}
      BY DEF Range
    <3> QED BY <3>1, <3>2
  <2> QED BY <2>1 DEF Quiet, Moves
<1>5. Range(batch)' = Range(batch') /\ Range(queue)' = Range(queue')
  BY DEF Range
<1> QED BY <1>3, <1>4, <1>5 DEF Stamped

LEMMA QuietKeepsOne ==
  ASSUME LogTypeOK, OneInv, NEW n \in 0 .. Len(batch), Quiet(n)
  PROVE  OneInv'
<1>1. Stamped' \subseteq Stamped /\ Stamped \subseteq Record /\ CallsGoOn
  BY QuietMakesNone, StampedFacts DEF Quiet
<1>2. \A r \in Stamped' : call'[r.event] \notin {"new", "resuming"}
  BY <1>1 DEF OneInv, CallsGoOn, Record
<1>3. ASSUME NEW seq, NEW event, Names(seq, event) PROVE Names(seq, event)'
  BY <1>1, <1>3 DEF Names, CallsGoOn
<1>4. chain'.resumed = "yes" => chain' = chain
  BY DEF Quiet
<1>5. head' = head \/ (head'.seq = chain.seq /\ head'.event = chain.prev /\ chain.resumed = "yes")
  BY DEF Quiet
<1>6. ASSUME chain'.resumed = "yes" PROVE Names(chain.seq, chain.prev)'
  <2>1. PICK seq, event : seq = chain.seq /\ event = chain.prev
    OBVIOUS
  <2>2. Names(seq, event)'
    BY <1>3, <1>4, <1>6, <2>1 DEF OneInv
  <2> QED BY <1>4, <1>6, <2>1, <2>2 DEF Names
<1>7. ASSUME head'.seq > 0 PROVE Names(head.seq, head.event)'
  <2>1. PICK seq, event : seq = head'.seq /\ event = head'.event
    OBVIOUS
  <2>2. Names(seq, event)
    BY <1>5, <1>7, <2>1 DEF OneInv
  <2>3. Names(seq, event)'
    BY <1>3, <2>2
  <2> QED BY <2>1, <2>3 DEF Names
<1> QED BY <1>1, <1>2, <1>6, <1>7 DEF OneInv

LEMMA AcceptMakesOne ==
  ASSUME LogInv, OneInv, NEW e \in Event, Resumes(e) \/ Records(e)
  PROVE  OneInv'
<1>1. PICK seq \in Nat, prev \in Event \cup {Genesis} : Stamps(e, seq, prev)
  <2>1. chain.seq \in Nat /\ chain.prev \in Event \cup {Genesis}
    BY DEF LogInv, LogTypeOK
  <2>2. LastReadable.seq \in Nat /\ LastReadable.event \in Event \cup {Genesis}
    BY ResumedFrom DEF LogInv
  <2> QED BY <2>1, <2>2 DEF Resumes, Records
<1> DEFINE rec == [event |-> e, seq |-> seq + 1, prev |-> prev]
<1>2. /\ call'[e] \in {"writing", "recorded"} /\ \A f \in Event \ {e} : call'[f] = call[f]
      /\ chain'.seq = seq + 1 /\ chain'.prev = e /\ queue' = Append(queue, rec)
  BY <1>1, StampedCalls
<1>3. call[e] \in {"new", "resuming"} /\ UNCHANGED <<batch, log, head>>
  BY DEF Resumes, Records, files
<1>4. rec.event = e /\ rec.seq = seq + 1 /\ rec \in Record
  BY DEF Record
<1> HIDE DEF rec
<1>5. Stamped' = Stamped \cup {rec}
  <2>1. Range(Append(queue, rec)) = Range(queue) \cup {rec}
    <3>1. queue \in Seq(Record)
      BY WaitsFacts DEF LogInv
    <3> QED BY <1>4, <3>1, AppendProperties, RangeEquality, LenProperties DEF Range
  <2> QED BY <1>2, <1>3, <2>1 DEF Stamped, Range
<1>6. \A r \in Stamped : r.event # e /\ r.event \in Event
  BY <1>3, StampedFacts DEF OneInv, LogInv, Record
<1>7. \A r \in Stamped' : call'[r.event] \notin {"new", "resuming"}
  BY <1>2, <1>4, <1>5, <1>6 DEF OneInv
<1>8. \A r, q \in Stamped' : r.event = q.event => r = q
  BY <1>4, <1>5, <1>6 DEF OneInv
<1>9. Names(chain.seq, chain.prev)'
  BY <1>2, <1>4, <1>5, <1>6 DEF Names
<1>10. ASSUME head'.seq > 0 PROVE Names(head.seq, head.event)'
  <2>1. Names(head.seq, head.event)
    BY <1>3, <1>10 DEF OneInv
  <2>2. head.event \in Event \ {e}
    BY <1>3, <2>1 DEF Names
  <2> QED BY <1>2, <1>3, <1>4, <1>5, <2>1, <2>2 DEF Names
<1> QED BY <1>7, <1>8, <1>9, <1>10 DEF OneInv

-----------------------------------------------------------------------------
(* The records that wait, in the order they will land in. *)
Unsettled == batch \o queue

Links(a, b) == b.prev = a.event /\ b.seq = a.seq + 1

(* The records that wait are a chain that ends at the chain's tail. *)
WaitLinked == /\ \A k \in 1 .. Len(Unsettled) - 1 : Links(Unsettled[k], Unsettled[k + 1])
              /\ Unsettled # <<>> => /\ Unsettled[Len(Unsettled)].event = chain.prev
                                      /\ Unsettled[Len(Unsettled)].seq = chain.seq

(* What comes next in the files: linked to their last line, or a record    *)
(* that was put down before, in a write that failed.                       *)
FrontLinked ==
  log # <<>> /\ ~torn /\ log[Len(log)].whole =>
    /\ Unsettled # <<>> => \/ Links(log[Len(log)].rec, Unsettled[1])
                            \/ \E j \in 1 .. Len(log) : log[j].rec = Unsettled[1]
    /\ Unsettled = <<>> /\ chain.resumed = "yes" => /\ log[Len(log)].rec.event = chain.prev
                                                      /\ log[Len(log)].rec.seq = chain.seq

LinkInv == ChainUnbroken /\ WaitLinked /\ FrontLinked

LEMMA UnsettledFacts ==
  ASSUME LogTypeOK
  PROVE  /\ Unsettled \in Seq(Record) /\ Len(Unsettled) = Len(batch) + Len(queue)
         /\ Len(batch) \in Nat /\ Len(queue) \in Nat /\ Len(log) \in Nat
         /\ \A i \in 1 .. Len(batch) : Unsettled[i] = batch[i]
         /\ \A i \in 1 .. Len(queue) : Unsettled[Len(batch) + i] = queue[i]
         /\ Unsettled = <<>> <=> Len(Unsettled) = 0
         /\ log = <<>> <=> Len(log) = 0
<1>1. batch \in Seq(Record) /\ queue \in Seq(Record) /\ log \in Seq(Line)
  BY WaitsFacts
<1>2. Len(batch) \in Nat /\ Len(queue) \in Nat /\ Len(log) \in Nat
  BY <1>1, LenProperties
<1>3. PICK w : w = Unsettled
  OBVIOUS
<1>4. /\ w \in Seq(Record) /\ Len(w) = Len(batch) + Len(queue)
      /\ \A i \in 1 .. Len(batch) + Len(queue) : w[i] = IF i <= Len(batch) THEN batch[i] ELSE queue[i - Len(batch)]
  BY <1>1, <1>3, Concatenated DEF Unsettled
<1>5. \A i \in 1 .. Len(batch) : w[i] = batch[i]
  BY <1>2, <1>4
<1>6. ASSUME NEW i \in 1 .. Len(queue) PROVE w[Len(batch) + i] = queue[i]
  <2>1. Len(batch) + i \in 1 .. Len(batch) + Len(queue) /\ ~(Len(batch) + i <= Len(batch)) /\ Len(batch) + i - Len(batch) = i
    BY <1>2
  <2> QED BY <1>4, <2>1
<1>7. (w = <<>> <=> Len(w) = 0) /\ (log = <<>> <=> Len(log) = 0)
  BY <1>1, <1>4, EmptySeq
<1> QED BY <1>2, <1>3, <1>4, <1>5, <1>6, <1>7

(* The files stay unbroken when the first records that wait land. *)
LEMMA LandingKeepsChain ==
  ASSUME LogTypeOK, LinkInv, NEW n \in 0 .. Len(batch), Lands(n)
  PROVE  ChainUnbroken'
<1>1. /\ DOMAIN log = 1 .. Len(log) /\ Len(log) \in Nat /\ n \in Nat /\ n <= Len(batch)
      /\ Len(batch) \in Nat /\ Len(Unsettled) >= Len(batch) /\ (Unsettled = <<>> <=> Len(Unsettled) = 0)
      /\ (log = <<>> <=> Len(log) = 0) /\ torn \in BOOLEAN
      /\ \A i \in 1 .. Len(batch) : Unsettled[i] = batch[i]
  <2>1. Len(Unsettled) = Len(batch) + Len(queue) /\ Len(batch) \in Nat /\ Len(queue) \in Nat /\ Len(log) \in Nat
    BY UnsettledFacts
  <2>2. torn \in BOOLEAN
    BY DEF LogTypeOK
  <2> QED BY <2>1, <2>2, UnsettledFacts, StampedFacts
<1>2. /\ DOMAIN log' = 1 .. Len(log) + n
      /\ \A i \in 1 .. Len(log) : log'[i] = log[i]
      /\ \A i \in 1 .. n : /\ log'[Len(log) + i].rec = Unsettled[i]
                           /\ log'[Len(log) + i].whole <=> ~(i = 1 /\ torn)
  <2>1. log' \in Seq(Line) /\ Len(log') = Len(log) + n
    BY DEF Lands
  <2>2. DOMAIN log' = 1 .. Len(log) + n
    BY <2>1, LenProperties
  <2> QED BY <1>1, <2>2 DEF Lands
<1> SUFFICES ASSUME NEW i \in DOMAIN log' \ {1}, log'[i - 1].whole, log'[i].whole
             PROVE  \/ Links(log'[i - 1].rec, log'[i].rec)
                    \/ \E j \in 1 .. i - 1 : log'[j].rec = log'[i].rec
  BY DEF ChainUnbroken, Links
<1>3. CASE i <= Len(log)
  <2>1. i \in 1 .. Len(log) /\ i - 1 \in 1 .. Len(log) /\ i \in DOMAIN log \ {1}
    BY <1>1, <1>2, <1>3
  <2>2. log'[i] = log[i] /\ log'[i - 1] = log[i - 1]
    BY <1>2, <2>1
  <2>3. \/ Links(log[i - 1].rec, log[i].rec)
        \/ \E j \in 1 .. i - 1 : log[j].rec = log[i].rec
    BY <2>1, <2>2 DEF LinkInv, ChainUnbroken, Links
  <2>4. \A j \in 1 .. i - 1 : j \in 1 .. Len(log)
    BY <1>1, <2>1
  <2> QED BY <1>2, <2>2, <2>3, <2>4
<1>4. CASE i = Len(log) + 1
  <2>1. Len(log) # 0 /\ Len(log) \in 1 .. Len(log) /\ 1 \in 1 .. n /\ i - 1 = Len(log)
    BY <1>1, <1>2, <1>4
  <2>2. log'[i].rec = Unsettled[1] /\ ~torn /\ log'[i - 1] = log[Len(log)]
    BY <1>2, <1>4, <2>1
  <2>3. Unsettled # <<>>
    BY <1>1, <2>1
  <2>4. \/ Links(log[Len(log)].rec, Unsettled[1])
        \/ \E j \in 1 .. Len(log) : log[j].rec = Unsettled[1]
    BY <1>1, <2>1, <2>2, <2>3 DEF LinkInv, FrontLinked
  <2> QED BY <1>2, <2>1, <2>2, <2>4
<1>5. CASE i > Len(log) + 1
  <2>1. PICK k \in 1 .. n : i = Len(log) + k /\ k - 1 \in 1 .. n /\ i - 1 = Len(log) + (k - 1)
    <3>1. i - Len(log) \in 1 .. n /\ i = Len(log) + (i - Len(log)) /\ (i - Len(log)) - 1 \in 1 .. n
          /\ i - 1 = Len(log) + ((i - Len(log)) - 1)
      <4>1. i \in Int /\ i <= Len(log) + n /\ i > Len(log) + 1 /\ Len(log) \in Nat /\ n \in Nat
        BY <1>1, <1>2, <1>5
      <4> QED BY <4>1
    <3> QED BY <3>1
  <2>2. log'[i].rec = Unsettled[k] /\ log'[i - 1].rec = Unsettled[k - 1]
    BY <1>2, <2>1
  <2>3. Links(Unsettled[k - 1], Unsettled[(k - 1) + 1]) /\ (k - 1) + 1 = k
    <3>1. k - 1 \in 1 .. Len(Unsettled) - 1 /\ (k - 1) + 1 = k
      <4>1. Len(Unsettled) \in Nat
        BY UnsettledFacts
      <4> QED BY <1>1, <2>1, <4>1
    <3> QED BY <3>1 DEF LinkInv, WaitLinked
  <2> QED BY <2>2, <2>3
<1> QED BY <1>1, <1>2, <1>3, <1>4, <1>5

LEMMA QuietMovesWaiting ==
  ASSUME LogTypeOK, NEW n \in 0 .. Len(batch), Moves(n), chain'.resumed = "yes"
  PROVE  Unsettled' = Unsettled \/ (n = Len(batch) /\ Unsettled' = queue)
<1>1. batch \in Seq(Record) /\ queue \in Seq(Record) /\ batch \o queue \in Seq(Record)
  BY WaitsFacts, ConcatProperties
<1>2. Unsettled' = batch' \o queue'
  BY DEF Unsettled
<1>3. <<>> \o queue = queue /\ queue \o <<>> = queue /\ <<>> \o (batch \o queue) = batch \o queue
  BY <1>1, ConcatEmptySeq
<1>4. \/ batch' = batch /\ queue' = queue
      \/ batch = <<>> /\ batch' = queue /\ queue' = <<>>
      \/ n = Len(batch) /\ batch' = <<>> /\ queue' = queue
      \/ batch' = <<>> /\ queue' = batch \o queue
  BY DEF Moves
<1> QED BY <1>2, <1>3, <1>4 DEF Unsettled

LEMMA QuietKeepsLinks ==
  ASSUME LogInv, LinkInv, NEW n \in 0 .. Len(batch), Quiet(n), ResumeInv', StageInv'
  PROVE  LinkInv'
<1>1. /\ LogTypeOK /\ Len(log) \in Nat /\ n \in Nat /\ n <= Len(batch) /\ Len(Unsettled) = Len(batch) + Len(queue)
      /\ Len(batch) \in Nat /\ Len(queue) \in Nat /\ (Unsettled = <<>> <=> Len(Unsettled) = 0)
      /\ (log = <<>> <=> Len(log) = 0)
  BY UnsettledFacts DEF LogInv
<1>2. ChainUnbroken'
  BY <1>1, LandingKeepsChain DEF Quiet
<1>3. Lands(n) /\ Moves(n)
  BY DEF Quiet
<1>4. \A i \in 1 .. Len(batch) : Unsettled[i] = batch[i]
  BY <1>1, UnsettledFacts
<1>5. CASE chain'.resumed # "yes"
  <2>1. batch' = <<>> /\ queue' = <<>>
    BY <1>5 DEF ResumeInv, StageInv
  <2>2. Unsettled' = <<>>
    BY <2>1 DEF Unsettled
  <2>3. Len(<<>>) = 0 /\ 1 .. 0 - 1 = {}
    OBVIOUS
  <2>4. WaitLinked' /\ FrontLinked'
    BY <1>5, <2>2, <2>3 DEF WaitLinked, FrontLinked
  <2> QED BY <1>2, <2>4 DEF LinkInv
<1>6. CASE chain'.resumed = "yes" /\ Unsettled' = Unsettled
  <2>1. chain' = chain
    BY <1>6 DEF Quiet
  <2>2. WaitLinked'
    BY <1>6, <2>1 DEF LinkInv, WaitLinked
  <2>3. CASE n = 0
    <3>1. log' = log /\ (~torn' => ~torn)
      BY <1>3, <2>3 DEF Lands
    <3>2. FrontLinked'
      BY <1>6, <2>1, <3>1 DEF LinkInv, FrontLinked
    <3> QED BY <1>2, <2>2, <3>2 DEF LinkInv
  <2>4. CASE n # 0
    <3>1. Unsettled # <<>> /\ 1 \in 1 .. n /\ 1 \in 1 .. Len(batch)
      BY <1>1, <2>4
    <3>2. log'[Len(log) + 1].rec = Unsettled[1] /\ Len(log) + 1 \in 1 .. Len(log')
      BY <1>1, <1>3, <1>4, <3>1 DEF Lands
    <3>3. FrontLinked'
      BY <1>6, <3>1, <3>2 DEF FrontLinked
    <3> QED BY <1>2, <2>2, <3>3 DEF LinkInv
  <2> QED BY <2>3, <2>4
<1>7. CASE chain'.resumed = "yes" /\ n = Len(batch) /\ Unsettled' = queue
  <2>1. chain' = chain
    BY <1>7 DEF Quiet
  <2>2. CASE n = 0
    <3>1. Unsettled = queue
      <4>1. batch = <<>> /\ queue \in Seq(Record)
        BY <1>1, <1>7, <2>2, WaitsFacts, EmptySeq
      <4> QED BY <4>1, ConcatEmptySeq DEF Unsettled
    <3> QED BY <1>6, <1>7, <3>1
  <2>3. CASE n # 0
    <3>1. \A i \in 1 .. Len(queue) : queue[i] = Unsettled[n + i]
      BY <1>1, <1>7, UnsettledFacts
    <3>2. queue = <<>> <=> Len(queue) = 0
      BY <1>1, WaitsFacts, EmptySeq
    <3>3. \A k \in 1 .. Len(queue) - 1 : Links(queue[k], queue[k + 1])
      <4> SUFFICES ASSUME NEW k \in 1 .. Len(queue) - 1 PROVE Links(queue[k], queue[k + 1])
        OBVIOUS
      <4>1. /\ k \in 1 .. Len(queue) /\ k + 1 \in 1 .. Len(queue) /\ n + k \in 1 .. Len(Unsettled) - 1
            /\ (n + k) + 1 = n + (k + 1)
        BY <1>1, <1>7
      <4>2. Links(Unsettled[n + k], Unsettled[(n + k) + 1])
        BY <4>1 DEF LinkInv, WaitLinked
      <4> QED BY <3>1, <4>1, <4>2
    <3>4. queue # <<>> => queue[Len(queue)] = Unsettled[Len(Unsettled)]
      <4> SUFFICES ASSUME queue # <<>> PROVE queue[Len(queue)] = Unsettled[Len(Unsettled)]
        OBVIOUS
      <4>1. Len(queue) \in 1 .. Len(queue) /\ n + Len(queue) = Len(Unsettled)
        BY <1>1, <1>7, <3>2
      <4> QED BY <3>1, <4>1
    <3>5. Unsettled # <<>> /\ n \in 1 .. n /\ n \in 1 .. Len(batch)
      BY <1>1, <2>3
    <3>6. WaitLinked'
      BY <1>7, <2>1, <3>3, <3>4, <3>5 DEF LinkInv, WaitLinked
    <3>7. log'[Len(log')].rec = Unsettled[n]
      BY <1>3, <1>4, <3>5 DEF Lands
    <3>8. queue # <<>> => Links(Unsettled[n], queue[1])
      <4> SUFFICES ASSUME queue # <<>> PROVE Links(Unsettled[n], queue[1])
        OBVIOUS
      <4>1. 1 \in 1 .. Len(queue) /\ n \in 1 .. Len(Unsettled) - 1
        BY <1>1, <1>7, <3>2, <3>5
      <4> QED BY <3>1, <4>1 DEF LinkInv, WaitLinked
    <3>9. queue = <<>> => Unsettled[n].event = chain.prev /\ Unsettled[n].seq = chain.seq
      <4>1. queue = <<>> => n = Len(Unsettled)
        BY <1>1, <1>7, <3>2
      <4> QED BY <3>5, <4>1 DEF LinkInv, WaitLinked
    <3>10. FrontLinked'
      BY <1>7, <2>1, <3>7, <3>8, <3>9 DEF FrontLinked
    <3> QED BY <1>2, <3>6, <3>10 DEF LinkInv
  <2> QED BY <2>2, <2>3
<1> QED BY <1>1, <1>3, <1>5, <1>6, <1>7, QuietMovesWaiting

(* A chain is resumed from the last line of the files, when that line can  *)
(* be read.                                                                *)
LEMMA ResumesFromLast ==
  ASSUME LogTypeOK, FilesInv, log # <<>>, ~torn, log[Len(log)].whole
  PROVE  LastReadable = log[Len(log)].rec
<1>1. Len(log) \in Nat /\ Len(log) # 0 /\ live \in Nat \ {0}
  BY UnsettledFacts DEF LogTypeOK
<1>2. archives # <<>> => Last(archives) \in Nat \ {0}
  <2>1. archives \in Seq(Nat \ {0})
    BY DEF LogTypeOK
  <2>2. archives # <<>> => Len(archives) \in 1 .. Len(archives)
    BY <2>1, EmptySeq
  <2> QED BY <2>1, <2>2, ElementOfSeq DEF Last
<1>3. Len(log) \in NewestFile /\ NewestFile \subseteq 1 .. Len(log)
  BY <1>1, <1>2 DEF FilesInv, NewestFile
<1> DEFINE readable == {i \in NewestFile : log[i].whole}
<1>4. Len(log) \in readable /\ readable \subseteq 1 .. Len(log)
  BY <1>3
<1>5. LastReadable = log[Max(readable)].rec
  BY <1>4 DEF LastReadable
<1> HIDE DEF readable
<1>6. \A x \in readable : (\A y \in readable : x >= y) => x = Len(log)
  BY <1>1, <1>4
<1>7. \A y \in readable : Len(log) >= y
  BY <1>1, <1>4
<1>8. Max(readable) = Len(log)
  BY <1>4, <1>6, <1>7 DEF Max
<1> QED BY <1>5, <1>8

(* A record accepted is linked to the newest before it. *)
LEMMA AcceptKeepsLinks ==
  ASSUME LogInv, ResumeInv, FilesInv, LinkInv, NEW e \in Event, Resumes(e) \/ Records(e)
  PROVE  LinkInv'
<1>1. LogTypeOK
  BY DEF LogInv
<1>2. PICK seq \in Nat, prev \in Event \cup {Genesis} :
        /\ Stamps(e, seq, prev)
        /\ Records(e) => seq = chain.seq /\ prev = chain.prev
        /\ Resumes(e) => seq = LastReadable.seq /\ prev = LastReadable.event
  <2>1. chain.seq \in Nat /\ chain.prev \in Event \cup {Genesis}
    BY <1>1 DEF LogTypeOK
  <2>2. LastReadable.seq \in Nat /\ LastReadable.event \in Event \cup {Genesis}
    BY <1>1, ResumedFrom
  <2>3. Records(e) => chain.resumed = "yes"
    BY DEF Records
  <2>4. Resumes(e) => chain.resumed = "reading"
    BY DEF Resumes, ResumeInv
  <2>5. ~(Records(e) /\ Resumes(e))
    BY <2>3, <2>4
  <2> QED BY <2>1, <2>2, <2>5 DEF Resumes, Records
<1> DEFINE rec == [event |-> e, seq |-> seq + 1, prev |-> prev]
<1>3. rec \in Record /\ rec.event = e /\ rec.seq = seq + 1 /\ rec.prev = prev
  BY DEF Record
<1>4. chain'.seq = seq + 1 /\ chain'.prev = e /\ queue' = Append(queue, rec) /\ chain'.resumed = "yes"
  BY <1>2, StampedCalls
<1> HIDE DEF rec
<1>5. UNCHANGED <<batch, log, torn>>
  BY DEF Resumes, Records, files
<1>6. /\ Len(Unsettled) \in Nat /\ Unsettled \in Seq(Record) /\ (Unsettled = <<>> <=> Len(Unsettled) = 0)
      /\ Len(log) \in Nat /\ (log = <<>> <=> Len(log) = 0)
  BY <1>1, UnsettledFacts, LenProperties
<1>7. Unsettled' = Append(Unsettled, rec)
  <2>1. batch \in Seq(Record) /\ queue \in Seq(Record)
    BY <1>1, WaitsFacts
  <2>2. Append(queue, rec) = queue \o <<rec>> /\ Append(Unsettled, rec) = Unsettled \o <<rec>>
    BY <1>3, <1>6, <2>1, AppendIsConcat
  <2>3. <<rec>> \in Seq(Record)
    BY <1>3
  <2>4. batch \o (queue \o <<rec>>) = (batch \o queue) \o <<rec>>
    BY <2>1, <2>3, ConcatAssociative
  <2>5. Unsettled' = batch \o Append(queue, rec)
    BY <1>4, <1>5 DEF Unsettled
  <2> QED BY <2>2, <2>4, <2>5 DEF Unsettled
<1>8. PICK w : w = Unsettled'
  OBVIOUS
<1>9. /\ Len(w) = Len(Unsettled) + 1 /\ w # <<>> /\ w[Len(w)] = rec
      /\ \A i \in 1 .. Len(Unsettled) : w[i] = Unsettled[i]
  <2>1. /\ w \in Seq(Record) /\ Len(w) = Len(Unsettled) + 1 /\ w[Len(Unsettled) + 1] = rec
        /\ \A i \in 1 .. Len(Unsettled) : w[i] = Unsettled[i]
    BY <1>3, <1>6, <1>7, <1>8, AppendProperties
  <2>2. w # <<>>
    BY <1>6, <2>1, EmptySeq
  <2> QED BY <2>1, <2>2
<1>10. Unsettled # <<>> => chain.resumed = "yes"
  <2>1. chain.resumed # "yes" => batch = <<>> /\ queue = <<>>
    BY DEF ResumeInv, LogInv, StageInv
  <2>2. batch = <<>> /\ queue = <<>> => Unsettled = <<>>
    BY DEF Unsettled
  <2> QED BY <2>1, <2>2
<1>11. Unsettled # <<>> => Records(e)
  BY <1>10 DEF Resumes, ResumeInv
<1>12. ChainUnbroken'
  BY <1>5 DEF LinkInv, ChainUnbroken
<1>13. WaitLinked'
  <2>1. ASSUME NEW k \in 1 .. Len(w) - 1 PROVE Links(w[k], w[k + 1])
    <3>1. CASE k = Len(Unsettled)
      <4>1. Unsettled # <<>> /\ k \in 1 .. Len(Unsettled) /\ k + 1 = Len(w)
        BY <1>6, <1>9, <2>1, <3>1
      <4>2. w[k].event = chain.prev /\ w[k].seq = chain.seq
        BY <1>9, <3>1, <4>1 DEF LinkInv, WaitLinked
      <4> QED BY <1>2, <1>3, <1>9, <1>11, <4>1, <4>2 DEF Links
    <3>2. CASE k # Len(Unsettled)
      <4>1. k \in 1 .. Len(Unsettled) - 1 /\ k \in 1 .. Len(Unsettled) /\ k + 1 \in 1 .. Len(Unsettled)
        BY <1>6, <1>9, <2>1, <3>2
      <4> QED BY <1>9, <4>1 DEF LinkInv, WaitLinked
    <3> QED BY <3>1, <3>2
  <2>2. w[Len(w)].event = chain'.prev /\ w[Len(w)].seq = chain'.seq
    BY <1>3, <1>4, <1>9
  <2> QED BY <1>8, <2>1, <2>2 DEF WaitLinked
<1>14. FrontLinked'
  <2> SUFFICES ASSUME log # <<>>, ~torn, log[Len(log)].whole
               PROVE  \/ Links(log[Len(log)].rec, w[1])
                      \/ \E j \in 1 .. Len(log) : log[j].rec = w[1]
    BY <1>5, <1>8, <1>9 DEF FrontLinked
  <2>1. CASE Unsettled # <<>>
    <3>1. w[1] = Unsettled[1]
      BY <1>6, <1>9, <2>1
    <3> QED BY <2>1, <3>1 DEF LinkInv, FrontLinked
  <2>2. CASE Unsettled = <<>>
    <3>1. w[1] = rec
      BY <1>6, <1>9, <2>2
    <3>2. prev = log[Len(log)].rec.event /\ seq = log[Len(log)].rec.seq
      <4>1. CASE Records(e)
        <5>1. chain.resumed = "yes"
          BY <4>1 DEF Records
        <5> QED BY <1>2, <2>2, <4>1, <5>1 DEF LinkInv, FrontLinked
      <4>2. CASE Resumes(e)
        BY <1>1, <1>2, <4>2, ResumesFromLast
      <4> QED BY <4>1, <4>2
    <3> QED BY <1>3, <3>1, <3>2 DEF Links
  <2> QED BY <2>1, <2>2
<1> QED BY <1>12, <1>13, <1>14 DEF LinkInv

LEMMA StepKeepsFiles ==
  ASSUME LogInv, ResumeInv, FilesInv, [Next]_vars
  PROVE  FilesInv'
<1>1. /\ LogTypeOK /\ Len(log) \in Nat /\ live \in Nat \ {0} /\ archives \in Seq(Nat \ {0})
      /\ Len(archives) \in Nat /\ MaxFiles \in Nat \ {0} /\ FileSize \in Nat \ {0}
  BY UnsettledFacts, LenProperties, SizeAssumption DEF LogInv, LogTypeOK
<1>2. Len(log') \in Nat /\ Len(log') >= Len(log)
  <2>1. CASE \E e \in Event : Resumes(e) \/ Records(e)
    <3>1. log' = log
      BY <2>1 DEF Resumes, Records, files
    <3> QED BY <1>1, <3>1
  <2>2. CASE ~ \E e \in Event : Resumes(e) \/ Records(e)
    <3>1. PICK n \in 0 .. Len(batch) : Quiet(n)
      BY <2>2, QuietSteps
    <3> QED BY <1>1, <3>1 DEF Quiet, Lands
  <2> QED BY <2>1, <2>2
<1>3. CASE live' = live /\ archives' = archives
  <2>1. archives # <<>> => Last(archives) \in Nat \ {0}
    <3>1. archives # <<>> => Len(archives) \in 1 .. Len(archives)
      BY <1>1, EmptySeq
    <3> QED BY <1>1, <3>1, ElementOfSeq DEF Last
  <2>2. Last(archives') = Last(archives)
    BY <1>3
  <2> QED BY <1>1, <1>2, <1>3, <2>1, <2>2 DEF FilesInv
<1>4. CASE Rotates
  <2> DEFINE all == Append(archives, live)
  <2>1. /\ all \in Seq(Nat \ {0}) /\ Len(all) = Len(archives) + 1 /\ all[Len(all)] = live
    BY <1>1, AppendProperties
  <2>2. archives' = all \/ (Len(all) > MaxFiles /\ archives' = SubSeq(all, Len(all) - MaxFiles + 1, Len(all)))
    BY <1>4 DEF Rotates
  <2>3. live' = Len(log) + 1 /\ log' = log /\ live <= Len(log)
    BY <1>1, <1>4 DEF Rotates
  <2> HIDE DEF all
  <2>4. archives' # <<>> /\ Last(archives') = live
    <3>1. CASE archives' = all
      <4>1. all # <<>>
        BY <1>1, <2>1, EmptySeq
      <4> QED BY <2>1, <3>1, <4>1 DEF Last
    <3>2. CASE Len(all) > MaxFiles /\ archives' = SubSeq(all, Len(all) - MaxFiles + 1, Len(all))
      <4> DEFINE first == Len(all) - MaxFiles + 1
      <4>1. first \in Nat \ {0} /\ Len(all) \in Nat /\ first <= Len(all) /\ Len(all) - first + 1 = MaxFiles
        BY <1>1, <2>1, <3>2
      <4> HIDE DEF first
      <4>2. \A i \in first .. Len(all) : all[i] \in Nat \ {0}
        <5>1. first .. Len(all) \subseteq 1 .. Len(all)
          BY <4>1
        <5> QED BY <2>1, <5>1, ElementOfSeq
      <4>3. PICK rest : rest = SubSeq(all, first, Len(all))
        OBVIOUS
      <4>4. /\ rest \in Seq(Nat \ {0}) /\ Len(rest) = MaxFiles
            /\ \A i \in 1 .. MaxFiles : rest[i] = all[first + i - 1]
        BY <4>1, <4>2, <4>3, SubSeqProperties
      <4>5. rest # <<>> /\ rest[Len(rest)] = all[Len(all)]
        <5>1. MaxFiles \in 1 .. MaxFiles /\ first + MaxFiles - 1 = Len(all)
          BY <1>1, <4>1
        <5> QED BY <1>1, <4>4, <5>1, EmptySeq
      <4> QED BY <2>1, <3>2, <4>3, <4>5 DEF first, Last
    <3> QED BY <2>2, <3>1, <3>2
  <2> QED BY <1>1, <2>3, <2>4 DEF FilesInv
<1>5. (live' = live /\ archives' = archives) \/ Rotates
  <2>1. CASE \E e \in Event : FirstRecord(e) \/ Resumes(e) \/ Records(e)
    BY <2>1 DEF FirstRecord, Resumes, Records, files
  <2>2. CASE TimerFlushes \/ NothingToFlush \/ TakesQueue \/ Publishes \/ StartsUp \/ Stops
    BY <2>2 DEF TimerFlushes, NothingToFlush, TakesQueue, Publishes, StartsUp, Stops, files
  <2>3. CASE Writes \/ \E p \in Part : WriteFails(p) \/ Killed(p)
    BY <2>3 DEF Writes, WriteFails, Killed
  <2>4. CASE FlushEnds
    BY <2>4 DEF FlushEnds, files
  <2>5. CASE UNCHANGED vars
    BY <2>5 DEF vars, files
  <2> QED BY <2>1, <2>2, <2>3, <2>4, <2>5 DEF Next, Flushing
<1> QED BY <1>3, <1>4, <1>5

(* The whole of what keeps the chain: the account of the calls, one record *)
(* of every event, and what waits linked to what was written.              *)
KeepingInv == LogInv /\ ResumeInv /\ FilesInv /\ LinkInv /\ OneInv

LEMMA StepKeepsChain == KeepingInv /\ [Next]_vars => KeepingInv'
<1> SUFFICES ASSUME KeepingInv, [Next]_vars PROVE KeepingInv'
  OBVIOUS
<1>1. LogInv' /\ ResumeInv' /\ FilesInv'
  BY LogStep, StepKeepsResume, StepKeepsFiles DEF KeepingInv
<1>2. CASE \E e \in Event : Resumes(e) \/ Records(e)
  <2>1. LinkInv' /\ OneInv'
    BY <1>2, AcceptKeepsLinks, AcceptMakesOne DEF KeepingInv
  <2> QED BY <1>1, <2>1 DEF KeepingInv
<1>3. CASE ~ \E e \in Event : Resumes(e) \/ Records(e)
  <2>1. PICK n \in 0 .. Len(batch) : Quiet(n)
    BY <1>3, QuietSteps DEF KeepingInv
  <2>2. LinkInv'
    BY <1>1, <2>1, QuietKeepsLinks DEF KeepingInv, LogInv
  <2>3. OneInv'
    BY <2>1, QuietKeepsOne DEF KeepingInv, LogInv
  <2> QED BY <1>1, <2>2, <2>3 DEF KeepingInv
<1> QED BY <1>2, <1>3

LEMMA InitKeeps == Init => KeepingInv
<1> SUFFICES ASSUME Init PROVE KeepingInv
  OBVIOUS
<1>1. /\ call = [e \in Event |-> "new"] /\ queue = <<>> /\ batch = <<>> /\ log = <<>> /\ stage = "idle"
      /\ archives = <<>> /\ live = 1 /\ chain.resumed = "no" /\ head.seq = 0
  BY DEF Init, NewChain
<1>2. <<>> \o <<>> = <<>> /\ DOMAIN <<>> = {} /\ Len(<<>>) = 0 /\ Range(<<>>) = {}
  BY DEF Range
<1>3. ResumeInv /\ FilesInv
  BY <1>1, <1>2 DEF ResumeInv, FilesInv
<1>4. Unsettled = <<>> /\ Stamped = {}
  BY <1>1, <1>2 DEF Unsettled, Stamped
<1>5. 1 .. 0 - 1 = {}
  OBVIOUS
<1>6. LinkInv
  BY <1>1, <1>2, <1>4, <1>5 DEF LinkInv, ChainUnbroken, WaitLinked, FrontLinked
<1>7. OneInv
  BY <1>1, <1>4 DEF OneInv
<1> QED BY <1>3, <1>6, <1>7, InitLog DEF KeepingInv

(* The hash chain holds in the files: two readable records next to each    *)
(* other are linked, or the second was put down before, whatever writes    *)
(* failed, were cut off, were rotated away or were resumed from.           *)
THEOREM LogChainUnbroken == Spec => []ChainUnbroken
<1>1. KeepingInv => ChainUnbroken
  BY DEF KeepingInv, LinkInv
<1> QED BY <1>1, InitKeeps, StepKeepsChain, PTL DEF Spec

-----------------------------------------------------------------------------
(* The witness *)

LEMMA MinExists ==
  ASSUME NEW S \in SUBSET Nat, S # {}
  PROVE  Min(S) \in S
<1>1. PICK x \in S : \A y \in S : <<y, x>> \notin OpToRel(<, Nat)
  BY NatLessThanWellFounded, WFMin, Zenon
<1>2. ASSUME NEW y \in S, ~(x =< y) PROVE FALSE
  <2>1. <<y, x>> \in Nat \X Nat /\ <<y, x>>[1] < <<y, x>>[2]
    BY <1>2
  <2>2. <<y, x>> \in OpToRel(<, Nat)
    BY <2>1, Zenon DEF OpToRel
  <2> QED BY <1>1, <2>2
<1>3. \E x1 \in S : \A y \in S : x1 =< y
  BY <1>2
<1> QED BY <1>3 DEF Min

LEMMA OneRecordIsHonest == KeepingInv => WitnessHonest
<1> SUFFICES ASSUME KeepingInv, head.seq > 0, Witness # "intact", NEW i \in Kept, log[i].rec.event = head.event
             PROVE  Cardinality({log[j].rec : j \in SameNumber}) > 1
  BY DEF WitnessHonest
<1>1. LogTypeOK /\ OneInv
  BY DEF KeepingInv, LogInv
<1>2. DOMAIN log = 1 .. Len(log) /\ Len(log) \in Nat /\ Kept \subseteq DOMAIN log
  BY <1>1, StampedFacts, UnsettledFacts DEF Kept
<1>3. log[i].rec.seq = head.seq
  <2>1. log[i].rec \in Stamped
    BY <1>2 DEF Stamped
  <2> QED BY <1>1, <2>1 DEF OneInv, Names
<1>4. i \in SameNumber /\ SameNumber \subseteq 1 .. Len(log)
  BY <1>2, <1>3 DEF SameNumber
<1>5. head.seq \in Nat
  BY <1>1 DEF LogTypeOK
<1>6. ~ \A k \in Kept : log[k].rec.seq < head.seq
  BY <1>3, <1>5
<1>7. log[Min(SameNumber)].rec.event # head.event
  BY <1>4, <1>6 DEF Witness
<1>8. PICK m \in SameNumber : m = Min(SameNumber)
  <2>1. SameNumber \in SUBSET Nat /\ SameNumber # {}
    BY <1>2, <1>4
  <2> QED BY <2>1, MinExists
<1> DEFINE recs == {log[j].rec : j \in SameNumber}
           a == log[i].rec
           b == log[m].rec
<1>9. a \in recs /\ b \in recs /\ a # b
  BY <1>4, <1>7, <1>8
<1>10. IsFiniteSet(recs)
  <2>1. IsFiniteSet(1 .. Len(log))
    BY <1>2, FS_Interval
  <2>2. IsFiniteSet(SameNumber)
    BY <1>4, <2>1, FS_Subset
  <2> DEFINE f == [j \in SameNumber |-> log[j].rec]
  <2>3. f \in Surjection(SameNumber, recs)
    BY DEF Surjection
  <2> QED BY <2>2, <2>3, FS_Surjection
<1> HIDE DEF recs, a, b
<1>11. IsFiniteSet({a}) /\ Cardinality({a}) = 1
  BY FS_Singleton
<1>12. Cardinality({a} \cup {b}) = 2
  <2>1. Cardinality({a} \cup {b}) = IF b \in {a} THEN Cardinality({a}) ELSE Cardinality({a}) + 1
    BY <1>11, FS_AddElement
  <2>2. b \notin {a}
    BY <1>9
  <2> QED BY <1>11, <2>1, <2>2
<1>13. Cardinality({a} \cup {b}) <= Cardinality(recs) /\ Cardinality(recs) \in Nat
  <2>1. {a} \cup {b} \in SUBSET recs
    BY <1>9
  <2> QED BY <1>10, <2>1, FS_Subset, FS_CardinalityType
<1>14. Cardinality(recs) > 1
  BY <1>12, <1>13
<1> QED BY <1>14, Zenon DEF recs

(* The witness tells the truth of the files: a published head whose record *)
(* can be read there, and whose number no other record has, is found       *)
(* intact, whatever was rotated, put down twice or resumed from.           *)
THEOREM LogWitnessHonest == Spec => []WitnessHonest
BY InitKeeps, StepKeepsChain, OneRecordIsHonest, PTL DEF Spec

-----------------------------------------------------------------------------
(* What waited when close was called is in the files, or still on its way  *)
(* there; the flush of close itself is the one that has all of it in hand. *)
OwedInv ==
  /\ mode = "closing" => owed \subseteq Written \cup Waiting
  /\ mode # "closing" => \A i \in DOMAIN turns : turns[i].by # Close
  /\ turns # <<>> /\ Head(turns).by = Close =>
       /\ stage = "write" => owed \subseteq Written \cup EventsOf(batch)
       /\ stage \in {"publish", "rotate"} => owed \subseteq Written

(* What a step does to the flushes asked for. *)
LEMMA OwedAsked ==
  ASSUME LogTypeOK, OwedInv, NEW t \in TurnType, turns' = Append(turns, t), t.by = Close => mode' = "closing",
         mode = "closing" => mode' = "closing"
  PROVE  /\ mode' # "closing" => \A i \in DOMAIN turns' : turns'[i].by # Close
         /\ Head(turns') = IF turns = <<>> THEN t ELSE Head(turns)
<1>1. /\ Len(turns) \in Nat /\ DOMAIN turns = 1 .. Len(turns) /\ DOMAIN turns' = 1 .. Len(turns) + 1
      /\ \A i \in 1 .. Len(turns) : turns'[i] = turns[i]
      /\ turns'[Len(turns) + 1] = t
      /\ Head(turns') = IF turns = <<>> THEN t ELSE Head(turns)
  BY TurnsFacts
<1>2. \A i \in 1 .. Len(turns) + 1 : i \in 1 .. Len(turns) \/ i = Len(turns) + 1
  BY <1>1
<1> QED BY <1>1, <1>2 DEF OwedInv

LEMMA OwedSettled ==
  ASSUME LogInv, OwedInv, turns # <<>>, NEW ok \in BOOLEAN, Settles(ok), ~Ends
  PROVE  /\ stage' = "idle"
         /\ mode # "closing" => \A i \in DOMAIN turns' : turns'[i].by # Close
<1> DEFINE rest == Tail(turns)
           again == Turn(Head(turns).by, FALSE)
<1>1. /\ Len(turns) \in Nat /\ DOMAIN turns = 1 .. Len(turns) /\ Head(turns) = turns[1] /\ Len(turns) >= 1
      /\ rest \in Seq(TurnType) /\ Len(rest) = Len(turns) - 1 /\ DOMAIN rest = 1 .. Len(turns) - 1
      /\ \A i \in 1 .. Len(turns) - 1 : rest[i] = turns[i + 1]
  BY TurnsFacts DEF LogInv
<1>2. turns' = rest \/ turns' = Append(rest, again)
  BY DEF Settles
<1>3. again \in TurnType /\ again.by # Close
  <2>1. Head(turns) \in TurnType
    <3>1. turns \in Seq(TurnType) /\ 1 \in 1 .. Len(turns)
      BY <1>1, TurnsFacts DEF LogInv
    <3> QED BY <1>1, <3>1, ElementOfSeq
  <2> QED BY <2>1 DEF TurnType, Turn, Ends
<1> HIDE DEF rest, again
<1>4. ASSUME mode # "closing", NEW i \in DOMAIN rest PROVE rest[i].by # Close
  <2>1. rest[i] = turns[i + 1] /\ i + 1 \in DOMAIN turns
    BY <1>1, <1>4
  <2> QED BY <1>4, <2>1 DEF OwedInv
<1>5. ASSUME mode # "closing", NEW i \in DOMAIN Append(rest, again) PROVE Append(rest, again)[i].by # Close
  <2>1. PICK more : more = Append(rest, again)
    OBVIOUS
  <2>2. /\ more \in Seq(TurnType) /\ Len(more) = Len(rest) + 1 /\ more[Len(rest) + 1] = again
        /\ \A j \in 1 .. Len(rest) : more[j] = rest[j]
    <3>1. rest \in Seq(TurnType) /\ again \in TurnType
      BY <1>1, <1>3
    <3> QED BY <2>1, <3>1, AppendProperties
  <2>3. i \in 1 .. Len(rest) + 1 /\ Len(rest) \in Nat
    BY <1>1, <1>5, <2>1, <2>2, LenProperties
  <2>4. i \in 1 .. Len(rest) \/ i = Len(rest) + 1
    BY <2>3
  <2> QED BY <1>1, <1>3, <1>4, <1>5, <2>1, <2>2, <2>4
<1>6. mode # "closing" => \A i \in DOMAIN turns' : turns'[i].by # Close
  BY <1>2, <1>4, <1>5
<1> QED BY <1>6 DEF Settles

LEMMA StepKeepsOwed == LogInv /\ OwedInv /\ [Next]_vars => OwedInv'
<1> SUFFICES ASSUME LogInv, OwedInv, [Next]_vars PROVE OwedInv'
  OBVIOUS
<1>1. /\ LogTypeOK /\ batch \in Seq(Record) /\ queue \in Seq(Record) /\ log \in Seq(Line) /\ Len(batch) \in 0 .. Len(batch)
      /\ (turns # <<>> => Head(turns) = turns[1] /\ 1 \in DOMAIN turns)
  BY WaitsFacts, TurnsFacts DEF LogInv
<1>2. turns # <<>> /\ Head(turns).by = Close => mode = "closing"
  BY <1>1 DEF OwedInv
<1>3. EventsOf(batch') = EventsOf(batch)' /\ EventsOf(<<>>) = {}
  BY DEF EventsOf
(* Nobody asks and nobody settles. *)
<1>4. ASSUME UNCHANGED <<mode, turns, stage, batch, log, owed>>, EventsOf(queue) \subseteq EventsOf(queue')
      PROVE  OwedInv'
  <2>1. Written' = Written /\ Waiting \subseteq Waiting' /\ EventsOf(batch)' = EventsOf(batch)
    BY <1>4 DEF Written, Waiting, EventsOf, LinesFrom
  <2> QED BY <1>4, <2>1 DEF OwedInv
(* Somebody asks for a flush. *)
<1>5. ASSUME NEW t \in TurnType, turns' = Append(turns, t), UNCHANGED <<stage, batch, log>>,
             EventsOf(queue) \subseteq EventsOf(queue'),
             \/ t.by # Close /\ UNCHANGED <<mode, owed>>
             \/ mode = "up" /\ mode' = "closing" /\ owed' = EventsOf(queue) \cup EventsOf(batch)
      PROVE  OwedInv'
  <2>1. Written' = Written /\ Waiting \subseteq Waiting' /\ EventsOf(batch)' = EventsOf(batch)
        /\ (EventsOf(queue) \cup EventsOf(batch)) \subseteq Waiting'
    BY <1>5 DEF Written, Waiting, EventsOf, LinesFrom
  <2>2. /\ mode' # "closing" => \A i \in DOMAIN turns' : turns'[i].by # Close
        /\ Head(turns') = IF turns = <<>> THEN t ELSE Head(turns)
    BY <1>1, <1>5, OwedAsked
  <2>3. mode' = "closing" => owed' \subseteq Written' \cup Waiting'
    BY <1>5, <2>1 DEF OwedInv
  <2>4. ASSUME stage # "idle", Head(turns').by = Close PROVE owed' = owed /\ turns # <<>> /\ Head(turns).by = Close
    <3>1. turns # <<>>
      BY <2>4 DEF LogInv, StageInv
    <3>2. mode = "closing"
      BY <1>2, <2>2, <2>4, <3>1
    <3> QED BY <1>5, <2>2, <2>4, <3>1, <3>2
  <2>5. ASSUME turns' # <<>>, Head(turns').by = Close
        PROVE  /\ stage' = "write" => owed' \subseteq Written' \cup EventsOf(batch)'
               /\ stage' \in {"publish", "rotate"} => owed' \subseteq Written'
    BY <1>5, <2>1, <2>4, <2>5 DEF OwedInv
  <2> QED BY <2>2, <2>3, <2>5 DEF OwedInv
(* A flush settles, and its caller goes on. *)
<1>6. ASSUME turns # <<>>, NEW ok \in BOOLEAN, Settles(ok), ~Ends, UNCHANGED <<mode, owed>>,
             Written \cup Waiting \subseteq Written' \cup Waiting'
      PROVE  OwedInv'
  <2>1. /\ stage' = "idle"
        /\ mode # "closing" => \A i \in DOMAIN turns' : turns'[i].by # Close
    BY <1>6, OwedSettled
  <2>2. mode' = "closing" => owed' \subseteq Written' \cup Waiting'
    BY <1>6 DEF OwedInv
  <2> QED BY <1>6, <2>1, <2>2 DEF OwedInv
<1>7. ASSUME Forgets PROVE OwedInv'
  <2>1. mode' = "down" /\ turns' = <<>> /\ DOMAIN <<>> = {}
    BY <1>7, ForgottenCalls
  <2> QED BY <2>1 DEF OwedInv
<1>8. ASSUME NEW e \in Event, FirstRecord(e) PROVE OwedInv'
  BY <1>4, <1>8 DEF FirstRecord, files, EventsOf
<1>9. ASSUME NEW e \in Event, Resumes(e) \/ Records(e) PROVE OwedInv'
  <2>1. PICK seq \in Nat, prev \in Event \cup {Genesis} : Stamps(e, seq, prev)
    <3>1. chain.seq \in Nat /\ chain.prev \in Event \cup {Genesis}
      BY <1>1 DEF LogTypeOK
    <3>2. LastReadable.seq \in Nat /\ LastReadable.event \in Event \cup {Genesis}
      BY <1>1, ResumedFrom
    <3> QED BY <1>9, <3>1, <3>2 DEF Resumes, Records
  <2>2. UNCHANGED <<mode, stage, batch, log, owed>>
    BY <1>9 DEF Resumes, Records, files
  <2>3. EventsOf(queue) \subseteq EventsOf(queue')
    <3> DEFINE rec == [event |-> e, seq |-> seq + 1, prev |-> prev]
    <3>1. rec \in Record /\ queue' = Append(queue, rec)
      BY <2>1 DEF Stamps, Record
    <3> HIDE DEF rec
    <3> QED BY <1>1, <3>1, QueuedInOrder
  <2>4. Turn(e, e \in Critical) \in TurnType /\ Turn(e, e \in Critical).by # Close
    BY EventAssumption DEF Turn, TurnType
  <2>5. turns' = turns \/ turns' = Append(turns, Turn(e, e \in Critical))
    BY <2>1 DEF Stamps
  <2>6. CASE turns' = turns
    BY <1>4, <2>2, <2>3, <2>6
  <2>7. CASE turns' = Append(turns, Turn(e, e \in Critical))
    BY <1>5, <2>2, <2>3, <2>4, <2>7
  <2> QED BY <2>5, <2>6, <2>7
<1>10. CASE TimerFlushes
  <2>1. Turn(Timer, FALSE) \in TurnType /\ Turn(Timer, FALSE).by # Close
    BY EventAssumption DEF Turn, TurnType
  <2>2. turns' = Append(turns, Turn(Timer, FALSE)) /\ UNCHANGED <<mode, stage, batch, log, owed, queue>>
    BY <1>10 DEF TimerFlushes, files
  <2> QED BY <1>5, <2>1, <2>2
<1>11. CASE Stops
  <2>1. Turn(Close, TRUE) \in TurnType
    BY DEF Turn, TurnType
  <2>2. /\ turns' = Append(turns, Turn(Close, TRUE)) /\ UNCHANGED <<stage, batch, log, queue>>
        /\ mode = "up" /\ mode' = "closing" /\ owed' = EventsOf(queue) \cup EventsOf(batch)
    BY <1>11 DEF Stops, files
  <2> QED BY <1>5, <2>1, <2>2
<1>12. CASE NothingToFlush \/ FlushEnds
  <2>1. turns # <<>> /\ log' = log
    BY <1>12 DEF LogInv, StageInv, NothingToFlush, FlushEnds, Rotates, files
  <2>2. CASE ~Ends /\ Settles(TRUE) /\ UNCHANGED <<mode, chain, queue, batch, owed>>
    <3>1. Written' = Written /\ Waiting' = Waiting
      BY <2>1, <2>2 DEF Written, LinesFrom, Waiting, EventsOf
    <3> QED BY <1>6, <2>1, <2>2, <3>1
  <2> QED BY <1>7, <1>12, <2>2 DEF NothingToFlush, FlushEnds
<1>13. CASE TakesQueue
  <2>1. /\ UNCHANGED <<mode, turns, log, owed>> /\ batch = <<>> /\ batch' = queue /\ queue' = <<>>
        /\ stage' = "write" /\ turns # <<>>
    BY <1>13 DEF TakesQueue, files, LogInv, StageInv
  <2>2. Written' = Written /\ Waiting' = Waiting /\ EventsOf(batch)' = Waiting
    BY <1>3, <2>1 DEF Written, LinesFrom, Waiting, EventsOf
  <2>3. Head(turns).by = Close => owed \subseteq Written \cup Waiting
    BY <1>2, <2>1 DEF OwedInv
  <2> QED BY <2>1, <2>2, <2>3 DEF OwedInv
<1>14. CASE Writes
  <2>1. /\ UNCHANGED <<mode, turns, queue, owed>> /\ batch' = <<>> /\ stage = "write" /\ stage' = "publish" /\ turns # <<>>
    BY <1>14 DEF Writes, LogInv, StageInv
  <2>2. torn \in BOOLEAN
    BY <1>1 DEF LogTypeOK
  <2>3. log' \in Seq(Line) /\ AsTrail(log') = AsTrail(log) \o InOrder(batch)
    BY <1>1, <1>14, <2>2, LandedInOrder DEF Writes, Landing
  <2>4. SubSeq(batch, 1, Len(batch)) = batch
    BY <1>1, SubSeqFull
  <2>5. Written' = EventsOf(batch) \cup Written
    BY <1>1, <2>3, <2>4, PutDown
  <2>6. Waiting' = EventsOf(queue)
    BY <2>1 DEF Waiting, EventsOf
  <2>7. mode' = "closing" => owed' \subseteq Written' \cup Waiting'
    BY <2>1, <2>5, <2>6 DEF OwedInv, Waiting
  <2> QED BY <2>1, <2>5, <2>7 DEF OwedInv
<1>15. ASSUME NEW p \in Part, WriteFails(p) PROVE OwedInv'
  <2>1. CASE Forgets
    BY <1>7, <2>1
  <2>2. CASE ~Ends /\ Settles(FALSE) /\ queue' = Requeued /\ batch' = <<>> /\ UNCHANGED <<mode, chain, owed>>
    <3>1. turns # <<>>
      BY <1>15 DEF LogInv, StageInv, WriteFails
    <3>2. /\ log' \in Seq(Line) /\ p.n \in 0 .. Len(batch)
          /\ AsTrail(log') = AsTrail(log) \o InOrder(SubSeq(batch, 1, p.n))
      BY <1>1, <1>15, LandedType DEF WriteFails
    <3>3. Written \subseteq Written'
      BY <1>1, <3>2, PutDown
    <3>4. Waiting' = Waiting
      <4>1. EventsOf(batch \o queue) = Waiting
        BY <1>1, EventsInOrder DEF Waiting
      <4>2. batch' = <<>> /\ queue' = batch \o queue
        BY <2>2 DEF Requeued
      <4>3. Waiting' = EventsOf(batch \o queue)
        BY <4>2 DEF Waiting, EventsOf
      <4> QED BY <4>1, <4>3
    <3> QED BY <1>6, <2>2, <3>1, <3>3, <3>4
  <2> QED BY <1>15, <2>1, <2>2 DEF WriteFails
<1>16. CASE Publishes
  <2>1. UNCHANGED <<mode, turns, queue, batch, log, owed>> /\ stage = "publish" /\ stage' = "rotate"
    BY <1>16 DEF Publishes, files
  <2>2. Written' = Written /\ Waiting' = Waiting /\ EventsOf(batch)' = EventsOf(batch)
    BY <2>1 DEF Written, Waiting, EventsOf, LinesFrom
  <2> QED BY <2>1, <2>2 DEF OwedInv
<1>17. CASE StartsUp
  <2>1. turns = <<>> /\ turns' = turns /\ mode' = "up" /\ DOMAIN <<>> = {}
    BY <1>17 DEF LogInv, DownInv, StartsUp, memory
  <2> QED BY <2>1 DEF OwedInv
<1>18. ASSUME NEW p \in Part, Killed(p) PROVE OwedInv'
  BY <1>7, <1>18 DEF Killed
<1>19. CASE UNCHANGED vars
  BY <1>4, <1>19 DEF vars, memory, files
<1> QED BY <1>8, <1>9, <1>10, <1>11, <1>12, <1>13, <1>14, <1>15, <1>16, <1>17, <1>18, <1>19 DEF Next, Flushing

LEMMA StopStep ==
  ASSUME LogInv, OwedInv, [Next]_vars, mode = "closing", mode' = "down", faults' = faults
  PROVE  owed \subseteq Written'
<1>1. faults \in Nat /\ (turns # <<>> => Head(turns) = turns[1])
  BY TurnsFacts DEF LogInv, LogTypeOK
<1>2. NothingToFlush \/ FlushEnds
  <2>1. ~ \E e \in Event : FirstRecord(e) \/ Resumes(e) \/ Records(e)
    BY DEF FirstRecord, Resumes, Records
  <2>2. ~(TimerFlushes \/ TakesQueue \/ Writes \/ Publishes \/ StartsUp \/ Stops)
    BY DEF TimerFlushes, TakesQueue, Writes, Publishes, StartsUp, Stops
  <2>3. ~ \E p \in Part : WriteFails(p) \/ Killed(p)
    BY <1>1 DEF WriteFails, Killed
  <2>4. vars' # vars
    BY DEF vars
  <2> QED BY <2>1, <2>2, <2>3, <2>4 DEF Next, Flushing
<1>3. log' = log /\ turns # <<>>
  BY <1>2 DEF LogInv, StageInv, NothingToFlush, FlushEnds, Rotates, files
<1>4. Head(turns).by = Close
  BY <1>2 DEF NothingToFlush, FlushEnds, Ends
<1>5. Written' = Written
  BY <1>3 DEF Written, LinesFrom
<1>6. CASE NothingToFlush
  <2>1. Waiting = {}
    BY <1>6 DEF NothingToFlush, LogInv, StageInv, Waiting, EventsOf
  <2> QED BY <1>5, <2>1 DEF OwedInv
<1>7. CASE FlushEnds
  <2>1. stage = "rotate"
    BY <1>7 DEF FlushEnds
  <2> QED BY <1>3, <1>4, <1>5, <2>1 DEF OwedInv
<1> QED BY <1>2, <1>6, <1>7

(* A stop whose flush does not fail has everything in the files that       *)
(* waited when close was called, whatever flushes were under way before    *)
(* and whatever was recorded meanwhile.                                    *)
THEOREM LogStopLosesNothing == Spec => StopLosesNothing
<1>1. Init => LogInv /\ OwedInv
  <2>1. Init => turns = <<>> /\ mode = "down"
    BY DEF Init
  <2>2. DOMAIN <<>> = {}
    OBVIOUS
  <2>3. Init => OwedInv
    BY <2>1, <2>2 DEF OwedInv
  <2> QED BY <2>3, InitLog
<1>2. LogInv /\ OwedInv /\ [Next]_vars => LogInv' /\ OwedInv'
  BY LogStep, StepKeepsOwed
<1>3. LogInv /\ OwedInv /\ [Next]_vars => [mode = "closing" /\ mode' = "down" /\ faults' = faults => owed \subseteq Written']_vars
  BY StopStep
<1> QED BY <1>1, <1>2, <1>3, PTL DEF Spec, StopLosesNothing
====
