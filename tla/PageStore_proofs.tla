--------------------------- MODULE PageStore_proofs ---------------------------
(***************************************************************************)
(* The calls on a page run one after the other, what was saved is in its   *)
(* history and served by its title, and what was deleted can be restored:  *)
(* for any number of requests, pages, titles and faults.                   *)
(***************************************************************************)
EXTENDS PageStore, SequenceTheorems, TLAPS

Busy == {"write", "landing", "version", "manifest", "moving", "purging", "flush"}

InTurn(c) == serial[call[c].page] # <<>> /\ Head(serial[call[c].page]) = c

CallsTyped == call \in [Call -> CallRecord]

(* Where in the code each field of a call has its value. *)
CallOK(k) == /\ k.pc # "new" => k.page \in Page /\ k.target \in Page
             /\ k.pc # "done" => k.answer = "none"
             /\ k.pc \in {"check", "write", "landing", "version", "manifest"} => k.kind = "save"
             /\ k.kind \in {"restore", "purge"} => k.target = k.page
             /\ k.pc = "purging" => k.kind = "purge"

CallsInv == \A c \in Call : CallOK(call[c])

(* A call at work is the first of its page's queue; one that waits is in it. *)
QueueInv == /\ serial \in [Page -> Seq(Call)]
            /\ \A c \in Call : call[c].pc \in Busy => InTurn(c)
            /\ \A c \in Call : call[c].pc = "queued" =>
                 \E i \in DOMAIN serial[call[c].page] : serial[call[c].page][i] = c

(* Each queued write of the index is of a call that waits for it, and a    *)
(* call waits for one.                                                     *)
WritesInv == /\ writes \in Seq([by : Call, ix : Index])
             /\ \A i \in DOMAIN writes : call[writes[i].by].pc = "flush"
             /\ \A i, j \in DOMAIN writes : writes[i].by = writes[j].by => i = j

(* A process that is down has nothing in hand. *)
DownInv == mode = "down" => /\ writes = <<>>
                            /\ \A c \in Call : call[c].pc \in {"new", "done"}

(* The part of the types that is of the disk, the index and the lookups. *)
StoresTyped ==
  /\ mode \in {"down", "up"}
  /\ file \in [Page -> Doc] /\ trash \in [Page -> Doc]
  /\ manifest \in [Page -> Seq(Text)]
  /\ snapshot \in [Page -> Seq([base : Text, text : Text])]
  /\ stored \in Index /\ index \in Index
  /\ byTitle \in [Title -> Page \cup {NoPage}] /\ byUuid \in [Page -> Title \cup {NoTitle}]
  /\ faults \in Nat
  /\ spoilt \subseteq Page /\ gone \subseteq Call /\ ousted \subseteq Page

PagesInv == StoresTyped /\ CallsTyped /\ CallsInv /\ QueueInv /\ WritesInv /\ DownInv

-----------------------------------------------------------------------------
(* Sequences *)

LEMMA Shortened ==
  ASSUME NEW S, NEW s \in Seq(S), s # <<>>
  PROVE  /\ Tail(s) \in Seq(S) /\ Len(s) \in Nat \ {0} /\ Len(Tail(s)) = Len(s) - 1
         /\ DOMAIN s = 1 .. Len(s) /\ DOMAIN Tail(s) = 1 .. Len(s) - 1
         /\ Head(s) = s[1] /\ \A i \in 1 .. Len(s) - 1 : Tail(s)[i] = s[i + 1]
BY HeadTailProperties, LenProperties, EmptySeq

LEMMA Lengthened ==
  ASSUME NEW S, NEW s \in Seq(S), NEW e \in S
  PROVE  /\ Append(s, e) \in Seq(S) /\ Len(s) \in Nat /\ Len(Append(s, e)) = Len(s) + 1
         /\ DOMAIN s = 1 .. Len(s) /\ DOMAIN Append(s, e) = 1 .. Len(s) + 1
         /\ Append(s, e)[Len(s) + 1] = e /\ \A i \in 1 .. Len(s) : Append(s, e)[i] = s[i]
         /\ Append(s, e) # <<>> /\ s # <<>> => Head(Append(s, e)) = Head(s)
BY AppendProperties, LenProperties, EmptySeq

LEMMA FirstRemoved ==
  ASSUME NEW S, NEW s \in Seq(S), s # <<>>
  PROVE  RemoveAt(s, 1) = Tail(s)
<1>1. RemoveAt(s, 1) = SubSeq(s, 1, 0) \o SubSeq(s, 2, Len(s))
  BY DEF RemoveAt
<1>2. Len(s) \in Nat \ {0} /\ Tail(s) = SubSeq(s, 2, Len(s))
  BY HeadTailProperties, LenProperties, EmptySeq
<1>3. SubSeq(s, 1, 0) = <<>>
  OBVIOUS
<1>4. SubSeq(s, 2, Len(s)) \in Seq(S)
  BY <1>2, Shortened
<1> QED BY <1>1, <1>2, <1>3, <1>4, ConcatEmptySeq

-----------------------------------------------------------------------------
(* The queues of the pages *)

(* A call moves on, or ends before it was in a queue. *)
LEMMA QueueStays ==
  ASSUME CallsTyped, QueueInv, NEW c \in Call, call' = [call EXCEPT ![c] = call'[c]],
         serial' = serial, call'[c].pc # "queued",
         call'[c].pc \in Busy => call'[c].page = call[c].page /\ InTurn(c)
  PROVE  QueueInv'
<1>1. \A d \in Call \ {c} : call'[d] = call[d]
  BY DEF CallsTyped
<1>2. ASSUME NEW d \in Call, call'[d].pc \in Busy PROVE InTurn(d)'
  BY <1>1, <1>2 DEF QueueInv, InTurn
<1>3. ASSUME NEW d \in Call, call'[d].pc = "queued"
      PROVE  \E i \in DOMAIN serial'[call'[d].page] : serial'[call'[d].page][i] = d
  BY <1>1, <1>3 DEF QueueInv
<1> QED BY <1>2, <1>3 DEF QueueInv

(* A call joins the queue of its page; it goes on when nobody is there. *)
LEMMA QueueJoins ==
  ASSUME CallsTyped, CallsInv, QueueInv, NEW c \in Call, NEW p \in Page, call' = [call EXCEPT ![c] = call'[c]],
         call[c].pc \notin Busy, call'[c].page = p, Queues(c, p),
         call'[c].pc = "queued" \/ serial[p] = <<>>
  PROVE  QueueInv'
<1>1. \A d \in Call \ {c} : call'[d] = call[d]
  BY DEF CallsTyped
<1>2. serial[p] \in Seq(Call) /\ serial' = [serial EXCEPT ![p] = Append(serial[p], c)]
  BY DEF QueueInv, Queues
<1> DEFINE s == serial[p]
           t == Append(s, c)
<1>3. /\ t \in Seq(Call) /\ Len(s) \in Nat
      /\ DOMAIN s = 1 .. Len(s) /\ DOMAIN t = 1 .. Len(s) + 1
      /\ t[Len(s) + 1] = c /\ \A i \in 1 .. Len(s) : t[i] = s[i]
      /\ t # <<>> /\ (s # <<>> => Head(t) = Head(s))
  BY <1>2, Lengthened
<1>4. serial'[p] = t /\ \A q \in Page \ {p} : serial'[q] = serial[q]
  BY <1>2 DEF QueueInv
<1>5. serial' \in [Page -> Seq(Call)]
  BY <1>2, <1>3 DEF QueueInv
<1>6. s = <<>> => Head(t) = c
  <2> SUFFICES ASSUME s = <<>> PROVE Head(t) = c
    OBVIOUS
  <2>1. Len(s) = 0
    BY EmptySeq
  <2>2. Head(t) = t[1]
    BY <1>3, HeadTailProperties
  <2> HIDE DEF t
  <2> QED BY <1>3, <2>1, <2>2
<1> HIDE DEF s, t
<1>7. ASSUME NEW d \in Call, call'[d].pc \in Busy PROVE InTurn(d)'
  <2>1. CASE d = c
    <3>1. call'[c].pc # "queued"
      BY <1>7, <2>1 DEF Busy
    <3> QED BY <1>3, <1>4, <1>6, <2>1, <3>1 DEF InTurn, s
  <2>2. CASE d # c
    <3>1. call'[d] = call[d] /\ InTurn(d) /\ call[d].page \in Page
      BY <1>1, <1>7, <2>2 DEF QueueInv, CallsInv, CallOK, Busy
    <3>2. CASE call[d].page = p
      BY <1>3, <1>4, <3>1, <3>2 DEF InTurn, s
    <3>3. CASE call[d].page # p
      BY <1>4, <3>1, <3>3 DEF InTurn
    <3> QED BY <3>2, <3>3
  <2> QED BY <2>1, <2>2
<1>8. ASSUME NEW d \in Call, call'[d].pc = "queued"
      PROVE  \E i \in DOMAIN serial'[call'[d].page] : serial'[call'[d].page][i] = d
  <2>1. CASE d = c
    <3>1. Len(s) + 1 \in DOMAIN t
      BY <1>3
    <3> QED BY <1>3, <1>4, <2>1, <3>1
  <2>2. CASE d # c
    <3>1. call'[d] = call[d] /\ call[d].page \in Page
      BY <1>1, <1>8, <2>2 DEF CallsInv, CallOK
    <3>2. PICK i \in DOMAIN serial[call[d].page] : serial[call[d].page][i] = d
      BY <1>8, <3>1 DEF QueueInv
    <3>3. CASE call[d].page = p
      <4>1. i \in 1 .. Len(s) /\ s[i] = d
        BY <1>3, <3>2, <3>3 DEF s
      <4>2. i \in DOMAIN t /\ t[i] = d
        BY <1>3, <4>1
      <4> QED BY <1>4, <3>1, <3>3, <4>2
    <3>4. CASE call[d].page # p
      BY <1>4, <3>1, <3>2, <3>4
    <3> QED BY <3>3, <3>4
  <2> QED BY <2>1, <2>2
<1> QED BY <1>5, <1>7, <1>8 DEF QueueInv

(* The first of a queue ends and leaves it. *)
LEMMA QueueLeaves ==
  ASSUME CallsTyped, CallsInv, QueueInv, NEW c \in Call, call' = [call EXCEPT ![c] = call'[c]],
         call'[c].pc = "done", InTurn(c), call[c].page \in Page,
         serial' = [serial EXCEPT ![call[c].page] = Tail(@)]
  PROVE  QueueInv'
<1> DEFINE p == call[c].page
           s == serial[p]
           t == Tail(s)
<1>1. \A d \in Call \ {c} : call'[d] = call[d]
  BY DEF CallsTyped
<1>2. s \in Seq(Call) /\ s # <<>>
  BY DEF QueueInv, InTurn
<1>3. /\ t \in Seq(Call) /\ Len(s) \in Nat \ {0}
      /\ DOMAIN s = 1 .. Len(s) /\ DOMAIN t = 1 .. Len(s) - 1
      /\ Head(s) = s[1] /\ \A i \in 1 .. Len(s) - 1 : t[i] = s[i + 1]
  BY <1>2, Shortened
<1>4. serial'[p] = t /\ \A q \in Page \ {p} : serial'[q] = serial[q]
  BY DEF QueueInv
<1>5. serial' \in [Page -> Seq(Call)]
  BY <1>3 DEF QueueInv
<1>6. s[1] = c
  BY <1>3 DEF InTurn
<1> HIDE DEF s, t
<1>7. ASSUME NEW d \in Call, call'[d].pc \in Busy PROVE InTurn(d)'
  <2>1. d # c /\ call'[d] = call[d] /\ call[d].page \in Page /\ InTurn(d)
    BY <1>1, <1>7 DEF Busy, QueueInv, CallsInv, CallOK
  <2>2. call[d].page # p
    BY <1>3, <1>6, <2>1 DEF InTurn, s
  <2> QED BY <1>4, <2>1, <2>2 DEF InTurn
<1>8. ASSUME NEW d \in Call, call'[d].pc = "queued"
      PROVE  \E i \in DOMAIN serial'[call'[d].page] : serial'[call'[d].page][i] = d
  <2>1. d # c /\ call'[d] = call[d] /\ call[d].page \in Page
    BY <1>1, <1>8 DEF CallsInv, CallOK
  <2>2. PICK i \in DOMAIN serial[call[d].page] : serial[call[d].page][i] = d
    BY <1>8, <2>1 DEF QueueInv
  <2>3. CASE call[d].page = p
    <3>1. i \in 1 .. Len(s) /\ s[i] = d
      BY <1>3, <2>2, <2>3 DEF s
    <3>2. i # 1
      BY <1>6, <2>1, <3>1
    <3>3. i - 1 \in DOMAIN t /\ t[i - 1] = d
      BY <1>3, <3>1, <3>2
    <3> QED BY <1>4, <2>1, <2>3, <3>3
  <2>4. CASE call[d].page # p
    BY <1>4, <2>1, <2>2, <2>4
  <2> QED BY <2>3, <2>4
<1> QED BY <1>5, <1>7, <1>8 DEF QueueInv

-----------------------------------------------------------------------------
(* The calls and the writes of the index *)

LEMMA CallFacts ==
  ASSUME PagesInv, NEW c \in Call
  PROVE  call[c] \in CallRecord /\ CallOK(call[c]) /\ (call[c].pc \in Busy => InTurn(c))
BY DEF PagesInv, CallsTyped, CallsInv, QueueInv

(* A call that goes on or ends is still one. *)
LEMMA CallGoes ==
  ASSUME NEW k \in CallRecord, NEW pc \in {"queued", "write", "landing", "version", "manifest",
                                          "moving", "purging", "flush", "done"}
  PROVE  /\ [k EXCEPT !.pc = pc] \in CallRecord
         /\ [k EXCEPT !.pc = pc].pc = pc /\ [k EXCEPT !.pc = pc].answer = k.answer
         /\ [k EXCEPT !.pc = pc].kind = k.kind
         /\ [k EXCEPT !.pc = pc].page = k.page /\ [k EXCEPT !.pc = pc].target = k.target
BY DEF CallRecord

LEMMA CallEnds ==
  ASSUME NEW k \in CallRecord, CallOK(k), k.pc # "new",
         NEW answer \in {"ok", "refused", "failed", "cut"}
  PROVE  /\ [k EXCEPT !.pc = "done", !.answer = answer] \in CallRecord
         /\ CallOK([k EXCEPT !.pc = "done", !.answer = answer])
         /\ [k EXCEPT !.pc = "done", !.answer = answer].pc = "done"
<1>1. [k EXCEPT !.pc = "done", !.answer = answer] \in CallRecord
  BY DEF CallRecord
<1>2. CallOK([k EXCEPT !.pc = "done", !.answer = answer])
  BY DEF CallRecord, CallOK
<1>3. [k EXCEPT !.pc = "done", !.answer = answer].pc = "done"
  BY DEF CallRecord
<1> QED BY <1>1, <1>2, <1>3

LEMMA CallMoves ==
  ASSUME CallsTyped, CallsInv, NEW c \in Call, NEW r \in CallRecord, CallOK(r), call' = [call EXCEPT ![c] = r]
  PROVE  /\ CallsTyped' /\ CallsInv' /\ call'[c] = r /\ call' = [call EXCEPT ![c] = call'[c]]
         /\ \A d \in Call \ {c} : call'[d] = call[d]
BY DEF CallsTyped, CallsInv

LEMMA Writers ==
  ASSUME WritesInv, NEW i \in DOMAIN writes
  PROVE  writes[i].by \in Call /\ writes[i].ix \in Index
<1>1. writes \in Seq([by : Call, ix : Index])
  BY DEF WritesInv
<1>2. i \in 1 .. Len(writes)
  BY <1>1, LenProperties
<1>3. writes[i] \in [by : Call, ix : Index]
  BY <1>1, <1>2, ElementOfSeq
<1> QED BY <1>3

LEMMA WritesStay ==
  ASSUME CallsTyped, WritesInv, NEW c \in Call, \A d \in Call \ {c} : call'[d] = call[d],
         call[c].pc # "flush", writes' = writes
  PROVE  WritesInv'
<1> QED BY Writers DEF WritesInv

LEMMA WritesJoin ==
  ASSUME CallsTyped, WritesInv, NEW c \in Call, \A d \in Call \ {c} : call'[d] = call[d],
         call[c].pc # "flush", call'[c].pc = "flush", NEW x \in Index,
         writes' = Append(writes, [by |-> c, ix |-> x])
  PROVE  WritesInv'
<1> DEFINE w == [by |-> c, ix |-> x]
<1>1. w \in [by : Call, ix : Index] /\ w.by = c
  OBVIOUS
<1> HIDE DEF w
<1>2. writes \in Seq([by : Call, ix : Index])
  BY DEF WritesInv
<1>3. /\ writes' \in Seq([by : Call, ix : Index]) /\ Len(writes) \in Nat
      /\ DOMAIN writes = 1 .. Len(writes) /\ DOMAIN writes' = 1 .. Len(writes) + 1
      /\ writes'[Len(writes) + 1] = w /\ \A i \in 1 .. Len(writes) : writes'[i] = writes[i]
  <2>1. writes' = Append(writes, w)
    BY DEF w
  <2> QED BY <1>1, <1>2, <2>1, Lengthened
<1>4. \A i \in 1 .. Len(writes) : writes[i].by \in Call \ {c} /\ call[writes[i].by].pc = "flush"
  BY <1>3, Writers DEF WritesInv
<1>5. \A i \in 1 .. Len(writes) + 1 : i = Len(writes) + 1 \/ i \in 1 .. Len(writes)
  BY <1>3
<1> QED BY <1>1, <1>3, <1>4, <1>5 DEF WritesInv

LEMMA WritesLeave ==
  ASSUME CallsTyped, WritesInv, writes # <<>>, writes' = Tail(writes),
         \A d \in Call \ {writes[1].by} : call'[d] = call[d]
  PROVE  WritesInv'
<1>1. /\ Tail(writes) \in Seq([by : Call, ix : Index]) /\ Len(writes) \in Nat \ {0}
      /\ DOMAIN writes = 1 .. Len(writes) /\ DOMAIN Tail(writes) = 1 .. Len(writes) - 1
      /\ \A i \in 1 .. Len(writes) - 1 : Tail(writes)[i] = writes[i + 1]
  BY Shortened DEF WritesInv
<1>2. \A i \in 1 .. Len(writes) : writes[i].by \in Call
  BY <1>1, Writers
<1>3. ASSUME NEW i \in 1 .. Len(writes) - 1
      PROVE  writes'[i] = writes[i + 1] /\ i + 1 \in 1 .. Len(writes) /\ writes[i + 1].by \in Call \ {writes[1].by}
  <2>1. i + 1 \in 1 .. Len(writes) /\ 1 \in 1 .. Len(writes) /\ i + 1 # 1
    BY <1>1
  <2> QED BY <1>1, <1>2, <2>1 DEF WritesInv
<1>4. ASSUME NEW i \in DOMAIN writes' PROVE call'[writes'[i].by].pc = "flush"
  BY <1>1, <1>3, <1>4 DEF WritesInv
<1>5. ASSUME NEW i \in DOMAIN writes', NEW j \in DOMAIN writes', writes'[i].by = writes'[j].by PROVE i = j
  <2>1. i \in 1 .. Len(writes) - 1 /\ j \in 1 .. Len(writes) - 1
    BY <1>1
  <2>2. i + 1 = j + 1
    BY <1>1, <1>3, <1>5, <2>1 DEF WritesInv
  <2> QED BY <1>1, <2>1, <2>2
<1> QED BY <1>1, <1>4, <1>5 DEF WritesInv

(* A call that has no write of the index in the queue takes a step that    *)
(* puts none there.                                                        *)
LEMMA PlainStep ==
  ASSUME PagesInv, NEW c \in Call, NEW r \in CallRecord, CallOK(r), call' = [call EXCEPT ![c] = r],
         mode = "up", mode' = mode, call[c].pc # "flush", writes' = writes, StoresTyped', QueueInv'
  PROVE  PagesInv'
BY CallMoves, WritesStay DEF PagesInv, DownInv

(* A call puts a write of the index in the queue and waits for it. *)
LEMMA QueuedStep ==
  ASSUME PagesInv, NEW c \in Call, InTurn(c), mode = "up", mode' = mode, call[c].pc \in Busy \ {"flush"},
         NEW r \in CallRecord, CallOK(r), r.pc = "flush", r.page = call[c].page,
         NEW x \in Index, Queued(c, x), call' = [call EXCEPT ![c] = r], serial' = serial, StoresTyped'
  PROVE  PagesInv'
<1>1. CallsTyped' /\ CallsInv' /\ call'[c] = r /\ call' = [call EXCEPT ![c] = call'[c]]
      /\ \A d \in Call \ {c} : call'[d] = call[d]
  BY CallMoves DEF PagesInv
<1>2. QueueInv'
  BY <1>1, QueueStays DEF PagesInv, Busy
<1>3. WritesInv'
  BY <1>1, WritesJoin DEF PagesInv, Queued
<1> QED BY <1>1, <1>2, <1>3 DEF PagesInv, DownInv

LEMMA IndexStep ==
  ASSUME PagesInv, NEW c \in Call, InTurn(c), mode = "up", mode' = mode, call[c].pc \in Busy \ {"flush"},
         NEW x \in Index, Indexes(c, x), serial' = serial, StoresTyped'
  PROVE  PagesInv'
<1> DEFINE r == [call[c] EXCEPT !.pc = "flush"]
<1>1. r \in CallRecord /\ CallOK(r) /\ r.pc = "flush" /\ r.page = call[c].page
  <2>1. call[c] \in CallRecord /\ CallOK(call[c]) /\ call[c].pc # "new"
    BY CallFacts DEF Busy
  <2>2. /\ r \in CallRecord /\ r.pc = "flush" /\ r.answer = call[c].answer /\ r.kind = call[c].kind
        /\ r.page = call[c].page /\ r.target = call[c].target
    BY <2>1, CallGoes
  <2> HIDE DEF r
  <2>3. CallOK(r)
    BY <2>1, <2>2 DEF CallOK, Busy
  <2> QED BY <2>2, <2>3
<1>2. call' = [call EXCEPT ![c] = r] /\ Queued(c, x)
  BY DEF Indexes, Goes
<1> HIDE DEF r
<1> QED BY <1>1, <1>2, QueuedStep

(* A call at work ends without having put one there. *)
LEMMA EndStep ==
  ASSUME PagesInv, NEW c \in Call, InTurn(c), call[c].pc \notin {"new", "flush"}, mode = "up", mode' = mode,
         NEW answer \in {"ok", "refused", "failed", "cut"}, Ends(c, answer), writes' = writes, StoresTyped'
  PROVE  PagesInv'
<1> DEFINE r == [call[c] EXCEPT !.pc = "done", !.answer = answer]
<1>1. r \in CallRecord /\ CallOK(r) /\ r.pc = "done" /\ call[c].page \in Page
  <2>1. call[c] \in CallRecord /\ CallOK(call[c])
    BY CallFacts
  <2>2. call[c].page \in Page /\ call[c].pc # "new"
    BY <2>1 DEF CallOK
  <2> QED BY <2>1, <2>2, CallEnds
<1>2. call' = [call EXCEPT ![c] = r]
  BY DEF Ends
<1> HIDE DEF r
<1>3. call'[c] = r /\ call' = [call EXCEPT ![c] = call'[c]]
  BY <1>1, <1>2, CallMoves DEF PagesInv
<1>4. QueueInv'
  BY <1>1, <1>3, QueueLeaves DEF PagesInv, Ends
<1> QED BY <1>1, <1>2, <1>4, PlainStep

(* A call at work goes on to its next await. *)
LEMMA GoesStep ==
  ASSUME PagesInv, NEW c \in Call, InTurn(c), mode = "up", mode' = mode,
         NEW r \in CallRecord, CallOK(r), r.pc \in Busy, r.page = call[c].page, call' = [call EXCEPT ![c] = r],
         call[c].pc # "flush", writes' = writes, serial' = serial, StoresTyped'
  PROVE  PagesInv'
<1>1. call'[c] = r /\ call' = [call EXCEPT ![c] = call'[c]]
  BY CallMoves DEF PagesInv
<1>2. QueueInv'
  BY <1>1, QueueStays DEF PagesInv, Busy
<1> QED BY <1>2, PlainStep

(* A call joins the queue of its page. *)
LEMMA JoinStep ==
  ASSUME PagesInv, NEW c \in Call, mode = "up", mode' = mode, call[c].pc \notin Busy,
         NEW r \in CallRecord, CallOK(r), call' = [call EXCEPT ![c] = r], r.page \in Page,
         Queues(c, r.page), r.pc = "queued" \/ serial[r.page] = <<>>,
         writes' = writes, StoresTyped'
  PROVE  PagesInv'
<1>1. call'[c] = r /\ call' = [call EXCEPT ![c] = call'[c]]
  BY CallMoves DEF PagesInv
<1>2. QueueInv'
  BY <1>1, QueueJoins DEF PagesInv
<1> QED BY <1>2, PlainStep DEF Busy

-----------------------------------------------------------------------------
(* The steps *)

LEMMA TurnComes ==
  ASSUME PagesInv, NEW c \in Call, Turn(c)
  PROVE  InTurn(c) /\ call[c].pc = "queued" /\ mode = "up"
<1>1. call[c].page \in Page /\ call[c].pc = "queued" /\ mode = "up" /\ Head(serial[call[c].page]) = c
  BY CallFacts DEF Turn, Runs, CallOK
<1>2. serial[call[c].page] \in Seq(Call)
  BY <1>1 DEF PagesInv, QueueInv
<1>3. PICK i \in DOMAIN serial[call[c].page] : serial[call[c].page][i] = c
  BY <1>1 DEF PagesInv, QueueInv
<1>4. serial[call[c].page] # <<>>
  BY <1>2, <1>3, EmptySeq, LenProperties
<1> QED BY <1>1, <1>4 DEF InTurn

LEMMA ReadFacts ==
  ASSUME StoresTyped, NEW t \in Title
  PROVE  Read(t) \in Page \cup {NoPage}
BY DEF StoresTyped, Read

LEMMA SaveAsksTyped ==
  ASSUME PagesInv, NEW c \in Call, NEW name \in Title, NEW title \in Title, SaveAsks(c, name, title)
  PROVE  PagesInv'
<1>1. PICK p \in Page : call' = [call EXCEPT ![c] = [NewCall EXCEPT !.kind = "save", !.name = name, !.title = title,
                                                      !.page = p, !.target = p, !.pc = "check"]]
  BY DEF SaveAsks
<1> DEFINE r == [NewCall EXCEPT !.kind = "save", !.name = name, !.title = title,
                                !.page = p, !.target = p, !.pc = "check"]
<1>2. r \in CallRecord /\ CallOK(r) /\ r.pc = "check"
  BY EmptySeq, NamesAssumption DEF NewCall, CallRecord, CallOK
<1> HIDE DEF r
<1>3. call' = [call EXCEPT ![c] = r]
  BY <1>1 DEF r
<1>4. /\ mode = "up" /\ mode' = mode /\ call[c].pc = "new" /\ writes' = writes /\ serial' = serial
      /\ StoresTyped'
  BY DEF SaveAsks, Runs, disk, names, history, PagesInv, StoresTyped
<1>5. call'[c] = r /\ call' = [call EXCEPT ![c] = call'[c]]
  BY <1>2, <1>3, CallMoves DEF PagesInv
<1>6. QueueInv'
  BY <1>2, <1>4, <1>5, QueueStays DEF PagesInv, Busy
<1> QED BY <1>2, <1>3, <1>4, <1>6, PlainStep

(* What a save has found by its name. *)
LEMMA FindsWhat ==
  ASSUME PagesInv, NEW c \in Call, call[c].kind = "save", call[c].pc \in {"check", "queued"}, Finds(c)
  PROVE  \E r \in CallRecord : /\ CallOK(r) /\ r.pc = "write" /\ r.page = call[c].page
                               /\ call' = [call EXCEPT ![c] = r]
<1> DEFINE found == Read(call[c].name)
           r == [call[c] EXCEPT !.known = found # NoPage, !.pc = "write",
                                !.target = IF found # NoPage THEN found ELSE call[c].page]
<1>1. found \in Page \cup {NoPage}
  BY CallFacts, ReadFacts DEF PagesInv, CallRecord
<1> HIDE DEF found
<1>2. r \in CallRecord /\ CallOK(r) /\ r.pc = "write" /\ r.page = call[c].page
  <2> DEFINE target == IF found # NoPage THEN found ELSE call[c].page
  <2>1. call[c] \in CallRecord /\ CallOK(call[c])
    BY CallFacts
  <2>2. call[c].page \in Page /\ call[c].answer = "none"
    BY <2>1 DEF CallOK
  <2>3. target \in Page
    BY <1>1, <2>2
  <2> DEFINE known == found # NoPage
             made == [call[c] EXCEPT !.known = known, !.pc = "write", !.target = target]
  <2>4. r = made
    BY DEF target, known
  <2> HIDE DEF target, known, r
  <2>5. made \in CallRecord /\ CallOK(made) /\ made.pc = "write" /\ made.page = call[c].page
    <3>1. known \in BOOLEAN
      BY DEF known
    <3>2. made \in CallRecord
      BY <2>1, <2>3, <3>1 DEF CallRecord
    <3>3. /\ made.pc = "write" /\ made.page = call[c].page /\ made.target = target
          /\ made.kind = call[c].kind /\ made.answer = call[c].answer
      BY <2>1 DEF CallRecord
    <3> HIDE DEF made
    <3>4. CallOK(made)
      BY <2>2, <2>3, <3>3 DEF CallOK
    <3> QED BY <3>2, <3>3, <3>4
  <2> HIDE DEF made
  <2> QED BY <2>4, <2>5
<1>3. call' = [call EXCEPT ![c] = r]
  BY DEF Finds, found
<1> QED BY <1>2, <1>3

LEMMA SaveChecksTyped ==
  ASSUME PagesInv, NEW c \in Call, SaveChecks(c)
  PROVE  PagesInv'
<1>1. /\ mode = "up" /\ mode' = mode /\ call[c].pc = "check" /\ writes' = writes /\ StoresTyped'
  BY DEF SaveChecks, Runs, disk, names, history, PagesInv, StoresTyped
<1>2. call[c] \in CallRecord /\ CallOK(call[c]) /\ call[c].page \in Page
  BY <1>1, CallFacts DEF CallOK
<1>3. CASE Queues(c, call[c].page) /\ serial[call[c].page] = <<>> /\ Finds(c)
  <2>1. PICK r \in CallRecord : CallOK(r) /\ r.pc = "write" /\ r.page = call[c].page /\ call' = [call EXCEPT ![c] = r]
    BY <1>1, <1>2, <1>3, FindsWhat DEF CallOK
  <2> QED BY <1>1, <1>2, <1>3, <2>1, JoinStep DEF Busy
<1>4. CASE Queues(c, call[c].page) /\ Goes(c, "queued")
  <2> DEFINE r == [call[c] EXCEPT !.pc = "queued"]
  <2>1. r \in CallRecord /\ CallOK(r) /\ r.pc = "queued" /\ r.page = call[c].page
    BY <1>1, <1>2 DEF CallOK, CallRecord
  <2>2. call' = [call EXCEPT ![c] = r]
    BY <1>4 DEF Goes
  <2> HIDE DEF r
  <2> QED BY <1>1, <1>2, <1>4, <2>1, <2>2, JoinStep DEF Busy
<1>5. CASE call' = [call EXCEPT ![c].pc = "done", ![c].answer = "refused"] /\ UNCHANGED serial
  <2> DEFINE r == [call[c] EXCEPT !.pc = "done", !.answer = "refused"]
  <2>1. r \in CallRecord /\ CallOK(r) /\ r.pc = "done"
    BY <1>1, <1>2 DEF CallOK, CallRecord
  <2>2. call' = [call EXCEPT ![c] = r]
    BY <1>5
  <2> HIDE DEF r
  <2>3. call'[c] = r /\ call' = [call EXCEPT ![c] = call'[c]]
    BY <2>1, <2>2, CallMoves DEF PagesInv
  <2>4. QueueInv'
    BY <1>5, <2>1, <2>3, QueueStays DEF PagesInv, Busy
  <2> QED BY <1>1, <2>1, <2>2, <2>4, PlainStep
<1> QED BY <1>3, <1>4, <1>5 DEF SaveChecks

LEMMA SaveFindsTyped ==
  ASSUME PagesInv, NEW c \in Call, SaveFinds(c)
  PROVE  PagesInv'
<1>1. /\ mode' = mode /\ writes' = writes /\ serial' = serial /\ StoresTyped'
  BY DEF SaveFinds, disk, names, history, PagesInv, StoresTyped
<1>2. InTurn(c) /\ call[c].pc = "queued" /\ mode = "up"
  BY TurnComes DEF SaveFinds
<1>3. PICK r \in CallRecord : CallOK(r) /\ r.pc = "write" /\ r.page = call[c].page /\ call' = [call EXCEPT ![c] = r]
  BY <1>2, FindsWhat DEF SaveFinds
<1> QED BY <1>1, <1>2, <1>3, GoesStep DEF Busy

LEMMA SaveWritesTyped ==
  ASSUME PagesInv, NEW c \in Call, SaveWrites(c)
  PROVE  PagesInv'
<1>1. /\ mode = "up" /\ mode' = mode /\ call[c].pc = "write" /\ writes' = writes /\ StoresTyped'
  BY DEF SaveWrites, Runs, disk, names, history, PagesInv, StoresTyped
<1>2. call[c] \in CallRecord /\ CallOK(call[c]) /\ InTurn(c)
  BY <1>1, CallFacts DEF Busy
<1>3. CASE Ends(c, "refused")
  BY <1>1, <1>2, <1>3, EndStep
<1>4. CASE call' = [call EXCEPT ![c].old = byTitle[call[c].name], ![c].pc = "landing"] /\ UNCHANGED serial
  <2> DEFINE r == [call[c] EXCEPT !.old = byTitle[call[c].name], !.pc = "landing"]
  <2>1. byTitle[call[c].name] \in Page \cup {NoPage}
    BY <1>2 DEF CallRecord, PagesInv, StoresTyped
  <2>2. r \in CallRecord /\ CallOK(r) /\ r.pc = "landing" /\ r.page = call[c].page
    BY <1>1, <1>2, <2>1 DEF CallRecord, CallOK
  <2>3. call' = [call EXCEPT ![c] = r]
    BY <1>4
  <2> HIDE DEF r
  <2> QED BY <1>1, <1>2, <1>4, <2>2, <2>3, GoesStep DEF Busy
<1> QED BY <1>3, <1>4 DEF SaveWrites

LEMMA TwinnedTyped ==
  ASSUME PagesInv, NEW c \in Call, call[c].target \in Page
  PROVE  Twinned(c) \subseteq Page
BY DEF PagesInv, StoresTyped, Twinned, Twins

LEMMA OustedTyped ==
  ASSUME PagesInv, NEW c \in Call
  PROVE  Ousted(c) \subseteq Page
<1>1. call[c].name \in Title /\ byTitle \in [Title -> Page \cup {NoPage}]
  BY DEF PagesInv, StoresTyped, CallsTyped, CallRecord
<1>2. byTitle[call[c].name] \in Page \cup {NoPage}
  BY <1>1
<1> QED BY <1>2, Zenon DEF Ousted

LEMMA SaveLandsTyped ==
  ASSUME PagesInv, NEW c \in Call, SaveLands(c)
  PROVE  PagesInv'
<1>1. /\ mode = "up" /\ mode' = mode /\ call[c].pc = "landing" /\ writes' = writes /\ serial' = serial
  BY DEF SaveLands, Runs
<1>2. call[c] \in CallRecord /\ CallOK(call[c]) /\ InTurn(c) /\ call[c].target \in Page
  BY <1>1, CallFacts DEF Busy, CallOK
<1> DEFINE k == call[c]
           r == [call[c] EXCEPT !.pc = "version"]
<1>3. r \in CallRecord /\ CallOK(r) /\ r.pc = "version" /\ r.page = call[c].page
  BY <1>1, <1>2 DEF CallRecord, CallOK
<1>4. call' = [call EXCEPT ![c] = r]
  BY DEF SaveLands, Goes
<1>5. file' \in [Page -> Doc]
  <2>1. \A p \in Page : file[p] \in Doc /\ NoFile \in Doc
    BY DEF PagesInv, StoresTyped, Doc, NoFile, Text
  <2>2. [title |-> k.title, text |-> c] \in Doc
    BY <1>2 DEF Doc, Text, CallRecord
  <2> QED BY <2>1, <2>2 DEF SaveLands
<1>6. byTitle' \in [Title -> Page \cup {NoPage}] /\ byUuid' \in [Page -> Title \cup {NoTitle}]
  BY <1>2 DEF SaveLands, PagesInv, StoresTyped, CallRecord
<1>7. spoilt' \subseteq Page /\ gone' \subseteq Call
  BY <1>2, TwinnedTyped DEF SaveLands, PagesInv, StoresTyped, Back
<1>9. ousted' \subseteq Page
  BY OustedTyped DEF SaveLands, PagesInv, StoresTyped
<1>8. StoresTyped'
  BY <1>5, <1>6, <1>7, <1>9 DEF SaveLands, PagesInv, StoresTyped
<1> HIDE DEF r
<1> QED BY <1>1, <1>2, <1>3, <1>4, <1>8, GoesStep DEF Busy

(* What the two ways to make a version have in common: it goes behind a    *)
(* list that is its page's or none, and follows the text before it or, as  *)
(* when that could not be read, its own.                                   *)
Makes(c, list, base) ==
  /\ Runs(c, "version")
  /\ Versions(c, list, base)
  /\ list \in {<<>>, manifest[call[c].target]}
  /\ base = c \/ (list # <<>> /\ base = Last(list))
  /\ faults' \in Nat
  /\ UNCHANGED <<mode, file, trash, manifest, stored, index, names, writes, serial, gone, ousted>>

LEMMA VersionMade ==
  ASSUME PagesInv, NEW c \in Call, VersionStarts(c) \/ VersionMisreads(c)
  PROVE  \E list, base : Makes(c, list, base)
<1>1. HistoryOf(c) \in {<<>>, manifest[call[c].target]}
  BY DEF HistoryOf
<1>2. faults \in Nat
  BY DEF PagesInv, StoresTyped
<1>3. CASE VersionStarts(c)
  <2>1. PICK base : base = IF HistoryOf(c) = <<>> THEN c ELSE Last(HistoryOf(c))
    OBVIOUS
  <2>2. Versions(c, HistoryOf(c), base)
    BY <1>3, <2>1 DEF VersionStarts
  <2>3. Makes(c, HistoryOf(c), base)
    BY <1>1, <1>2, <1>3, <2>1, <2>2 DEF VersionStarts, Makes
  <2> QED BY <2>3
<1>4. CASE VersionMisreads(c)
  <2>1. PICK list \in {<<>>, HistoryOf(c)} : Versions(c, list, c)
    BY <1>4 DEF VersionMisreads
  <2>2. Makes(c, list, c)
    BY <1>1, <1>2, <1>4, <2>1 DEF VersionMisreads, Makes
  <2> QED BY <2>2
<1> QED BY <1>3, <1>4

LEMMA MadeTyped ==
  ASSUME PagesInv, NEW c \in Call, NEW list, NEW base, Makes(c, list, base)
  PROVE  PagesInv'
<1>1. /\ mode = "up" /\ mode' = mode /\ call[c].pc = "version" /\ writes' = writes /\ serial' = serial
  BY DEF Makes, Runs
<1>2. call[c] \in CallRecord /\ CallOK(call[c]) /\ InTurn(c) /\ call[c].target \in Page
  BY <1>1, CallFacts DEF Busy, CallOK
<1> DEFINE p == call[c].target
           n == NextVersion(list)
           file1 == [base |-> base, text |-> c]
           r == [call[c] EXCEPT !.list = Append(list, c), !.pc = "manifest"]
<1>3. c \in Text /\ list \in Seq(Text)
  <2>1. <<>> \in Seq(Text) /\ manifest[p] \in Seq(Text)
    BY <1>2, EmptySeq DEF PagesInv, StoresTyped
  <2>2. list = <<>> \/ list = manifest[p]
    BY DEF Makes
  <2> QED BY <2>1, <2>2 DEF Text
<1>4. Append(list, c) \in Seq(Text) /\ n \in Nat \ {0}
  BY <1>3, Lengthened DEF NextVersion
<1>5. file1 \in [base : Text, text : Text]
  <2>1. list # <<>> => Last(list) \in Text
    <3>1. list # <<>> => Len(list) \in 1 .. Len(list)
      BY <1>3, EmptySeq, LenProperties
    <3> QED BY <1>3, <3>1, ElementOfSeq DEF Last
  <2> QED BY <1>3, <2>1 DEF Makes
<1>6. r \in CallRecord /\ CallOK(r) /\ r.pc = "manifest" /\ r.page = call[c].page
  BY <1>1, <1>2, <1>4 DEF CallRecord, CallOK
<1>7. call' = [call EXCEPT ![c] = r]
  BY DEF Makes, Versions
<1>8. snapshot' \in [Page -> Seq([base : Text, text : Text])]
  <2> DEFINE old == snapshot[p]
             new == IF n > Len(old) THEN Append(old, file1) ELSE [old EXCEPT ![n] = file1]
  <2>1. snapshot' = [snapshot EXCEPT ![p] = new]
    BY DEF Makes, Versions
  <2>2. old \in Seq([base : Text, text : Text])
    BY <1>2 DEF PagesInv, StoresTyped
  <2> HIDE DEF file1, n, old
  <2>3. ASSUME NEW S, NEW o \in Seq(S), NEW m \in Nat \ {0}, NEW e \in S
        PROVE  (IF m > Len(o) THEN Append(o, e) ELSE [o EXCEPT ![m] = e]) \in Seq(S)
    <3>1. CASE m > Len(o)
      BY <2>3, <3>1, AppendProperties
    <3>2. CASE ~(m > Len(o))
      <4>1. Len(o) \in Nat /\ m \in 1 .. Len(o)
        BY <2>3, <3>2, LenProperties
      <4>2. [o EXCEPT ![m] = e] \in Seq(S)
        BY <2>3, <4>1, ExceptSeq
      <4> QED BY <3>2, <4>2
    <3> QED BY <3>1, <3>2
  <2>4. new \in Seq([base : Text, text : Text])
    BY <1>4, <1>5, <2>2, <2>3
  <2> HIDE DEF new
  <2> QED BY <2>1, <2>4 DEF PagesInv, StoresTyped
<1>9. spoilt' \subseteq Page
  BY <1>2 DEF Makes, Versions, PagesInv, StoresTyped
<1>10. StoresTyped'
  BY <1>8, <1>9 DEF Makes, PagesInv, StoresTyped, names
<1> HIDE DEF r
<1> QED BY <1>1, <1>2, <1>6, <1>7, <1>10, GoesStep DEF Busy

LEMMA VersionStartsTyped ==
  ASSUME PagesInv, NEW c \in Call, VersionStarts(c) \/ VersionMisreads(c)
  PROVE  PagesInv'
BY VersionMade, MadeTyped

LEMMA VersionEndsTyped ==
  ASSUME PagesInv, NEW c \in Call, VersionEnds(c)
  PROVE  PagesInv'
<1>1. /\ mode = "up" /\ mode' = mode /\ call[c].pc = "manifest" /\ serial' = serial
      /\ Indexes(c, Retitled(call[c].target, call[c].title))
  BY DEF VersionEnds, Runs
<1>2. call[c] \in CallRecord /\ CallOK(call[c]) /\ InTurn(c) /\ call[c].target \in Page
  BY <1>1, CallFacts DEF Busy, CallOK
<1> DEFINE x == Retitled(call[c].target, call[c].title)
<1>3. x \in Index
  BY <1>2 DEF Retitled, Index, PagesInv, StoresTyped, CallRecord
<1>4. manifest' \in [Page -> Seq(Text)]
  BY <1>2 DEF VersionEnds, PagesInv, StoresTyped, CallRecord
<1>6. ousted' \subseteq Page
  BY DEF VersionEnds, Supplanted, PagesInv, StoresTyped, Twins
<1>5. StoresTyped'
  BY <1>1, <1>3, <1>4, <1>6 DEF VersionEnds, PagesInv, StoresTyped, names, Indexes, Queued
<1> HIDE DEF x
<1> QED BY <1>1, <1>2, <1>3, <1>5, IndexStep DEF Busy, x

LEMMA VersionFailsTyped ==
  ASSUME PagesInv, NEW c \in Call, VersionFails(c)
  PROVE  PagesInv'
<1> DEFINE x == Retitled(call[c].target, call[c].title)
           r == [call[c] EXCEPT !.pc = "flush", !.list = <<>>]
<1>1. /\ mode = "up" /\ mode' = mode /\ call[c].pc \in {"version", "manifest"} /\ serial' = serial
      /\ Queued(c, x) /\ call' = [call EXCEPT ![c] = r]
  BY DEF VersionFails, Runs
<1>2. call[c] \in CallRecord /\ CallOK(call[c]) /\ InTurn(c) /\ call[c].target \in Page
  BY <1>1, CallFacts DEF Busy, CallOK
<1>3. x \in Index
  BY <1>2 DEF Retitled, Index, PagesInv, StoresTyped, CallRecord
<1>4. r \in CallRecord /\ CallOK(r) /\ r.pc = "flush" /\ r.page = call[c].page
  <2>1. <<>> \in Seq(Text)
    BY EmptySeq
  <2> QED BY <1>1, <1>2, <2>1 DEF CallRecord, CallOK
<1>5. ousted' \subseteq Page /\ faults' \in Nat
  BY DEF VersionFails, Supplanted, PagesInv, StoresTyped, Twins
<1>6. StoresTyped'
  BY <1>1, <1>3, <1>5 DEF VersionFails, PagesInv, StoresTyped, disk, names, Queued
<1> HIDE DEF x, r
<1> QED BY <1>1, <1>2, <1>3, <1>4, <1>6, QueuedStep DEF Busy

LEMMA DeleteAsksTyped ==
  ASSUME PagesInv, NEW c \in Call, NEW name \in Title, DeleteAsks(c, name)
  PROVE  PagesInv'
<1> DEFINE r == [NewCall EXCEPT !.kind = "delete", !.name = name, !.page = Read(name),
                                !.target = Read(name), !.pc = "record"]
<1>1. Read(name) \in Page
  BY ReadFacts DEF DeleteAsks, PagesInv
<1>2. r \in CallRecord /\ CallOK(r) /\ r.pc = "record"
  BY <1>1, EmptySeq, NamesAssumption DEF NewCall, CallRecord, CallOK
<1>3. call' = [call EXCEPT ![c] = r]
  BY DEF DeleteAsks
<1> HIDE DEF r
<1>4. /\ mode = "up" /\ mode' = mode /\ call[c].pc = "new" /\ writes' = writes /\ serial' = serial
      /\ StoresTyped'
  BY DEF DeleteAsks, Runs, disk, names, history, PagesInv, StoresTyped
<1>5. call'[c] = r /\ call' = [call EXCEPT ![c] = call'[c]]
  BY <1>2, <1>3, CallMoves DEF PagesInv
<1>6. QueueInv'
  BY <1>2, <1>4, <1>5, QueueStays DEF PagesInv, Busy
<1> QED BY <1>2, <1>3, <1>4, <1>6, PlainStep

LEMMA DeleteQueuesTyped ==
  ASSUME PagesInv, NEW c \in Call, DeleteQueues(c)
  PROVE  PagesInv'
<1>1. /\ mode = "up" /\ mode' = mode /\ call[c].pc = "record" /\ writes' = writes /\ StoresTyped'
  BY DEF DeleteQueues, Runs, disk, names, history, PagesInv, StoresTyped
<1> DEFINE r == [call[c] EXCEPT !.pc = "queued"]
<1>2. r \in CallRecord /\ CallOK(r) /\ r.pc = "queued" /\ r.page = call[c].page /\ r.page \in Page
  BY <1>1, CallFacts DEF CallOK, CallRecord
<1>3. call' = [call EXCEPT ![c] = r] /\ Queues(c, r.page)
  BY <1>2 DEF Goes, DeleteQueues
<1> HIDE DEF r
<1> QED BY <1>1, <1>2, <1>3, JoinStep DEF Busy

LEMMA DeleteFindsTyped ==
  ASSUME PagesInv, NEW c \in Call, DeleteFinds(c)
  PROVE  PagesInv'
<1>1. /\ mode' = mode /\ writes' = writes /\ StoresTyped'
  BY DEF DeleteFinds, disk, names, history, PagesInv, StoresTyped
<1>2. InTurn(c) /\ call[c].pc = "queued" /\ mode = "up" /\ call[c].kind = "delete"
  BY TurnComes DEF DeleteFinds
<1>3. call[c] \in CallRecord /\ CallOK(call[c])
  BY CallFacts
<1>4. CASE Ends(c, "refused")
  BY <1>1, <1>2, <1>4, EndStep
<1>5. CASE /\ Read(call[c].name) # NoPage
           /\ call' = [call EXCEPT ![c].target = Read(call[c].name), ![c].pc = "moving"]
           /\ UNCHANGED serial
  <2> DEFINE r == [call[c] EXCEPT !.target = Read(call[c].name), !.pc = "moving"]
  <2>1. Read(call[c].name) \in Page
    BY <1>3, <1>5, ReadFacts DEF CallRecord, PagesInv
  <2>2. r \in CallRecord /\ CallOK(r) /\ r.pc = "moving" /\ r.page = call[c].page
    BY <1>2, <1>3, <2>1 DEF CallRecord, CallOK
  <2>3. call' = [call EXCEPT ![c] = r]
    BY <1>5
  <2> HIDE DEF r
  <2> QED BY <1>1, <1>2, <1>5, <2>2, <2>3, GoesStep DEF Busy
<1> QED BY <1>4, <1>5 DEF DeleteFinds

LEMMA DeleteMovesTyped ==
  ASSUME PagesInv, NEW c \in Call, DeleteMoves(c)
  PROVE  PagesInv'
<1> DEFINE p == call[c].target
<1>1. /\ mode = "up" /\ mode' = mode /\ call[c].pc = "moving"
  BY DEF DeleteMoves, Runs
<1>2. call[c] \in CallRecord /\ CallOK(call[c]) /\ InTurn(c) /\ p \in Page
  BY <1>1, CallFacts DEF Busy, CallOK
<1>3. /\ file' \in [Page -> Doc] /\ trash' \in [Page -> Doc]
      /\ byTitle' \in [Title -> Page \cup {NoPage}] /\ byUuid' \in [Page -> Title \cup {NoTitle}]
      /\ gone' \subseteq Call
  BY <1>2 DEF DeleteMoves, PagesInv, StoresTyped, Doc, NoFile, Text
<1>6. ousted' \subseteq Page
  BY OustedTyped DEF DeleteMoves, PagesInv, StoresTyped
<1>4. CASE index.live[p] # NoTitle /\ Indexes(c, Buried(p)) /\ UNCHANGED serial
  <2>1. Buried(p) \in Index
    BY <1>2 DEF Buried, Index, PagesInv, StoresTyped
  <2>2. StoresTyped'
    BY <1>3, <1>4, <1>6, <2>1 DEF DeleteMoves, PagesInv, StoresTyped, Indexes, Queued
  <2> QED BY <1>1, <1>2, <1>4, <2>1, <2>2, IndexStep DEF Busy
<1>5. CASE Ends(c, "ok") /\ UNCHANGED <<index, writes, gone>>
  <2>1. StoresTyped'
    BY <1>3, <1>5, <1>6 DEF DeleteMoves, PagesInv, StoresTyped
  <2> QED BY <1>1, <1>2, <1>5, <2>1, EndStep
<1> QED BY <1>4, <1>5 DEF DeleteMoves

LEMMA MoveFailsTyped ==
  ASSUME PagesInv, NEW c \in Call, MoveFails(c)
  PROVE  PagesInv'
<1>1. /\ mode = "up" /\ mode' = mode /\ call[c].pc = "moving" /\ writes' = writes /\ StoresTyped' /\ Ends(c, "failed")
  BY DEF MoveFails, Runs, disk, names, history, PagesInv, StoresTyped
<1>2. InTurn(c)
  BY <1>1, CallFacts DEF Busy
<1> QED BY <1>1, <1>2, EndStep

LEMMA TrashAsksTyped ==
  ASSUME PagesInv, NEW c \in Call, NEW kind \in {"restore", "purge"}, NEW p \in Page, TrashAsks(c, kind, p)
  PROVE  PagesInv'
<1> DEFINE r == [NewCall EXCEPT !.kind = kind, !.page = p, !.target = p, !.pc = "queued"]
<1>1. /\ mode = "up" /\ mode' = mode /\ call[c].pc = "new" /\ writes' = writes /\ StoresTyped'
  BY DEF TrashAsks, Runs, disk, names, history, PagesInv, StoresTyped
<1>2. r \in CallRecord /\ CallOK(r) /\ r.pc = "queued" /\ r.page = p
  BY EmptySeq, NamesAssumption DEF NewCall, CallRecord, CallOK
<1>3. call' = [call EXCEPT ![c] = r] /\ Queues(c, r.page)
  BY <1>2 DEF TrashAsks
<1> HIDE DEF r
<1> QED BY <1>1, <1>2, <1>3, JoinStep DEF Busy

LEMMA RestoreFindsTyped ==
  ASSUME PagesInv, NEW c \in Call, RestoreFinds(c)
  PROVE  PagesInv'
<1>1. /\ mode' = mode /\ writes' = writes /\ StoresTyped'
  BY DEF RestoreFinds, disk, names, history, PagesInv, StoresTyped
<1>2. InTurn(c) /\ call[c].pc = "queued" /\ mode = "up" /\ call[c].kind = "restore"
  BY TurnComes DEF RestoreFinds
<1>3. call[c] \in CallRecord /\ CallOK(call[c])
  BY CallFacts
<1> DEFINE title == index.deleted[call[c].page]
<1>4. CASE Ends(c, "refused")
  BY <1>1, <1>2, <1>4, EndStep
<1>5. CASE /\ title \in Title
           /\ call' = [call EXCEPT ![c].title = title, ![c].pc = "moving"]
           /\ UNCHANGED serial
  <2> DEFINE r == [call[c] EXCEPT !.title = title, !.pc = "moving"]
  <2>1. r \in CallRecord /\ CallOK(r) /\ r.pc = "moving" /\ r.page = call[c].page
    BY <1>2, <1>3, <1>5 DEF CallRecord, CallOK
  <2>2. call' = [call EXCEPT ![c] = r]
    BY <1>5
  <2> HIDE DEF r
  <2> QED BY <1>1, <1>2, <1>5, <2>1, <2>2, GoesStep DEF Busy
<1> QED BY <1>4, <1>5 DEF RestoreFinds

LEMMA RestoreMovesTyped ==
  ASSUME PagesInv, NEW c \in Call, RestoreMoves(c)
  PROVE  PagesInv'
<1> DEFINE p == call[c].page
<1>1. /\ mode = "up" /\ mode' = mode /\ call[c].pc = "moving" /\ serial' = serial
      /\ Indexes(c, Raised(p, call[c].title))
  BY DEF RestoreMoves, Runs
<1>2. call[c] \in CallRecord /\ CallOK(call[c]) /\ InTurn(c) /\ p \in Page /\ call[c].target \in Page
  BY <1>1, CallFacts DEF Busy, CallOK
<1>3. /\ file' \in [Page -> Doc] /\ trash' \in [Page -> Doc]
      /\ byTitle' \in [Title -> Page \cup {NoPage}] /\ byUuid' \in [Page -> Title \cup {NoTitle}]
      /\ gone' \subseteq Call /\ spoilt' \subseteq Page
  BY <1>2, TwinnedTyped DEF RestoreMoves, PagesInv, StoresTyped, Doc, NoFile, Text, Back, CallRecord
<1>6. ousted' \subseteq Page
  BY <1>2 DEF RestoreMoves, PagesInv, StoresTyped
<1>4. Raised(p, call[c].title) \in Index
  BY <1>2 DEF Raised, Index, PagesInv, StoresTyped, CallRecord
<1>5. StoresTyped'
  BY <1>1, <1>3, <1>4, <1>6 DEF RestoreMoves, PagesInv, StoresTyped, Indexes, Queued
<1> QED BY <1>1, <1>2, <1>4, <1>5, IndexStep DEF Busy

LEMMA PurgeFindsTyped ==
  ASSUME PagesInv, NEW c \in Call, PurgeFinds(c)
  PROVE  PagesInv'
<1>1. /\ mode' = mode /\ writes' = writes
  BY DEF PurgeFinds
<1>2. InTurn(c) /\ call[c].pc = "queued" /\ mode = "up" /\ call[c].kind = "purge"
  BY TurnComes DEF PurgeFinds
<1>3. call[c] \in CallRecord /\ CallOK(call[c]) /\ call[c].page \in Page
  BY <1>2, CallFacts DEF CallOK
<1>4. StoresTyped'
  <2>1. StoresTyped /\ UNCHANGED <<file, manifest, snapshot, stored, index, names, faults, spoilt, ousted>>
        /\ mode' = mode
    BY DEF PurgeFinds, PagesInv
  <2>2. trash' \in [Page -> Doc] /\ gone' \subseteq Call
    <3>1. trash \in [Page -> Doc] /\ gone \subseteq Call /\ NoFile \in Doc
      BY <2>1 DEF StoresTyped, Doc, NoFile, Text
    <3>2. \/ UNCHANGED <<trash, gone>>
          \/ trash' = [trash EXCEPT ![call[c].page] = NoFile] /\ gone' = Back(call[c].page)
      BY DEF PurgeFinds
    <3> QED BY <3>1, <3>2, Zenon DEF Back
  <2> QED BY <2>1, <2>2 DEF StoresTyped, names
<1>5. CASE Ends(c, "refused")
  BY <1>1, <1>2, <1>4, <1>5, EndStep
<1>6. CASE Goes(c, "purging") /\ UNCHANGED serial
  <2> DEFINE r == [call[c] EXCEPT !.pc = "purging"]
  <2>1. r \in CallRecord /\ CallOK(r) /\ r.pc = "purging" /\ r.page = call[c].page
    BY <1>2, <1>3 DEF CallRecord, CallOK
  <2>2. call' = [call EXCEPT ![c] = r]
    BY <1>6 DEF Goes
  <2> HIDE DEF r
  <2> QED BY <1>1, <1>2, <1>4, <1>6, <2>1, <2>2, GoesStep DEF Busy
<1> QED BY <1>5, <1>6 DEF PurgeFinds

LEMMA PurgeEndsTyped ==
  ASSUME PagesInv, NEW c \in Call, PurgeEnds(c)
  PROVE  PagesInv'
<1> DEFINE p == call[c].page
           x == [index EXCEPT !.deleted[p] = NoTitle]
<1>1. /\ mode = "up" /\ mode' = mode /\ call[c].pc = "purging" /\ serial' = serial /\ Indexes(c, x)
  BY DEF PurgeEnds, Runs
<1>2. call[c] \in CallRecord /\ CallOK(call[c]) /\ InTurn(c) /\ p \in Page
  BY <1>1, CallFacts DEF Busy, CallOK
<1>3. x \in Index
  BY <1>2 DEF Index, PagesInv, StoresTyped
<1>4. <<>> \in Seq(Text) /\ <<>> \in Seq([base : Text, text : Text])
  BY EmptySeq
<1>5. manifest' \in [Page -> Seq(Text)] /\ snapshot' \in [Page -> Seq([base : Text, text : Text])] /\ spoilt' \subseteq Page
  BY <1>2, <1>4 DEF PurgeEnds, PagesInv, StoresTyped
<1>6. StoresTyped'
  BY <1>1, <1>3, <1>5 DEF PurgeEnds, PagesInv, StoresTyped, names, Indexes, Queued
<1> HIDE DEF x
<1> QED BY <1>1, <1>2, <1>3, <1>6, IndexStep DEF Busy

(* The write of the index at the head of the queue is over, well or not. *)
LEMMA FirstWriteTyped ==
  ASSUME PagesInv, writes # <<>>, writes' = Tail(writes), NEW answer \in {"ok", "failed"},
         Ends(writes[1].by, answer), mode' = mode, StoresTyped'
  PROVE  PagesInv'
<1> DEFINE c == writes[1].by
           r == [call[c] EXCEPT !.pc = "done", !.answer = answer]
<1>1. 1 \in DOMAIN writes
  BY EmptySeq, LenProperties DEF PagesInv, WritesInv
<1>2. c \in Call /\ call[c].pc = "flush"
  BY <1>1, Writers DEF PagesInv, WritesInv
<1> HIDE DEF c
<1>3. call[c] \in CallRecord /\ CallOK(call[c]) /\ InTurn(c) /\ call[c].page \in Page
  BY <1>2, CallFacts DEF Busy, CallOK
<1>4. r \in CallRecord /\ CallOK(r) /\ r.pc = "done"
  BY <1>2, <1>3 DEF CallRecord, CallOK
<1>5. call' = [call EXCEPT ![c] = r] /\ serial' = [serial EXCEPT ![call[c].page] = Tail(@)]
  BY DEF Ends, c
<1> HIDE DEF r
<1>6. /\ CallsTyped' /\ CallsInv' /\ call'[c] = r /\ call' = [call EXCEPT ![c] = call'[c]]
      /\ \A d \in Call \ {c} : call'[d] = call[d]
  BY <1>2, <1>4, <1>5, CallMoves DEF PagesInv
<1>7. QueueInv'
  BY <1>2, <1>3, <1>4, <1>5, <1>6, QueueLeaves DEF PagesInv
<1>8. WritesInv'
  BY <1>6, WritesLeave DEF PagesInv, c
<1>9. mode = "up"
  BY <1>2 DEF PagesInv, DownInv, StoresTyped
<1> QED BY <1>6, <1>7, <1>8, <1>9 DEF PagesInv, DownInv

LEMMA IndexLandsTyped ==
  ASSUME PagesInv, NEW i \in NextWrite, IndexLands(i)
  PROVE  PagesInv' /\ writes # <<>> /\ writes' = Tail(writes) /\ i = 1
<1>1. i = 1 /\ 1 \in DOMAIN writes
  BY DEF NextWrite
<1>2. writes # <<>> /\ writes \in Seq([by : Call, ix : Index])
  BY <1>1 DEF PagesInv, WritesInv
<1>3. writes' = Tail(writes)
  BY <1>1, <1>2, FirstRemoved DEF IndexLands
<1>4. writes[1].ix \in Index
  BY <1>1, Writers DEF PagesInv
<1>5. StoresTyped' /\ mode' = mode /\ Ends(writes[1].by, "ok")
  BY <1>1, <1>4 DEF IndexLands, disk, names, history, PagesInv, StoresTyped
<1> QED BY <1>1, <1>2, <1>3, <1>5, FirstWriteTyped

LEMMA IndexFailsTyped ==
  ASSUME PagesInv, IndexFails
  PROVE  PagesInv'
<1>1. writes # <<>> /\ writes' = Tail(writes) /\ Ends(writes[1].by, "failed") /\ mode' = mode
  <2>1. writes # <<>> /\ writes' = Tail(writes) /\ Ends(Head(writes).by, "failed") /\ mode' = mode
    BY DEF IndexFails
  <2>2. Head(writes) = writes[1]
    BY <2>1, Shortened DEF PagesInv, WritesInv
  <2> QED BY <2>1, <2>2
<1>2. StoresTyped'
  <2>1. StoresTyped /\ UNCHANGED <<mode, disk, stored, index, names, history>> /\ faults' = faults + 1
    BY DEF IndexFails, PagesInv
  <2>2. faults' \in Nat
    BY <2>1 DEF StoresTyped
  <2> QED BY <2>1, <2>2 DEF disk, names, history, StoresTyped
<1> QED BY <1>1, <1>2, FirstWriteTyped

LEMMA StartsUpTyped ==
  ASSUME PagesInv, StartsUp
  PROVE  PagesInv'
<1>1. PICK kept \in Kept : \E found \in Found(kept) :
       LET title(p) == IF p \in kept THEN stored.live[p] ELSE file[p].title
           served   == kept \cup found
           ix       == [stored EXCEPT !.live = [p \in Page |-> IF p \in kept THEN @[p] ELSE NoTitle]]
       IN  /\ byUuid' = [p \in Page |-> IF p \in served THEN title(p) ELSE NoTitle]
           /\ byTitle' = [t \in Title |-> IF \E p \in served : title(p) = t
                                          THEN CHOOSE p \in served : title(p) = t ELSE NoPage]
           /\ index' = ix
           /\ stored' = ix
  BY DEF StartsUp
<1>2. PICK found \in Found(kept) :
       LET title(p) == IF p \in kept THEN stored.live[p] ELSE file[p].title
           served   == kept \cup found
           ix       == [stored EXCEPT !.live = [p \in Page |-> IF p \in kept THEN @[p] ELSE NoTitle]]
       IN  /\ byUuid' = [p \in Page |-> IF p \in served THEN title(p) ELSE NoTitle]
           /\ byTitle' = [t \in Title |-> IF \E p \in served : title(p) = t
                                          THEN CHOOSE p \in served : title(p) = t ELSE NoPage]
           /\ index' = ix
           /\ stored' = ix
  BY <1>1
<1>3. kept \subseteq Page /\ found \subseteq Page
  BY DEF Kept, Found
<1>4. \A p \in Page : stored.live[p] \in Title \cup {NoTitle} /\ file[p].title \in Title \cup {NoTitle}
  BY DEF PagesInv, StoresTyped, Index, Doc
<1>5. byUuid' \in [Page -> Title \cup {NoTitle}]
  BY <1>2, <1>3, <1>4
<1>6. byTitle' \in [Title -> Page \cup {NoPage}]
  BY <1>2, <1>3
<1>7. stored' \in Index /\ index' \in Index
  BY <1>2 DEF PagesInv, StoresTyped, Index
<1>8. StoresTyped'
  BY <1>5, <1>6, <1>7 DEF StartsUp, disk, history, PagesInv, StoresTyped
<1> QED BY <1>8 DEF StartsUp, PagesInv, CallsTyped, CallsInv, QueueInv, InTurn, WritesInv, DownInv

LEMMA KilledTyped ==
  ASSUME PagesInv, Killed
  PROVE  PagesInv'
<1>1. ASSUME NEW c \in Call
      PROVE  call'[c] \in CallRecord /\ CallOK(call'[c]) /\ call'[c].pc \in {"new", "done"}
  <2>1. call'[c] = IF call[c].pc \in {"new", "done"} THEN call[c]
                   ELSE [call[c] EXCEPT !.pc = "done", !.answer = "cut"]
    BY DEF Killed
  <2>2. call[c] \in CallRecord /\ CallOK(call[c])
    BY CallFacts
  <2>3. CASE call[c].pc \in {"new", "done"}
    BY <2>1, <2>2, <2>3
  <2>4. CASE call[c].pc \notin {"new", "done"}
    <3> DEFINE r == [call[c] EXCEPT !.pc = "done", !.answer = "cut"]
    <3>1. r \in CallRecord /\ CallOK(r) /\ r.pc = "done"
      <4>1. call[c].pc # "new"
        BY <2>4
      <4> QED BY <2>2, <4>1, CallEnds
    <3> HIDE DEF r
    <3>2. call'[c] = r
      BY <2>1, <2>4 DEF r
    <3> QED BY <3>1, <3>2
  <2> QED BY <2>3, <2>4
<1>2. CallsTyped' /\ CallsInv'
  BY <1>1 DEF Killed, CallsTyped, CallsInv
<1>3. writes' = <<>> /\ serial' = [p \in Page |-> <<>>]
  BY DEF Killed
<1>4. WritesInv'
  BY <1>3, EmptySeq DEF WritesInv
<1>5. QueueInv'
  BY <1>1, <1>3, EmptySeq DEF QueueInv, Busy
<1>6. DownInv'
  BY <1>1, <1>3 DEF DownInv
<1>7. StoresTyped'
  <2>1. StoresTyped /\ UNCHANGED <<disk, stored, history>> /\ faults' = faults + 1 /\ mode' = "down"
    BY DEF Killed, PagesInv
  <2>2. faults' \in Nat
    BY <2>1 DEF StoresTyped
  <2>3. /\ index' \in Index
        /\ byTitle' \in [Title -> Page \cup {NoPage}] /\ byUuid' \in [Page -> Title \cup {NoTitle}]
    BY DEF Killed, Index
  <2> QED BY <2>1, <2>2, <2>3 DEF disk, history, StoresTyped
<1> QED BY <1>2, <1>4, <1>5, <1>6, <1>7 DEF PagesInv

LEMMA InitPages == Init => PagesInv
<1> SUFFICES ASSUME Init PROVE PagesInv
  OBVIOUS
<1>1. Home \in Title /\ Main \in Page
  BY NamesAssumption
<1>2. /\ NoFile \in Doc /\ [title |-> Home, text |-> First] \in Doc
      /\ [base |-> First, text |-> First] \in [base : Text, text : Text] /\ First \in Text
  BY <1>1 DEF Doc, Text, NoFile
<1>3. manifest \in [Page -> Seq(Text)]
  <2>1. <<>> \in Seq(Text) /\ <<First>> \in Seq(Text)
    BY <1>2
  <2> QED BY <2>1 DEF Init
<1>4. snapshot \in [Page -> Seq([base : Text, text : Text])]
  <2> DEFINE S == [base : Text, text : Text]
             v == [base |-> First, text |-> First]
  <2>1. snapshot = [p \in Page |-> IF p = Main THEN <<v>> ELSE <<>>] /\ v \in S
    BY <1>2 DEF Init
  <2> HIDE DEF S, v
  <2>2. <<v>> \in Seq(S) /\ <<>> \in Seq(S)
    BY <2>1
  <2>3. snapshot \in [Page -> Seq(S)]
    BY <2>1, <2>2
  <2> QED BY <2>3 DEF S
<1>5. StoresTyped
  BY <1>1, <1>2, <1>3, <1>4 DEF Init, StoresTyped, Index
<1>6. NewCall \in CallRecord /\ NewCall.pc = "new" /\ CallOK(NewCall)
  BY <1>1, EmptySeq DEF NewCall, CallRecord, CallOK
<1>7. call = [c \in Call |-> NewCall] /\ writes = <<>> /\ serial = [p \in Page |-> <<>>]
  BY DEF Init
<1>8. CallsTyped /\ CallsInv
  BY <1>6, <1>7 DEF CallsTyped, CallsInv
<1>9. QueueInv /\ WritesInv /\ DownInv
  BY <1>6, <1>7, EmptySeq DEF QueueInv, WritesInv, DownInv, Busy
<1> QED BY <1>5, <1>8, <1>9 DEF PagesInv

LEMMA StepKeepsPages == PagesInv /\ [Next]_vars => PagesInv'
<1> SUFFICES ASSUME PagesInv, [Next]_vars PROVE PagesInv'
  OBVIOUS
<1>1. ASSUME NEW c \in Call, NEW name \in Title, NEW title \in Title, SaveAsks(c, name, title) PROVE PagesInv'
  BY <1>1, SaveAsksTyped
<1>2. ASSUME NEW c \in Call, SaveChecks(c) \/ SaveFinds(c) \/ SaveWrites(c) \/ SaveLands(c)
                             \/ VersionStarts(c) \/ VersionMisreads(c) \/ VersionEnds(c) \/ VersionFails(c)
      PROVE  PagesInv'
  BY <1>2, SaveChecksTyped, SaveFindsTyped, SaveWritesTyped, SaveLandsTyped, VersionStartsTyped, VersionEndsTyped,
         VersionFailsTyped
<1>3. ASSUME NEW c \in Call, NEW name \in Title, DeleteAsks(c, name) PROVE PagesInv'
  BY <1>3, DeleteAsksTyped
<1>4. ASSUME NEW c \in Call, DeleteQueues(c) \/ DeleteFinds(c) \/ DeleteMoves(c) \/ MoveFails(c)
      PROVE  PagesInv'
  BY <1>4, DeleteQueuesTyped, DeleteFindsTyped, DeleteMovesTyped, MoveFailsTyped
<1>5. ASSUME NEW c \in Call, NEW kind \in {"restore", "purge"}, NEW p \in Page, TrashAsks(c, kind, p)
      PROVE  PagesInv'
  BY <1>5, TrashAsksTyped
<1>6. ASSUME NEW c \in Call, RestoreFinds(c) \/ RestoreMoves(c) \/ PurgeFinds(c) \/ PurgeEnds(c)
      PROVE  PagesInv'
  BY <1>6, RestoreFindsTyped, RestoreMovesTyped, PurgeFindsTyped, PurgeEndsTyped
<1>7. ASSUME NEW i \in NextWrite, IndexLands(i) PROVE PagesInv'
  BY <1>7, IndexLandsTyped
<1>8. CASE IndexFails \/ StartsUp \/ Killed
  BY <1>8, IndexFailsTyped, StartsUpTyped, KilledTyped
<1>9. CASE UNCHANGED vars
  BY <1>9 DEF vars, disk, names, history, PagesInv, StoresTyped, CallsTyped, CallsInv, QueueInv, InTurn,
              WritesInv, DownInv
<1> QED BY <1>1, <1>2, <1>3, <1>4, <1>5, <1>6, <1>7, <1>8, <1>9 DEF Next

LEMMA PagesTypes == PagesInv => PagesTypeOK
BY DEF PagesInv, StoresTyped, CallsTyped, QueueInv, InTurn, WritesInv, PagesTypeOK, AtWork, Busy

(* The disk, the index, the lookups and the calls have their types, and a  *)
(* call is at work on its page only as the first of that page's queue: for *)
(* any calls, pages, titles and faults.                                    *)
THEOREM PagesTypesCorrect == Spec => []PagesTypeOK
<1>1. Init => PagesInv
  BY InitPages
<1>2. PagesInv /\ [Next]_vars => PagesInv'
  BY StepKeepsPages
<1>3. PagesInv => PagesTypeOK
  BY PagesTypes
<1> QED BY <1>1, <1>2, <1>3, PTL DEF Spec

-----------------------------------------------------------------------------
(* What was deleted can be restored *)

(* The tombstone of c's page is on disk or on its way there, and nothing   *)
(* behind it in the queue is without it.                                   *)
GoneOK(c) ==
  LET t == call[c].target
  IN  /\ call[c].pc \in {"flush", "done"} /\ t \in Page
      /\ trash[t] # NoFile /\ file[t] = NoFile
      /\ mode = "up" /\ (call[c].pc = "flush" \/ call[c].answer = "ok") => index.deleted[t] # NoTitle
      /\ call[c].pc = "flush" =>
           \E i \in DOMAIN writes : /\ writes[i].by = c
                                    /\ \A j \in DOMAIN writes : i <= j => writes[j].ix.deleted[t] # NoTitle
      /\ call[c].answer = "ok" => /\ stored.deleted[t] # NoTitle
                                  /\ \A j \in DOMAIN writes : writes[j].ix.deleted[t] # NoTitle

GoneInv == /\ \A c \in gone : GoneOK(c)
           /\ \A b \in Call : call[b].pc = "purging" => \A c \in gone : call[c].target # call[b].page

(* A step of c, which is at work, that leaves the page of d alone. *)
LEMMA GoneStays ==
  ASSUME PagesInv, NEW c \in Call, NEW d \in gone, GoneOK(d), call[c].pc \notin {"flush", "done"},
         \A e \in Call \ {c} : call'[e] = call[e],
         mode' = mode, mode = "up", stored' = stored,
         trash'[call[d].target] = trash[call[d].target], file'[call[d].target] = NoFile,
         index'.deleted[call[d].target] = index.deleted[call[d].target],
         writes' = writes \/ writes' = Append(writes, [by |-> c, ix |-> index'])
  PROVE  GoneOK(d)' /\ d # c
<1> DEFINE t == call[d].target
           w == [by |-> c, ix |-> index']
<1>1. d \in Call /\ d # c /\ call'[d] = call[d]
  BY DEF GoneOK, PagesInv, StoresTyped
<1>2. CASE writes' = writes
  BY <1>1, <1>2 DEF GoneOK
<1>3. CASE writes' = Append(writes, w)
  <2>1. /\ Len(writes) \in Nat
        /\ DOMAIN writes = 1 .. Len(writes) /\ DOMAIN writes' = 1 .. Len(writes) + 1
        /\ writes'[Len(writes) + 1] = w /\ \A i \in 1 .. Len(writes) : writes'[i] = writes[i]
    <3>1. writes \in Seq([by : Call, ix : Index])
      BY DEF PagesInv, WritesInv
    <3> HIDE DEF w
    <3> QED BY <1>3, <3>1, AppendProperties, LenProperties
  <2>2. \A j \in 1 .. Len(writes) + 1 : j = Len(writes) + 1 \/ j \in 1 .. Len(writes)
    BY <2>1
  <2>3. w.ix.deleted[t] = index.deleted[t] /\ w.by = c
    OBVIOUS
  <2> HIDE DEF w
  <2>4. ASSUME call[d].pc = "flush"
        PROVE  \E i \in DOMAIN writes' : /\ writes'[i].by = d
                                         /\ \A j \in DOMAIN writes' : i <= j => writes'[j].ix.deleted[t] # NoTitle
    <3>1. PICK i \in DOMAIN writes : /\ writes[i].by = d
                                     /\ \A j \in DOMAIN writes : i <= j => writes[j].ix.deleted[t] # NoTitle
      BY <2>4 DEF GoneOK
    <3>2. index.deleted[t] # NoTitle
      BY <2>4 DEF GoneOK
    <3>3. i \in DOMAIN writes' /\ writes'[i].by = d
      BY <2>1, <3>1
    <3>4. \A j \in DOMAIN writes' : i <= j => writes'[j].ix.deleted[t] # NoTitle
      BY <2>1, <2>2, <2>3, <3>1, <3>2
    <3> QED BY <3>3, <3>4
  <2>5. ASSUME call[d].answer = "ok"
        PROVE  \A j \in DOMAIN writes' : writes'[j].ix.deleted[t] # NoTitle
    <3>1. index.deleted[t] # NoTitle /\ \A j \in DOMAIN writes : writes[j].ix.deleted[t] # NoTitle
      BY <2>5 DEF GoneOK
    <3> QED BY <2>1, <2>2, <2>3, <3>1
  <2> QED BY <1>1, <2>4, <2>5 DEF GoneOK
<1> QED BY <1>1, <1>2, <1>3

LEMMA GoneStep ==
  ASSUME PagesInv, GoneInv, NEW c \in Call, call[c].pc \notin {"flush", "done"},
         \A e \in Call \ {c} : call'[e] = call[e],
         mode' = mode, mode = "up", stored' = stored, gone' \subseteq gone,
         \A d \in gone' : /\ trash'[call[d].target] = trash[call[d].target]
                          /\ file'[call[d].target] = NoFile
                          /\ index'.deleted[call[d].target] = index.deleted[call[d].target],
         writes' = writes \/ writes' = Append(writes, [by |-> c, ix |-> index']),
         call'[c].pc = "purging" => \A d \in gone' : call[d].target # call'[c].page
  PROVE  GoneInv'
<1>1. ASSUME NEW d \in gone' PROVE GoneOK(d)' /\ d # c
  BY <1>1, GoneStays DEF GoneInv
<1>2. \A d \in gone' : d \in Call /\ call'[d] = call[d]
  BY <1>1 DEF PagesInv, StoresTyped
<1>3. ASSUME NEW b \in Call, call'[b].pc = "purging", NEW d \in gone' PROVE call'[d].target # call'[b].page
  BY <1>2, <1>3 DEF GoneInv
<1> QED BY <1>1, <1>3 DEF GoneInv

LEMMA QuietStep ==
  ASSUME PagesInv, GoneInv, NEW c \in Call, call[c].pc \notin {"flush", "done"},
         \A e \in Call \ {c} : call'[e] = call[e], call'[c].pc # "purging",
         UNCHANGED <<mode, file, trash, stored, index, writes, gone>>, mode = "up"
  PROVE  GoneInv'
<1>1. \A d \in gone : file[call[d].target] = NoFile
  BY DEF GoneInv, GoneOK
<1> QED BY <1>1, GoneStep

LEMMA QuietMoves ==
  ASSUME PagesInv, NEW c \in Call,
         \/ \E name, title \in Title : SaveAsks(c, name, title)
         \/ SaveChecks(c) \/ SaveFinds(c) \/ SaveWrites(c)
         \/ \E name \in Title : DeleteAsks(c, name)
         \/ DeleteQueues(c) \/ DeleteFinds(c) \/ MoveFails(c)
         \/ \E kind \in {"restore", "purge"}, p \in Page : TrashAsks(c, kind, p)
         \/ RestoreFinds(c)
  PROVE  /\ UNCHANGED <<mode, disk, stored, index, names, writes, history>> /\ mode = "up"
         /\ call[c].pc \notin {"flush", "done"} /\ \A e \in Call \ {c} : call'[e] = call[e]
         /\ call'[c].pc \notin {"version", "manifest", "purging", "flush"} /\ call'[c].answer # "ok"
<1>1. UNCHANGED <<mode, disk, stored, index, names, writes, history>>
  BY DEF SaveAsks, SaveChecks, SaveFinds, SaveWrites, DeleteAsks, DeleteQueues, DeleteFinds,
         MoveFails, TrashAsks, RestoreFinds
<1>2. mode = "up" /\ call[c].pc \notin {"flush", "done"}
  BY DEF SaveAsks, SaveChecks, SaveFinds, SaveWrites, DeleteAsks, DeleteQueues, DeleteFinds,
         MoveFails, TrashAsks, RestoreFinds, Runs, Turn
<1>3. CallsTyped /\ call[c] \in CallRecord /\ call[c].answer = "none"
  BY <1>2, CallFacts DEF PagesInv, CallOK
<1>4. /\ call'[c].pc \notin {"version", "manifest", "purging", "flush"} /\ call'[c].answer # "ok"
      /\ \A e \in Call \ {c} : call'[e] = call[e]
  <2>1. CASE \E name, title \in Title : SaveAsks(c, name, title)
    <3>1. PICK name \in Title, title \in Title : SaveAsks(c, name, title)
      BY <2>1
    <3>2. PICK p \in Page : call' = [call EXCEPT ![c] = [NewCall EXCEPT !.kind = "save", !.name = name, !.title = title,
                                                         !.page = p, !.target = p, !.pc = "check"]]
      BY <3>1 DEF SaveAsks
    <3> QED BY <1>3, <3>2 DEF NewCall, CallsTyped
  <2>2. CASE \E name \in Title : DeleteAsks(c, name)
    <3>1. PICK name \in Title : DeleteAsks(c, name)
      BY <2>2
    <3>2. call' = [call EXCEPT ![c] = [NewCall EXCEPT !.kind = "delete", !.name = name, !.page = Read(name),
                                                      !.target = Read(name), !.pc = "record"]]
      BY <3>1 DEF DeleteAsks
    <3> QED BY <1>3, <3>2 DEF NewCall, CallsTyped
  <2>3. CASE \E kind \in {"restore", "purge"}, p \in Page : TrashAsks(c, kind, p)
    <3>1. PICK kind \in {"restore", "purge"}, p \in Page : TrashAsks(c, kind, p)
      BY <2>3
    <3>2. call' = [call EXCEPT ![c] = [NewCall EXCEPT !.kind = kind, !.page = p, !.target = p, !.pc = "queued"]]
      BY <3>1 DEF TrashAsks
    <3> QED BY <1>3, <3>2 DEF NewCall, CallsTyped
  <2>4. CASE Finds(c)
    BY <1>3, <2>4 DEF Finds, CallRecord, CallsTyped
  <2>5. CASE Goes(c, "queued")
    BY <1>3, <2>5 DEF Goes, CallRecord, CallsTyped
  <2>6. CASE \E answer \in {"refused", "failed"} : call' = [call EXCEPT ![c].pc = "done", ![c].answer = answer]
    BY <1>3, <2>6 DEF CallRecord, CallsTyped
  <2>7. CASE call' = [call EXCEPT ![c].old = byTitle[call[c].name], ![c].pc = "landing"]
    BY <1>3, <2>7 DEF CallRecord, CallsTyped
  <2>8. CASE call' = [call EXCEPT ![c].target = Read(call[c].name), ![c].pc = "moving"]
    BY <1>3, <2>8 DEF CallRecord, CallsTyped
  <2>9. CASE call' = [call EXCEPT ![c].title = index.deleted[call[c].page], ![c].pc = "moving"]
    BY <1>3, <2>9 DEF CallRecord, CallsTyped
  <2> QED
    BY <2>1, <2>2, <2>3, <2>4, <2>5, <2>6, <2>7, <2>8, <2>9
    DEF SaveChecks, SaveFinds, SaveWrites, DeleteQueues, DeleteFinds, MoveFails, RestoreFinds, Ends
<1> QED BY <1>1, <1>2, <1>4

(* What the making of a version does to its call. *)
LEMMA VersionMoves ==
  ASSUME PagesInv, NEW c \in Call, NEW list, NEW base, Makes(c, list, base)
  PROVE  /\ call'[c] = [call[c] EXCEPT !.list = Append(list, c), !.pc = "manifest"]
         /\ \A e \in Call \ {c} : call'[e] = call[e]
<1>1. call' = [call EXCEPT ![c].list = Append(list, c), ![c].pc = "manifest"]
  BY DEF Makes, Versions
<1> QED BY <1>1 DEF PagesInv, CallsTyped

LEMMA VersionKeepsGone ==
  ASSUME PagesInv, GoneInv, NEW c \in Call, NEW list, NEW base, Makes(c, list, base)
  PROVE  GoneInv'
<1>1. call'[c] = [call[c] EXCEPT !.list = Append(list, c), !.pc = "manifest"] /\ \A e \in Call \ {c} : call'[e] = call[e]
  BY VersionMoves
<1>2. call'[c].pc # "purging"
  BY <1>1, CallFacts DEF CallRecord
<1>3. UNCHANGED <<mode, file, trash, stored, index, writes, gone>> /\ mode = "up" /\ call[c].pc \notin {"flush", "done"}
  BY DEF Makes, Runs
<1> QED BY <1>1, <1>2, <1>3, QuietStep

LEMMA SaveKeepsGone ==
  ASSUME PagesInv, GoneInv, NEW c \in Call, SaveLands(c) \/ VersionEnds(c) \/ VersionFails(c)
  PROVE  GoneInv'
<1>1. /\ mode' = mode /\ mode = "up" /\ stored' = stored /\ trash' = trash
      /\ call[c].pc \in {"landing", "version", "manifest"}
  BY DEF SaveLands, VersionEnds, VersionFails, Runs, disk
<1>2. (\E x \in {"version", "flush"} : Goes(c, x)) \/ call' = [call EXCEPT ![c].pc = "flush", ![c].list = <<>>]
  BY DEF SaveLands, VersionEnds, VersionFails, Indexes
<1>3. call'[c].pc # "purging" /\ \A e \in Call \ {c} : call'[e] = call[e]
  BY <1>2, CallFacts DEF Goes, PagesInv, CallsTyped, CallRecord
<1>4. \A d \in gone : file[call[d].target] = NoFile /\ call[d].target \in Page
  BY DEF GoneInv, GoneOK
<1>5. CASE SaveLands(c)
  <2>1. gone' = Back(call[c].target) /\ UNCHANGED <<index, writes>>
    BY <1>5 DEF SaveLands
  <2>2. \A d \in gone' : d \in gone /\ call[d].target # call[c].target
    BY <2>1 DEF Back
  <2>3. \A p \in Page : p # call[c].target => file'[p] \in {NoFile, file[p]}
    BY <1>5 DEF SaveLands
  <2>4. \A d \in gone' : file'[call[d].target] = NoFile
    BY <1>4, <2>2, <2>3
  <2> QED BY <1>1, <1>3, <2>1, <2>2, <2>4, GoneStep
<1>6. CASE VersionEnds(c) \/ VersionFails(c)
  <2>1. UNCHANGED <<file, gone>> /\ Queued(c, Retitled(call[c].target, call[c].title))
    BY <1>6 DEF VersionEnds, VersionFails, Indexes, disk
  <2>2. index'.deleted = index.deleted /\ writes' = Append(writes, [by |-> c, ix |-> index'])
    BY <2>1 DEF Queued, Retitled, PagesInv, StoresTyped, Index
  <2> QED BY <1>1, <1>3, <1>4, <2>1, <2>2, GoneStep
<1> QED BY <1>5, <1>6

LEMMA DeleteKeepsGone ==
  ASSUME PagesInv, GoneInv, NEW c \in Call, DeleteMoves(c)
  PROVE  GoneInv'
<1> DEFINE p == call[c].target
<1>1. /\ mode' = mode /\ mode = "up" /\ stored' = stored /\ call[c].pc = "moving" /\ file[p] # NoFile
      /\ trash' = [trash EXCEPT ![p] = file[p]] /\ file' = [file EXCEPT ![p] = NoFile]
  BY DEF DeleteMoves, Runs
<1>2. call[c] \in CallRecord /\ CallOK(call[c]) /\ InTurn(c) /\ p \in Page
  BY <1>1, CallFacts DEF Busy, CallOK
<1>3. Goes(c, "flush") \/ Ends(c, "ok")
  BY DEF DeleteMoves, Indexes, Queued
<1>4. /\ call'[c].pc \in {"flush", "done"} /\ call'[c].target = p
      /\ \A e \in Call \ {c} : call'[e] = call[e]
  BY <1>2, <1>3 DEF Goes, Ends, PagesInv, CallsTyped, CallRecord
<1>5. \A d \in gone : file[call[d].target] = NoFile /\ call[d].target \in Page /\ call[d].target # p
  BY <1>1 DEF GoneInv, GoneOK
<1>6. /\ UNCHANGED <<index, writes>> \/ (index' = Buried(p) /\ writes' = Append(writes, [by |-> c, ix |-> index']))
  BY DEF DeleteMoves, Indexes, Queued
<1>7. \A q \in Page \ {p} : /\ trash'[q] = trash[q] /\ file'[q] = file[q]
                            /\ index'.deleted[q] = index.deleted[q]
  BY <1>1, <1>6 DEF Buried, PagesInv, StoresTyped, Index
<1>8. ASSUME NEW d \in gone PROVE GoneOK(d)' /\ d # c
  <2>1. GoneOK(d)
    BY DEF GoneInv
  <2>2. /\ trash'[call[d].target] = trash[call[d].target] /\ file'[call[d].target] = NoFile
        /\ index'.deleted[call[d].target] = index.deleted[call[d].target]
    BY <1>5, <1>7
  <2>3. writes' = writes \/ writes' = Append(writes, [by |-> c, ix |-> index'])
    BY <1>6
  <2> QED BY <1>1, <1>4, <2>1, <2>2, <2>3, GoneStays
<1>9. CASE gone' = gone
  <2>1. ASSUME NEW b \in Call, call'[b].pc = "purging", NEW d \in gone' PROVE call'[d].target # call'[b].page
    BY <1>4, <1>8, <1>9, <2>1 DEF GoneInv, PagesInv, StoresTyped
  <2> QED BY <1>8, <1>9, <2>1 DEF GoneInv
<1>10. CASE /\ index.live[p] # NoTitle /\ Indexes(c, Buried(p))
            /\ p = call[c].page /\ gone' = gone \cup {c}
  <2>1. call'[c].pc = "flush" /\ call'[c].answer = "none"
    BY <1>1, <1>2, <1>10 DEF Indexes, Queued, Goes, PagesInv, CallsTyped, CallRecord, CallOK
  <2>2. index' = Buried(p) /\ index'.deleted[p] # NoTitle
    BY <1>2, <1>10 DEF Indexes, Queued, Buried, PagesInv, StoresTyped, Index
  <2> DEFINE w == [by |-> c, ix |-> index']
  <2>3. writes' = Append(writes, w)
    BY <1>10, <2>2 DEF Indexes, Queued
  <2>4. w.by = c /\ w.ix.deleted[p] # NoTitle
    BY <2>2
  <2>5. Len(writes) \in Nat /\ DOMAIN writes' = 1 .. Len(writes) + 1 /\ writes'[Len(writes) + 1] = w
    <3>1. writes \in Seq([by : Call, ix : Index])
      BY DEF PagesInv, WritesInv
    <3> HIDE DEF w
    <3> QED BY <2>3, <3>1, AppendProperties, LenProperties
  <2> HIDE DEF w
  <2>6. \E i \in DOMAIN writes' : /\ writes'[i].by = c
                                  /\ \A j \in DOMAIN writes' : i <= j => writes'[j].ix.deleted[p] # NoTitle
    <3>1. Len(writes) + 1 \in DOMAIN writes' /\ \A j \in DOMAIN writes' : Len(writes) + 1 <= j => j = Len(writes) + 1
      BY <2>5
    <3> QED BY <2>4, <2>5, <3>1
  <2>7. trash'[p] # NoFile /\ file'[p] = NoFile
    BY <1>1, <1>2 DEF PagesInv, StoresTyped
  <2>8. GoneOK(c)'
    BY <1>2, <1>4, <2>1, <2>2, <2>6, <2>7 DEF GoneOK
  <2>9. ASSUME NEW b \in Call, call'[b].pc = "purging" PROVE call'[b].page # p
    <3>1. b # c /\ call'[b] = call[b] /\ InTurn(b)
      BY <1>4, <2>1, <2>9, CallFacts DEF Busy
    <3> QED BY <1>2, <1>10, <3>1 DEF InTurn
  <2>10. ASSUME NEW b \in Call, call'[b].pc = "purging", NEW d \in gone' PROVE call'[d].target # call'[b].page
    <3>1. CASE d = c
      BY <1>4, <2>9, <2>10, <3>1
    <3>2. CASE d # c
      BY <1>4, <1>8, <1>10, <2>1, <2>10, <3>2, SMTT(30) DEF GoneInv, PagesInv, StoresTyped
    <3> QED BY <3>1, <3>2
  <2> QED BY <1>8, <1>10, <2>8, <2>10 DEF GoneInv
<1> QED BY <1>9, <1>10 DEF DeleteMoves

LEMMA TrashKeepsGone ==
  ASSUME PagesInv, GoneInv, NEW c \in Call, RestoreMoves(c) \/ PurgeFinds(c) \/ PurgeEnds(c)
  PROVE  GoneInv'
<1> DEFINE p == call[c].page
<1>1. mode' = mode /\ mode = "up" /\ stored' = stored /\ call[c].pc \in {"moving", "queued", "purging"}
  BY DEF RestoreMoves, PurgeFinds, PurgeEnds, Runs, Turn
<1>2. call[c] \in CallRecord /\ CallOK(call[c]) /\ CallsTyped /\ p \in Page
  BY <1>1, CallFacts DEF CallOK, PagesInv
<1>3. \A d \in gone : file[call[d].target] = NoFile /\ call[d].target \in Page
  BY DEF GoneInv, GoneOK
<1>4. CASE RestoreMoves(c)
  <2>1. /\ Goes(c, "flush") /\ gone' = Back(p) /\ index' = Raised(p, call[c].title)
        /\ writes' = Append(writes, [by |-> c, ix |-> index'])
        /\ file' = [file EXCEPT ![p] = trash[p]] /\ trash' = [trash EXCEPT ![p] = NoFile]
    BY <1>4 DEF RestoreMoves, Indexes, Queued
  <2>2. call'[c].pc # "purging" /\ \A e \in Call \ {c} : call'[e] = call[e]
    BY <1>2, <2>1 DEF Goes, CallsTyped, CallRecord
  <2>3. gone' \subseteq gone /\ \A d \in gone' : call[d].target # p
    <3>1. call[c].target = p
      BY <1>2, <1>4 DEF RestoreMoves, CallOK
    <3> QED BY <2>1, <3>1 DEF Back
  <2>4. \A q \in Page \ {p} : /\ trash'[q] = trash[q] /\ file'[q] = file[q]
                              /\ index'.deleted[q] = index.deleted[q]
    BY <2>1 DEF Raised, PagesInv, StoresTyped, Index
  <2> QED BY <1>1, <1>3, <2>1, <2>2, <2>3, <2>4, GoneStep
<1>5. CASE PurgeFinds(c)
  <2>1. UNCHANGED <<file, index, writes>>
    BY <1>5 DEF PurgeFinds
  <2>2. CASE Ends(c, "refused") /\ UNCHANGED <<trash, gone>>
    <3>1. call'[c].pc # "purging" /\ \A e \in Call \ {c} : call'[e] = call[e]
      BY <1>2, <2>2 DEF Ends, CallsTyped, CallRecord
    <3> QED BY <1>1, <2>1, <2>2, <3>1, QuietStep
  <2>3. CASE Goes(c, "purging") /\ trash' = [trash EXCEPT ![p] = NoFile] /\ gone' = Back(p)
    <3>1. call'[c].page = p /\ \A e \in Call \ {c} : call'[e] = call[e]
      BY <1>2, <2>3 DEF Goes, CallsTyped, CallRecord
    <3>2. gone' \subseteq gone /\ \A d \in gone' : call[d].target # p
      BY <2>3 DEF Back
    <3>3. \A q \in Page \ {p} : trash'[q] = trash[q]
      BY <2>3 DEF PagesInv, StoresTyped
    <3> QED BY <1>1, <1>3, <2>1, <3>1, <3>2, <3>3, GoneStep
  <2> QED BY <1>5, <2>2, <2>3 DEF PurgeFinds
<1>6. CASE PurgeEnds(c)
  <2>1. /\ Goes(c, "flush") /\ UNCHANGED <<file, trash, gone>>
        /\ index' = [index EXCEPT !.deleted[p] = NoTitle]
        /\ writes' = Append(writes, [by |-> c, ix |-> index']) /\ call[c].pc = "purging"
    BY <1>6 DEF PurgeEnds, Indexes, Queued, Runs
  <2>2. call'[c].pc # "purging" /\ \A e \in Call \ {c} : call'[e] = call[e]
    BY <1>2, <2>1 DEF Goes, CallsTyped, CallRecord
  <2>3. \A d \in gone' : call[d].target # p
    BY <2>1 DEF GoneInv
  <2>4. \A q \in Page \ {p} : index'.deleted[q] = index.deleted[q]
    BY <2>1 DEF PagesInv, StoresTyped, Index
  <2> QED BY <1>1, <1>3, <2>1, <2>2, <2>3, <2>4, GoneStep
<1> QED BY <1>4, <1>5, <1>6

(* The first queued write of the index lands, or fails. *)
LEMMA WriteKeepsGone ==
  ASSUME PagesInv, GoneInv, writes # <<>>, writes' = Tail(writes), NEW answer \in {"ok", "failed"},
         Ends(writes[1].by, answer), UNCHANGED <<mode, file, trash, index, gone>>,
         stored' = IF answer = "ok" THEN writes[1].ix ELSE stored
  PROVE  GoneInv'
<1> DEFINE b == writes[1].by
<1>1. /\ Len(writes) \in Nat \ {0}
      /\ DOMAIN writes = 1 .. Len(writes) /\ DOMAIN writes' = 1 .. Len(writes) - 1
      /\ \A i \in 1 .. Len(writes) - 1 : writes'[i] = writes[i + 1]
  BY Shortened DEF PagesInv, WritesInv
<1>2. 1 \in DOMAIN writes /\ b \in Call /\ call[b].pc = "flush"
  BY <1>1, Writers DEF PagesInv, WritesInv
<1> HIDE DEF b
<1>3. call[b] \in CallRecord /\ CallsTyped /\ CallOK(call[b])
  BY <1>2, CallFacts DEF PagesInv
<1>4. call' = [call EXCEPT ![b].pc = "done", ![b].answer = answer]
  BY DEF Ends, b
<1>5. /\ call'[b].pc = "done" /\ call'[b].answer = answer /\ call'[b].target = call[b].target
      /\ \A e \in Call \ {b} : call'[e] = call[e]
  BY <1>2, <1>3, <1>4 DEF CallsTyped, CallRecord
<1>6. \A i \in 1 .. Len(writes) - 1 : i + 1 \in DOMAIN writes
  BY <1>1
<1>7. ASSUME NEW d \in gone PROVE GoneOK(d)'
  <2> DEFINE t == call[d].target
  <2>1. d \in Call /\ GoneOK(d) /\ call'[d].target = t
    BY <1>5 DEF GoneInv, PagesInv, StoresTyped
  <2>2. CASE d = b
    <3>1. PICK i \in DOMAIN writes : /\ writes[i].by = d
                                     /\ \A j \in DOMAIN writes : i <= j => writes[j].ix.deleted[t] # NoTitle
      BY <1>2, <2>1, <2>2 DEF GoneOK
    <3>2. i = 1
      BY <1>2, <2>2, <3>1 DEF PagesInv, WritesInv, b
    <3>3. \A j \in DOMAIN writes : writes[j].ix.deleted[t] # NoTitle
      BY <1>1, <3>1, <3>2
    <3>4. \A j \in DOMAIN writes' : writes'[j].ix.deleted[t] # NoTitle
      BY <1>1, <1>6, <3>3
    <3>5. answer = "ok" => stored'.deleted[t] # NoTitle
      BY <1>2, <3>3
    <3>6. mode = "up" => index.deleted[t] # NoTitle
      BY <1>2, <2>1, <2>2 DEF GoneOK
    <3> QED BY <1>2, <1>5, <2>1, <2>2, <3>4, <3>5, <3>6 DEF GoneOK
  <2>3. CASE d # b
    <3>1. call'[d] = call[d]
      BY <1>5, <2>1, <2>3
    <3>2. ASSUME call[d].pc = "flush"
          PROVE  \E i \in DOMAIN writes' : /\ writes'[i].by = d
                                           /\ \A j \in DOMAIN writes' : i <= j => writes'[j].ix.deleted[t] # NoTitle
      <4>1. PICK i \in DOMAIN writes : /\ writes[i].by = d
                                       /\ \A j \in DOMAIN writes : i <= j => writes[j].ix.deleted[t] # NoTitle
        BY <2>1, <3>2 DEF GoneOK
      <4>2. i # 1
        BY <2>3, <4>1 DEF b
      <4>3. i - 1 \in 1 .. Len(writes) - 1 /\ writes'[i - 1].by = d
        BY <1>1, <4>1, <4>2
      <4>4. \A j \in DOMAIN writes' : i - 1 <= j => writes'[j].ix.deleted[t] # NoTitle
        BY <1>1, <1>6, <4>1, <4>2
      <4> QED BY <1>1, <4>3, <4>4
    <3>3. ASSUME call[d].answer = "ok"
          PROVE  stored'.deleted[t] # NoTitle /\ \A j \in DOMAIN writes' : writes'[j].ix.deleted[t] # NoTitle
      <4>1. stored.deleted[t] # NoTitle /\ \A j \in DOMAIN writes : writes[j].ix.deleted[t] # NoTitle
        BY <2>1, <3>3 DEF GoneOK
      <4> QED BY <1>1, <1>2, <1>6, <4>1
    <3> QED BY <2>1, <3>1, <3>2, <3>3 DEF GoneOK
  <2> QED BY <2>2, <2>3
<1>8. ASSUME NEW a \in Call, call'[a].pc = "purging", NEW d \in gone PROVE call'[d].target # call'[a].page
  BY <1>5, <1>8 DEF GoneInv, PagesInv, StoresTyped
<1> QED BY <1>7, <1>8 DEF GoneInv

LEMMA StartKeepsGone ==
  ASSUME PagesInv, GoneInv, StartsUp
  PROVE  GoneInv'
<1>1. UNCHANGED <<file, trash, writes, call, gone>> /\ mode = "down" /\ mode' = "up"
  BY DEF StartsUp, disk, history
<1>2. writes = <<>> /\ \A c \in Call : call[c].pc \in {"new", "done"}
  BY <1>1 DEF PagesInv, DownInv
<1>3. stored'.deleted = stored.deleted /\ index'.deleted = stored.deleted
  BY DEF StartsUp, PagesInv, StoresTyped, Index
<1>4. ASSUME NEW d \in gone PROVE GoneOK(d)'
  <2>1. GoneOK(d) /\ call[d].pc = "done"
    BY <1>2 DEF GoneInv, GoneOK, PagesInv, StoresTyped
  <2> QED BY <1>1, <1>3, <2>1 DEF GoneOK
<1> QED BY <1>1, <1>4 DEF GoneInv

LEMMA KillKeepsGone ==
  ASSUME PagesInv, GoneInv, Killed
  PROVE  GoneInv'
<1>1. UNCHANGED <<file, trash, stored, gone>> /\ mode' = "down" /\ writes' = <<>>
  BY DEF Killed, disk, history
<1>2. ASSUME NEW c \in Call
      PROVE  /\ call'[c].target = call[c].target /\ call'[c].pc \in {"new", "done"}
             /\ call[c].pc # "new" => call'[c].pc = "done"
             /\ call'[c].answer = "ok" => call[c].answer = "ok"
  <2>1. call'[c] = IF call[c].pc \in {"new", "done"} THEN call[c]
                   ELSE [call[c] EXCEPT !.pc = "done", !.answer = "cut"]
    BY DEF Killed
  <2> QED BY <2>1, CallFacts DEF CallRecord
<1>3. DOMAIN writes' = {}
  BY <1>1, EmptySeq, LenProperties
<1>4. ASSUME NEW d \in gone PROVE GoneOK(d)'
  <2>1. GoneOK(d) /\ d \in Call
    BY DEF GoneInv, PagesInv, StoresTyped
  <2>2. call'[d].pc = "done"
    BY <1>2, <2>1 DEF GoneOK
  <2> QED BY <1>1, <1>2, <1>3, <2>1, <2>2 DEF GoneOK
<1>5. \A b \in Call : call'[b].pc # "purging"
  BY <1>2
<1> QED BY <1>1, <1>4, <1>5 DEF GoneInv

LEMMA StepKeepsGone == PagesInv /\ GoneInv /\ [Next]_vars => GoneInv'
<1> SUFFICES ASSUME PagesInv, GoneInv, [Next]_vars PROVE GoneInv'
  OBVIOUS
<1>1. ASSUME NEW c \in Call,
             \/ \E name, title \in Title : SaveAsks(c, name, title)
             \/ SaveChecks(c) \/ SaveFinds(c) \/ SaveWrites(c)
             \/ \E name \in Title : DeleteAsks(c, name)
             \/ DeleteQueues(c) \/ DeleteFinds(c) \/ MoveFails(c)
             \/ \E kind \in {"restore", "purge"}, p \in Page : TrashAsks(c, kind, p)
             \/ RestoreFinds(c)
      PROVE  GoneInv'
  BY <1>1, QuietMoves, QuietStep DEF disk, history
<1>2. ASSUME NEW c \in Call, SaveLands(c) \/ VersionStarts(c) \/ VersionMisreads(c) \/ VersionEnds(c) \/ VersionFails(c)
      PROVE  GoneInv'
  BY <1>2, VersionMade, SaveKeepsGone, VersionKeepsGone
<1>3. ASSUME NEW c \in Call, DeleteMoves(c) PROVE GoneInv'
  BY <1>3, DeleteKeepsGone
<1>4. ASSUME NEW c \in Call, RestoreMoves(c) \/ PurgeFinds(c) \/ PurgeEnds(c) PROVE GoneInv'
  BY <1>4, TrashKeepsGone
<1>5. ASSUME NEW i \in NextWrite, IndexLands(i) PROVE GoneInv'
  <2>1. writes # <<>> /\ writes' = Tail(writes) /\ i = 1
    BY <1>5, IndexLandsTyped
  <2>2. Ends(writes[1].by, "ok") /\ UNCHANGED <<mode, file, trash, index, gone>> /\ stored' = writes[1].ix
    BY <1>5, <2>1 DEF IndexLands, disk, history
  <2> QED BY <2>1, <2>2, WriteKeepsGone
<1>6. CASE IndexFails
  <2>1. writes # <<>> /\ writes' = Tail(writes) /\ Ends(Head(writes).by, "failed")
        /\ UNCHANGED <<mode, file, trash, stored, index, gone>>
    BY <1>6 DEF IndexFails, disk, history
  <2>2. Head(writes) = writes[1]
    BY <2>1, Shortened DEF PagesInv, WritesInv
  <2> QED BY <2>1, <2>2, WriteKeepsGone
<1>7. CASE StartsUp \/ Killed
  BY <1>7, StartKeepsGone, KillKeepsGone
<1>8. CASE UNCHANGED vars
  BY <1>8 DEF vars, disk, names, history, GoneInv, GoneOK
<1> QED BY <1>1, <1>2, <1>3, <1>4, <1>5, <1>6, <1>7, <1>8 DEF Next

(* A delete that was answered, of a page left alone since, can be undone:  *)
(* the file is in the trash and the stored index has its tombstone,        *)
(* whatever else was asked, and however often the process was killed or a  *)
(* write of the index failed.                                              *)
THEOREM DeletedStaysRestorable == Spec => []DeletedIsRestorable
<1>1. Init => PagesInv /\ GoneInv
  BY InitPages DEF Init, GoneInv, NewCall
<1>2. PagesInv /\ GoneInv /\ [Next]_vars => PagesInv' /\ GoneInv'
  BY StepKeepsPages, StepKeepsGone
<1>3. PagesInv /\ GoneInv => DeletedIsRestorable
  BY DEF GoneInv, GoneOK, DeletedIsRestorable
<1> QED BY <1>1, <1>2, <1>3, PTL DEF Spec

-----------------------------------------------------------------------------
(* What was saved is in the history of its page *)

(* How far a save is with the history of its page: it has its turn there,  *)
(* its version is written and follows what the manifest lists, or it is    *)
(* listed.                                                                 *)
HistOK(c) ==
  LET p == call[c].target
      n == Len(manifest[p]) + 1
  IN  p \in Page \ spoilt =>
        /\ call[c].pc \in {"version", "manifest"} => call[c].page = p
        /\ call[c].pc = "manifest" => /\ call[c].list = Append(manifest[p], c)
                                      /\ n <= Len(snapshot[p]) /\ snapshot[p][n].text = c
                                      /\ n > 1 => snapshot[p][n].base \in {manifest[p][n - 1], c}
        /\ call[c].kind = "save" /\ call[c].list # <<>> /\ (call[c].pc = "flush" \/ call[c].answer = "ok") =>
             \E v \in DOMAIN manifest[p] : manifest[p][v] = c

(* Every version the manifest lists has its file, made from the text       *)
(* before it or, as when that could not be read, from its own.             *)
Holds(p) == /\ Len(manifest[p]) <= Len(snapshot[p])
            /\ \A v \in DOMAIN manifest[p] :
                 /\ snapshot[p][v].text = manifest[p][v]
                 /\ v > 1 => snapshot[p][v].base \in {snapshot[p][v - 1].text, snapshot[p][v].text}

HistInv == /\ \A p \in Page \ spoilt : Holds(p)
           /\ \A c \in Call : HistOK(c)

(* An element put at a place of a sequence, or right behind it. *)
LEMMA PutAt ==
  ASSUME NEW S, NEW s \in Seq(S), NEW n \in 1 .. Len(s) + 1, NEW e \in S,
         NEW t, t = IF n > Len(s) THEN Append(s, e) ELSE [s EXCEPT ![n] = e]
  PROVE  n <= Len(t) /\ t[n] = e /\ \A i \in 1 .. n - 1 : t[i] = s[i]
<1>1. Len(s) \in Nat /\ n \in Nat
  BY LenProperties
<1>2. CASE n > Len(s)
  <2>1. n = Len(s) + 1 /\ t = Append(s, e)
    BY <1>1, <1>2
  <2> QED BY <1>1, <2>1, AppendProperties
<1>3. CASE ~(n > Len(s))
  <2>1. n \in 1 .. Len(s) /\ t = [s EXCEPT ![n] = e]
    BY <1>1, <1>3
  <2>2. Len(t) = Len(s) /\ \A j \in 1 .. Len(s) : t[j] = IF j = n THEN e ELSE s[j]
    BY <2>1, ExceptSeq
  <2> QED BY <1>1, <2>1, <2>2
<1> QED BY <1>2, <1>3

(* A step that leaves the histories alone. *)
LEMMA HistStep ==
  ASSUME PagesInv, HistInv, NEW c \in Call, \A e \in Call \ {c} : call'[e] = call[e],
         UNCHANGED <<manifest, snapshot>>, spoilt \subseteq spoilt', HistOK(c)'
  PROVE  HistInv'
<1>1. ASSUME NEW d \in Call \ {c} PROVE HistOK(d)'
  <2>1. HistOK(d) /\ call'[d] = call[d] /\ manifest' = manifest /\ snapshot' = snapshot
    BY DEF HistInv
  <2>2. \A p \in Page \ spoilt' : p \in Page \ spoilt
    OBVIOUS
  <2> HIDE DEF HistInv
  <2> QED BY <2>1, <2>2 DEF HistOK
<1>2. \A p \in Page \ spoilt' : Holds(p)'
  BY DEF HistInv, Holds
<1> QED BY <1>1, <1>2 DEF HistInv

LEMMA MoveKeepsHist ==
  ASSUME PagesInv, HistInv, NEW c \in Call, SaveLands(c) \/ DeleteMoves(c) \/ RestoreMoves(c) \/ PurgeFinds(c)
  PROVE  HistInv'
<1>1. call[c].pc \in {"landing", "moving", "queued"} /\ UNCHANGED <<manifest, snapshot>>
  BY DEF SaveLands, DeleteMoves, RestoreMoves, PurgeFinds, Runs, Turn
<1>2. call[c] \in CallRecord /\ CallOK(call[c]) /\ CallsTyped
  BY CallFacts DEF PagesInv
<1>3. spoilt \subseteq spoilt'
  BY DEF SaveLands, DeleteMoves, RestoreMoves, PurgeFinds, Twinned
<1>4. CASE SaveLands(c)
  <2>1. Goes(c, "version") /\ (call[c].target # call[c].page => call[c].target \in spoilt')
    BY <1>4 DEF SaveLands
  <2>2. /\ call'[c].pc = "version" /\ call'[c].target = call[c].target /\ call'[c].page = call[c].page
        /\ call'[c].answer = "none" /\ \A e \in Call \ {c} : call'[e] = call[e]
    BY <1>1, <1>2, <2>1 DEF Goes, CallsTyped, CallRecord, CallOK
  <2>3. HistOK(c)'
    BY <2>1, <2>2 DEF HistOK
  <2> QED BY <1>1, <1>3, <2>2, <2>3, HistStep
<1>5. CASE DeleteMoves(c) \/ RestoreMoves(c) \/ PurgeFinds(c)
  <2>1. (\E pc \in {"flush", "purging"} : Goes(c, pc)) \/ \E a \in {"ok", "refused"} : Ends(c, a)
    BY <1>5 DEF DeleteMoves, RestoreMoves, PurgeFinds, Indexes
  <2>2. call[c].kind # "save"
    BY <1>5 DEF DeleteMoves, RestoreMoves, PurgeFinds
  <2>3. /\ call'[c].pc \notin {"version", "manifest"} /\ call'[c].kind = call[c].kind
        /\ \A e \in Call \ {c} : call'[e] = call[e]
    BY <1>2, <2>1 DEF Goes, Ends, CallsTyped, CallRecord
  <2>4. HistOK(c)'
    BY <2>2, <2>3 DEF HistOK
  <2> QED BY <1>1, <1>3, <2>3, <2>4, HistStep
<1> QED BY <1>4, <1>5

(* Two calls at work on the history of one page are one. *)
LEMMA OneAtAHistory ==
  ASSUME PagesInv, HistInv, NEW c \in Call, NEW d \in Call, NEW p \in Page \ spoilt,
         call[c].target = p, call[d].target = p,
         call[c].pc \in {"version", "manifest"}, call[d].pc \in {"version", "manifest"}
  PROVE  c = d
<1>1. call[c].page = p /\ call[d].page = p
  BY DEF HistInv, HistOK
<1>2. InTurn(c) /\ InTurn(d)
  BY CallFacts DEF Busy
<1> QED BY <1>1, <1>2 DEF InTurn

LEMMA StartedKeepsHist ==
  ASSUME PagesInv, HistInv, NEW c \in Call, NEW list, NEW base, Makes(c, list, base)
  PROVE  HistInv'
<1> DEFINE p == call[c].target
           n == NextVersion(list)
           f == [base |-> base, text |-> c]
           s == snapshot[p]
           t == IF n > Len(s) THEN Append(s, f) ELSE [s EXCEPT ![n] = f]
<1>1. /\ call[c].pc = "version" /\ manifest' = manifest /\ snapshot' = [snapshot EXCEPT ![p] = t]
      /\ spoilt' = IF list = <<>> /\ manifest[p] # <<>> THEN spoilt \cup {p} ELSE spoilt
      /\ list \in {<<>>, manifest[p]} /\ (base = c \/ (list # <<>> /\ base = Last(list)))
  BY DEF Makes, Versions, Runs
<1> HIDE DEF t, f, n
<1>2. call[c] \in CallRecord /\ CallOK(call[c]) /\ p \in Page
  BY <1>1, CallFacts DEF CallOK
<1>3. call'[c] = [call[c] EXCEPT !.list = Append(list, c), !.pc = "manifest"] /\ \A e \in Call \ {c} : call'[e] = call[e]
  BY VersionMoves
<1>4. p \notin spoilt' => list = manifest[p]
  BY <1>1
<1>5. \A q \in Page \ {p} : snapshot'[q] = snapshot[q]
  BY <1>1 DEF PagesInv, StoresTyped
<1>6. snapshot'[p] = t
  BY <1>1, <1>2 DEF PagesInv, StoresTyped
<1>7. spoilt \subseteq spoilt'
  BY <1>1
<1>8. ASSUME p \notin spoilt'
      PROVE  LET m == Len(manifest[p])
             IN  /\ m \in Nat /\ m <= Len(s) /\ m + 1 <= Len(t) /\ t[m + 1].text = c
                 /\ m > 0 => t[m + 1].base \in {manifest[p][m], c}
                 /\ \A i \in 1 .. m : t[i] = s[i]
  <2> DEFINE m == Len(manifest[p])
  <2> USE DEF t, f, n
  <2>1. manifest[p] \in Seq(Text) /\ s \in Seq([base : Text, text : Text]) /\ Holds(p) /\ c \in Text
    BY <1>2, <1>7, <1>8 DEF PagesInv, StoresTyped, HistInv, Text
  <2>2. m \in Nat /\ m <= Len(s) /\ Len(s) \in Nat
    BY <2>1, LenProperties DEF Holds
  <2>3. n = m + 1 /\ n \in 1 .. Len(s) + 1
    BY <1>4, <1>8, <2>2, SMTT(30) DEF NextVersion
  <2>4. f \in [base : Text, text : Text] /\ f.text = c /\ (m > 0 => f.base \in {manifest[p][m], c})
    <3>1. list = manifest[p]
      BY <1>4, <1>8
    <3>2. CASE base = c
      BY <2>1, <3>2
    <3>3. CASE list # <<>> /\ base = Last(list)
      <4>1. m \in 1 .. m
        BY <2>1, <2>2, <3>1, <3>3, EmptySeq
      <4>2. manifest[p][m] \in Text
        BY <2>1, <4>1, ElementOfSeq
      <4>3. Last(list) = manifest[p][m]
        BY <3>1 DEF Last
      <4> QED BY <2>1, <3>3, <4>1, <4>2, <4>3
    <3>4. base = c \/ (list # <<>> /\ base = Last(list))
      BY <1>1
    <3> HIDE DEF f, m
    <3> QED BY <3>2, <3>3, <3>4
  <2>5. n <= Len(t) /\ t[n] = f /\ \A i \in 1 .. n - 1 : t[i] = s[i]
    <3> HIDE DEF f, n, s
    <3> QED BY <2>1, <2>3, <2>4, PutAt
  <2>6. \A i \in 1 .. m : i \in 1 .. n - 1
    BY <2>2, <2>3
  <2> HIDE DEF f, n, s, t
  <2> QED BY <2>2, <2>3, <2>4, <2>5, <2>6
<1> HIDE DEF s
<1>9. ASSUME NEW q \in Page \ spoilt' PROVE Holds(q)'
  <2>1. Holds(q)
    BY <1>7 DEF HistInv
  <2>2. CASE q # p
    BY <1>1, <1>5, <2>1, <2>2 DEF Holds
  <2>3. CASE q = p
    <3> DEFINE m == Len(manifest[p])
    <3>1. /\ m \in Nat /\ m <= Len(s) /\ m + 1 <= Len(t)
          /\ \A i \in 1 .. m : t[i] = s[i]
      BY <1>8, <2>3
    <3>2. DOMAIN manifest[p] = 1 .. m
      BY <1>2, LenProperties DEF PagesInv, StoresTyped
    <3>3. Len(t) \in Nat
      <4>1. snapshot' \in [Page -> Seq([base : Text, text : Text])]
        BY MadeTyped DEF PagesInv, StoresTyped
      <4> QED BY <1>2, <1>6, <4>1, LenProperties
    <3>4. m <= Len(t)
      BY <3>1, <3>3
    <3>5. ASSUME NEW v \in 1 .. m
          PROVE  t[v].text = manifest[p][v] /\ (v > 1 => t[v].base \in {t[v - 1].text, t[v].text})
      <4>1. s[v].text = manifest[p][v] /\ (v > 1 => s[v].base \in {s[v - 1].text, s[v].text})
        BY <2>1, <2>3, <3>2 DEF Holds, s
      <4>2. v > 1 => v - 1 \in 1 .. m
        BY <3>1
      <4> QED BY <3>1, <4>1, <4>2
    <3> QED BY <1>1, <1>6, <2>3, <3>2, <3>4, <3>5 DEF Holds
  <2> QED BY <2>2, <2>3
<1>10. ASSUME NEW d \in Call \ {c} PROVE HistOK(d)'
  <2>1. call'[d] = call[d] /\ HistOK(d)
    BY <1>3 DEF HistInv
  <2>2. CASE call[d].target # p
    BY <1>1, <1>5, <1>7, <2>1, <2>2 DEF HistOK
  <2>3. CASE call[d].target = p /\ p \notin spoilt'
    <3>1. call[d].pc # "manifest"
      BY <1>1, <1>2, <1>7, <2>3, OneAtAHistory
    <3> QED BY <1>1, <1>7, <2>1, <2>3, <3>1 DEF HistOK
  <2>4. CASE call[d].target = p /\ p \in spoilt'
    BY <2>1, <2>4 DEF HistOK
  <2> QED BY <2>2, <2>3, <2>4
<1>11. HistOK(c)'
  <2>1. /\ call'[c].pc = "manifest" /\ call'[c].target = p /\ call'[c].page = call[c].page
        /\ call'[c].list = Append(list, c) /\ call'[c].answer = "none"
    BY <1>1, <1>2, <1>3 DEF CallRecord, CallOK
  <2>2. CASE p \notin spoilt'
    <3>1. call[c].page = p
      BY <1>1, <1>2, <1>7, <2>2 DEF HistInv, HistOK
    <3> DEFINE m == Len(manifest[p])
    <3>2. m \in Nat /\ m + 1 <= Len(t) /\ t[m + 1].text = c /\ (m > 0 => t[m + 1].base \in {manifest[p][m], c})
      BY <1>8, <2>2
    <3>3. m + 1 - 1 = m /\ (m + 1 > 1 => m > 0)
      BY <3>2
    <3>4. manifest'[p] = manifest[p] /\ snapshot'[p] = t /\ list = manifest[p]
      BY <1>1, <1>4, <1>6, <2>2
    <3> DEFINE k == Len(manifest'[p]) + 1
    <3>5. /\ k <= Len(snapshot'[p]) /\ snapshot'[p][k].text = c
          /\ k > 1 => snapshot'[p][k].base \in {manifest'[p][k - 1], c}
      <4>1. k = m + 1
        BY <3>4
      <4> HIDE DEF m, k
      <4> QED BY <3>2, <3>3, <3>4, <4>1
    <3>6. call'[c].list = Append(manifest'[p], c)
      BY <2>1, <3>4
    <3> QED BY <2>1, <3>1, <3>5, <3>6 DEF HistOK
  <2>3. CASE p \in spoilt'
    BY <2>1, <2>3 DEF HistOK
  <2> QED BY <2>2, <2>3
<1> QED BY <1>9, <1>10, <1>11 DEF HistInv

LEMMA EndedKeepsHist ==
  ASSUME PagesInv, HistInv, NEW c \in Call, VersionEnds(c)
  PROVE  HistInv'
<1> DEFINE p == call[c].target
           m == Len(manifest[p])
<1>1. call[c].pc = "manifest" /\ UNCHANGED <<snapshot, spoilt>> /\ Goes(c, "flush")
      /\ manifest' = [manifest EXCEPT ![p] = call[c].list]
  BY DEF VersionEnds, Runs, Indexes
<1>2. call[c] \in CallRecord /\ CallOK(call[c]) /\ CallsTyped /\ p \in Page
  BY <1>1, CallFacts DEF CallOK, PagesInv
<1>3. /\ call'[c].pc = "flush" /\ call'[c].target = p /\ call'[c].answer = "none"
      /\ \A e \in Call \ {c} : call'[e] = call[e]
  BY <1>1, <1>2 DEF Goes, CallsTyped, CallRecord, CallOK
<1>4. manifest'[p] = call[c].list /\ \A q \in Page \ {p} : manifest'[q] = manifest[q]
  BY <1>1, <1>2 DEF PagesInv, StoresTyped
<1>5. ASSUME p \notin spoilt
      PROVE  /\ m \in Nat /\ DOMAIN manifest[p] = 1 .. m
             /\ Len(manifest'[p]) = m + 1 /\ DOMAIN manifest'[p] = 1 .. m + 1
             /\ manifest'[p][m + 1] = c /\ \A i \in 1 .. m : manifest'[p][i] = manifest[p][i]
  <2>1. manifest[p] \in Seq(Text) /\ c \in Text
    BY <1>2 DEF PagesInv, StoresTyped, Text
  <2>2. manifest'[p] = Append(manifest[p], c)
    BY <1>1, <1>2, <1>4, <1>5 DEF HistInv, HistOK
  <2> QED BY <2>1, <2>2, Lengthened
<1>6. ASSUME NEW q \in Page \ spoilt PROVE Holds(q)'
  <2>1. Holds(q)
    BY DEF HistInv
  <2>2. CASE q # p
    BY <1>1, <1>4, <2>1, <2>2 DEF Holds
  <2>3. CASE q = p
    <3>1. /\ m + 1 <= Len(snapshot[p]) /\ snapshot[p][m + 1].text = c
          /\ m + 1 > 1 => snapshot[p][m + 1].base \in {manifest[p][m], c}
      <4>1. m + 1 - 1 = m
        BY <1>5, <2>3
      <4> QED BY <1>1, <1>2, <2>3, <4>1 DEF HistInv, HistOK
    <3>2. ASSUME NEW v \in 1 .. m + 1
          PROVE  /\ snapshot[p][v].text = manifest'[p][v]
                 /\ v > 1 => snapshot[p][v].base \in {snapshot[p][v - 1].text, snapshot[p][v].text}
      <4>1. CASE v \in 1 .. m
        BY <1>5, <2>1, <2>3, <4>1 DEF Holds
      <4>2. CASE v = m + 1
        <5>1. v > 1 => m \in 1 .. m /\ v - 1 = m
          BY <1>5, <2>3, <4>2
        <5>2. v > 1 => snapshot[p][m].text = manifest[p][m]
          BY <1>5, <2>1, <2>3, <5>1 DEF Holds
        <5> QED BY <1>5, <2>3, <3>1, <4>2, <5>1, <5>2
      <4> QED BY <1>5, <2>3, <4>1, <4>2
    <3> QED BY <1>1, <1>5, <2>3, <3>1, <3>2 DEF Holds
  <2> QED BY <2>2, <2>3
<1>7. ASSUME NEW d \in Call \ {c} PROVE HistOK(d)'
  <2>1. call'[d] = call[d] /\ HistOK(d)
    BY <1>3 DEF HistInv
  <2>2. CASE call[d].target # p
    BY <1>1, <1>4, <2>1, <2>2 DEF HistOK
  <2>3. CASE call[d].target = p /\ p \notin spoilt
    <3>1. call[d].pc # "manifest"
      BY <1>1, <1>2, <2>3, OneAtAHistory
    <3>2. \A v \in DOMAIN manifest[p] : v \in DOMAIN manifest'[p] /\ manifest'[p][v] = manifest[p][v]
      <4>1. m \in Nat /\ DOMAIN manifest[p] = 1 .. m /\ DOMAIN manifest'[p] = 1 .. m + 1
            /\ \A i \in 1 .. m : manifest'[p][i] = manifest[p][i]
        BY <1>5, <2>3
      <4> HIDE DEF m
      <4> QED BY <4>1
    <3> QED BY <1>1, <2>1, <2>3, <3>1, <3>2, SMTT(30) DEF HistOK
  <2>4. CASE call[d].target = p /\ p \in spoilt
    BY <1>1, <2>1, <2>4 DEF HistOK
  <2> QED BY <2>2, <2>3, <2>4
<1>8. HistOK(c)'
  <2>1. p \notin spoilt => m + 1 \in DOMAIN manifest'[p] /\ manifest'[p][m + 1] = c
    BY <1>5
  <2> HIDE DEF m
  <2> QED BY <1>1, <1>3, <2>1 DEF HistOK
<1> QED BY <1>1, <1>6, <1>7, <1>8 DEF HistInv

(* A version that could not be written is nobody's: its save goes on with  *)
(* an empty list.                                                          *)
LEMMA FailedKeepsHist ==
  ASSUME PagesInv, HistInv, NEW c \in Call, VersionFails(c)
  PROVE  HistInv'
<1>1. call' = [call EXCEPT ![c].pc = "flush", ![c].list = <<>>] /\ UNCHANGED <<manifest, snapshot, spoilt>>
  BY DEF VersionFails, disk
<1>2. call[c] \in CallRecord /\ CallsTyped
  BY CallFacts DEF PagesInv
<1>3. call'[c].pc = "flush" /\ call'[c].list = <<>> /\ \A e \in Call \ {c} : call'[e] = call[e]
  BY <1>1, <1>2 DEF CallsTyped, CallRecord
<1>4. HistOK(c)'
  BY <1>3 DEF HistOK
<1> QED BY <1>1, <1>3, <1>4, HistStep

LEMMA PurgedKeepsHist ==
  ASSUME PagesInv, HistInv, NEW c \in Call, PurgeEnds(c)
  PROVE  HistInv'
<1> DEFINE p == call[c].page
<1>1. call[c].pc = "purging" /\ Goes(c, "flush")
  BY DEF PurgeEnds, Runs, Indexes
<1>2. call[c] \in CallRecord /\ CallOK(call[c]) /\ CallsTyped /\ call[c].kind = "purge" /\ p \in Page
  BY <1>1, CallFacts DEF CallOK, PagesInv
<1>3. /\ call'[c].pc = "flush" /\ call'[c].kind = "purge" /\ \A e \in Call \ {c} : call'[e] = call[e]
  BY <1>1, <1>2 DEF Goes, CallsTyped, CallRecord
<1>4. HistOK(c)'
  BY <1>3 DEF HistOK
<1>5. CASE UNCHANGED <<manifest, snapshot, spoilt>>
  BY <1>3, <1>4, <1>5, HistStep
<1>6. CASE /\ manifest' = [manifest EXCEPT ![p] = <<>>] /\ snapshot' = [snapshot EXCEPT ![p] = <<>>]
           /\ spoilt' = spoilt \cup {p}
  <2>1. \A q \in Page \ {p} : manifest'[q] = manifest[q] /\ snapshot'[q] = snapshot[q]
    BY <1>6 DEF PagesInv, StoresTyped
  <2>2. \A q \in Page \ spoilt' : q # p /\ q \in Page \ spoilt
    BY <1>6
  <2>3. \A q \in Page \ spoilt' : Holds(q)'
    BY <2>1, <2>2 DEF HistInv, Holds
  <2>4. ASSUME NEW d \in Call \ {c} PROVE HistOK(d)'
    <3>1. HistOK(d) /\ call'[d] = call[d]
      BY <1>3 DEF HistInv
    <3> DEFINE t == call[d].target
    <3>2. CASE t \in Page \ spoilt'
      <4>1. t \in Page \ spoilt /\ manifest'[t] = manifest[t] /\ snapshot'[t] = snapshot[t]
        BY <2>1, <2>2, <3>2
      <4> QED BY <3>1, <4>1 DEF HistOK
    <3>3. CASE t \notin Page \ spoilt'
      BY <3>1, <3>3 DEF HistOK
    <3> QED BY <3>2, <3>3
  <2> QED BY <1>4, <2>3, <2>4 DEF HistInv
<1> QED BY <1>5, <1>6 DEF PurgeEnds

(* The write of the index of a save is over: its version was listed before. *)
LEMMA WriteKeepsHist ==
  ASSUME PagesInv, HistInv, writes # <<>>, NEW answer \in {"ok", "failed"},
         Ends(writes[1].by, answer), UNCHANGED <<manifest, snapshot, spoilt>>
  PROVE  HistInv'
<1>1. 1 \in DOMAIN writes
  BY EmptySeq, LenProperties DEF PagesInv, WritesInv
<1>2. PICK b \in Call : b = writes[1].by /\ call[b].pc = "flush"
  BY <1>1, Writers DEF PagesInv, WritesInv
<1>3. call[b] \in CallRecord /\ CallsTyped
  BY <1>2, CallFacts DEF PagesInv
<1>4. call' = [call EXCEPT ![b].pc = "done", ![b].answer = answer]
  BY <1>2 DEF Ends
<1>5. /\ call'[b].pc = "done" /\ call'[b].target = call[b].target /\ call'[b].kind = call[b].kind
      /\ call'[b].list = call[b].list /\ \A e \in Call \ {b} : call'[e] = call[e]
  BY <1>2, <1>3, <1>4 DEF CallsTyped, CallRecord
<1>6. HistOK(b)'
  <2>1. HistOK(b)
    BY <1>2 DEF HistInv
  <2> QED BY <1>2, <1>5, <2>1 DEF HistOK
<1> QED BY <1>2, <1>5, <1>6, HistStep

LEMMA KillKeepsHist ==
  ASSUME PagesInv, HistInv, StartsUp \/ Killed
  PROVE  HistInv'
<1>1. UNCHANGED <<manifest, snapshot, spoilt>>
  BY DEF StartsUp, Killed, disk, history
<1>2. ASSUME NEW c \in Call
      PROVE  \/ call'[c] = call[c]
             \/ /\ call'[c].target = call[c].target /\ call'[c].kind = call[c].kind
                /\ call'[c].pc = "done" /\ call'[c].answer = "cut"
  <2>1. CASE StartsUp
    BY <2>1 DEF StartsUp
  <2>2. CASE Killed
    <3>1. call'[c] = IF call[c].pc \in {"new", "done"} THEN call[c]
                     ELSE [call[c] EXCEPT !.pc = "done", !.answer = "cut"]
      BY <2>2 DEF Killed
    <3> QED BY <3>1, CallFacts DEF CallRecord
  <2> QED BY <2>1, <2>2
<1>3. ASSUME NEW c \in Call PROVE HistOK(c)'
  <2>1. HistOK(c)
    BY DEF HistInv
  <2> QED BY <1>1, <1>2, <2>1 DEF HistOK
<1>4. \A p \in Page \ spoilt' : Holds(p)'
  BY <1>1 DEF HistInv, Holds
<1> QED BY <1>3, <1>4 DEF HistInv

LEMMA StepKeepsHist == PagesInv /\ HistInv /\ [Next]_vars => HistInv'
<1> SUFFICES ASSUME PagesInv, HistInv, [Next]_vars PROVE HistInv'
  OBVIOUS
<1>1. ASSUME NEW c \in Call,
             \/ \E name, title \in Title : SaveAsks(c, name, title)
             \/ SaveChecks(c) \/ SaveFinds(c) \/ SaveWrites(c)
             \/ \E name \in Title : DeleteAsks(c, name)
             \/ DeleteQueues(c) \/ DeleteFinds(c) \/ MoveFails(c)
             \/ \E kind \in {"restore", "purge"}, p \in Page : TrashAsks(c, kind, p)
             \/ RestoreFinds(c)
      PROVE  HistInv'
  <2>1. /\ UNCHANGED <<manifest, snapshot, spoilt>> /\ \A e \in Call \ {c} : call'[e] = call[e]
        /\ call'[c].pc \notin {"version", "manifest", "flush"} /\ call'[c].answer # "ok"
    BY <1>1, QuietMoves DEF disk, history
  <2>2. HistOK(c)'
    BY <2>1 DEF HistOK
  <2> QED BY <2>1, <2>2, HistStep
<1>2. ASSUME NEW c \in Call, SaveLands(c) \/ DeleteMoves(c) \/ RestoreMoves(c) \/ PurgeFinds(c) PROVE HistInv'
  BY <1>2, MoveKeepsHist
<1>3. ASSUME NEW c \in Call, \/ VersionStarts(c) \/ VersionMisreads(c) \/ VersionEnds(c) \/ VersionFails(c)
                              \/ PurgeEnds(c)
      PROVE  HistInv'
  BY <1>3, VersionMade, StartedKeepsHist, EndedKeepsHist, FailedKeepsHist, PurgedKeepsHist
<1>4. ASSUME NEW i \in NextWrite, IndexLands(i) PROVE HistInv'
  <2>1. writes # <<>> /\ i = 1
    BY <1>4, IndexLandsTyped
  <2>2. Ends(writes[1].by, "ok") /\ UNCHANGED <<manifest, snapshot, spoilt>>
    BY <1>4, <2>1 DEF IndexLands, disk, history
  <2> QED BY <2>1, <2>2, WriteKeepsHist
<1>5. CASE IndexFails
  <2>1. writes # <<>> /\ Ends(Head(writes).by, "failed") /\ UNCHANGED <<manifest, snapshot, spoilt>>
    BY <1>5 DEF IndexFails, disk, history
  <2>2. Head(writes) = writes[1]
    BY <2>1, Shortened DEF PagesInv, WritesInv
  <2> QED BY <2>1, <2>2, WriteKeepsHist
<1>6. CASE StartsUp \/ Killed
  BY <1>6, KillKeepsHist
<1>7. CASE UNCHANGED vars
  BY <1>7 DEF vars, disk, history, HistInv, HistOK, Holds
<1> QED BY <1>1, <1>2, <1>3, <1>4, <1>5, <1>6, <1>7 DEF Next

LEMMA InitHist == Init => HistInv
<1> SUFFICES ASSUME Init PROVE HistInv
  OBVIOUS
<1>1. \A c \in Call : call[c].pc = "new" /\ call[c].answer = "none"
  BY DEF Init, NewCall
<1>2. \A c \in Call : HistOK(c)
  BY <1>1 DEF HistOK
<1>3. ASSUME NEW p \in Page PROVE Holds(p)
  <2> DEFINE v == [base |-> First, text |-> First]
  <2>1. /\ manifest[p] = IF p = Main THEN <<First>> ELSE <<>>
        /\ snapshot[p] = IF p = Main THEN <<v>> ELSE <<>>
    BY DEF Init
  <2>2. v.text = First
    OBVIOUS
  <2> HIDE DEF v
  <2>3. CASE p = Main
    <3>1. /\ Len(manifest[p]) = 1 /\ Len(snapshot[p]) = 1 /\ DOMAIN manifest[p] = 1 .. 1
          /\ manifest[p][1] = First /\ snapshot[p][1] = v
      BY <2>1, <2>3
    <3> QED BY <2>2, <3>1 DEF Holds
  <2>4. CASE p # Main
    BY <2>1, <2>4, EmptySeq DEF Holds
  <2> QED BY <2>3, <2>4
<1> QED BY <1>2, <1>3 DEF HistInv

(* A save that was answered and whose version did not fail stays in the    *)
(* history of its page, whatever is saved, deleted, restored, cut off or   *)
(* left unwritten, and every version of the page can be read back unless   *)
(* one was made from a text that could not be read; unless the history was *)
(* purged or begun anew, or the page was written by a call that had waited *)
(* for another page.                                                       *)
THEOREM SavedStaysInHistory == Spec => []SavedIsInHistory
<1>1. Init => PagesInv /\ HistInv
  BY InitPages, InitHist
<1>2. PagesInv /\ HistInv /\ [Next]_vars => PagesInv' /\ HistInv'
  BY StepKeepsPages, StepKeepsHist
<1>3. PagesInv /\ HistInv => SavedIsInHistory
  <2> SUFFICES ASSUME PagesInv, HistInv, NEW c \in Call, call[c].kind = "save", call[c].answer = "ok",
                      call[c].list # <<>>, call[c].target \notin spoilt
               PROVE  /\ \E v \in DOMAIN manifest[call[c].target] : manifest[call[c].target][v] = c
                      /\ Reads(call[c].target) \/ Misread(call[c].target)
    BY DEF SavedIsInHistory
  <2> DEFINE p == call[c].target
  <2>1. CallOK(call[c])
    BY CallFacts
  <2>2. p \in Page
    BY <2>1 DEF CallOK
  <2>3. Holds(p) /\ \E v \in DOMAIN manifest[p] : manifest[p][v] = c
    BY <2>2 DEF HistInv, HistOK
  <2>4. DOMAIN manifest[p] \subseteq DOMAIN snapshot[p]
    <3>1. /\ Len(manifest[p]) \in Nat /\ DOMAIN manifest[p] = 1 .. Len(manifest[p])
          /\ Len(snapshot[p]) \in Nat /\ DOMAIN snapshot[p] = 1 .. Len(snapshot[p])
      BY <2>2, LenProperties DEF PagesInv, StoresTyped
    <3> QED BY <2>3, <3>1 DEF Holds
  <2>5. Reads(p) \/ Misread(p)
    BY <2>3, <2>4 DEF Holds, Reads, Misread
  <2> QED BY <2>3, <2>5
<1> QED BY <1>1, <1>2, <1>3, PTL DEF Spec
-----------------------------------------------------------------------------
(* What was saved is what its title serves *)

Listed(ix, p, t) == ix.live[p] = t /\ \A q \in Page \ {p} : ix.live[q] # t

(* The text of the save is its page's, and nothing was spoilt. *)
Keeps(c) == /\ call[c].kind = "save"
            /\ call[c].target \in Page \ (spoilt \cup ousted)
            /\ file[call[c].target] = [title |-> call[c].title, text |-> c]

(* How far such a save is with its title: the lookups have it, the index   *)
(* has it, every write from its own one on has it, and so has the disk.    *)
ServedOK(c) ==
  LET p == call[c].target
      t == call[c].title
  IN  Keeps(c) =>
        /\ mode = "up" /\ (call[c].pc \in {"version", "manifest", "flush"} \/ call[c].answer = "ok") => byTitle[t] = p
        /\ mode = "up" /\ (call[c].pc = "flush" \/ call[c].answer = "ok") => Listed(index, p, t)
        /\ call[c].pc = "flush" => \E i \in DOMAIN writes :
             writes[i].by = c /\ \A j \in DOMAIN writes : i <= j => Listed(writes[j].ix, p, t)
        /\ call[c].answer = "ok" => Listed(stored, p, t) /\ \A j \in DOMAIN writes : Listed(writes[j].ix, p, t)

(* A save that has not written the index yet: nobody else's text is in its *)
(* page.                                                                   *)
LandedOK(c) ==
  call[c].pc \in {"version", "manifest"} /\ call[c].target \notin spoilt => file[call[c].target].text \in {c, First}

ServedInv == \A c \in Call : ServedOK(c) /\ LandedOK(c)

(* A step of another call that leaves the title with the page. *)
LEMMA ServedStays ==
  ASSUME PagesInv, PagesInv', NEW c \in Call, ServedOK(c), call'[c] = call[c], mode = "up", mode' = mode, stored' = stored,
         writes' = writes \/ \E e \in Call : writes' = Append(writes, [by |-> e, ix |-> index']),
         Keeps(c)' => /\ Keeps(c)
                      /\ byTitle[call[c].title] = call[c].target => byTitle'[call[c].title] = call[c].target
                      /\ Listed(index, call[c].target, call[c].title) => Listed(index', call[c].target, call[c].title)
  PROVE  ServedOK(c)'
<1> SUFFICES ASSUME Keeps(c)' PROVE ServedOK(c)'
  BY DEF ServedOK
<1>1. PICK p \in Page, t \in Title : p = call[c].target /\ t = call[c].title
  BY CallFacts DEF Keeps, CallRecord
<1>2. /\ Keeps(c)
      /\ byTitle[t] = p => byTitle'[t] = p
      /\ Listed(index, p, t) => Listed(index', p, t)
  BY <1>1
<1>3. /\ call[c].pc \in {"version", "manifest", "flush"} \/ call[c].answer = "ok" => byTitle'[t] = p
      /\ call[c].pc = "flush" \/ call[c].answer = "ok" => Listed(index', p, t)
      /\ call[c].pc = "flush" => \E i \in DOMAIN writes :
           writes[i].by = c /\ \A j \in DOMAIN writes : i <= j => Listed(writes[j].ix, p, t)
      /\ call[c].answer = "ok" => Listed(stored, p, t) /\ \A j \in DOMAIN writes : Listed(writes[j].ix, p, t)
  BY <1>1, <1>2 DEF ServedOK
<1>4. CASE writes' = writes
  BY <1>1, <1>3, <1>4 DEF ServedOK, Listed
<1>5. CASE \E e \in Call : writes' = Append(writes, [by |-> e, ix |-> index'])
  <2>1. PICK e \in Call : writes' = Append(writes, [by |-> e, ix |-> index'])
    BY <1>5
  <2> DEFINE w == [by |-> e, ix |-> index']
             n == Len(writes)
  <2>2. writes \in Seq([by : Call, ix : Index]) /\ w \in [by : Call, ix : Index] /\ w.ix = index'
    BY DEF PagesInv, WritesInv, StoresTyped
  <2>3. writes' = Append(writes, w)
    BY <2>1
  <2> HIDE DEF w
  <2>4. /\ n \in Nat /\ DOMAIN writes = 1 .. n /\ DOMAIN writes' = 1 .. n + 1
        /\ writes'[n + 1] = w /\ \A i \in 1 .. n : writes'[i] = writes[i]
    BY <2>2, <2>3, Lengthened
  <2> HIDE DEF n
  <2>5. \A j \in 1 .. n + 1 : j \in 1 .. n \/ j = n + 1
    BY <2>4
  <2>6. call[c].pc = "flush" => \E i \in DOMAIN writes' :
          writes'[i].by = c /\ \A j \in DOMAIN writes' : i <= j => Listed(writes'[j].ix, p, t)
    <3> SUFFICES ASSUME call[c].pc = "flush"
                 PROVE  \E i \in DOMAIN writes' :
                          writes'[i].by = c /\ \A j \in DOMAIN writes' : i <= j => Listed(writes'[j].ix, p, t)
      OBVIOUS
    <3>1. PICK i \in DOMAIN writes : writes[i].by = c /\ \A j \in DOMAIN writes : i <= j => Listed(writes[j].ix, p, t)
      BY <1>3
    <3>2. i \in DOMAIN writes' /\ writes'[i].by = c
      BY <2>4, <3>1
    <3>3. \A j \in DOMAIN writes' : i <= j => Listed(writes'[j].ix, p, t)
      BY <1>3, <2>2, <2>4, <2>5, <3>1
    <3> QED BY <3>2, <3>3
  <2>7. call[c].answer = "ok" => \A j \in DOMAIN writes' : Listed(writes'[j].ix, p, t)
    BY <1>3, <2>2, <2>4, <2>5
  <2> QED BY <1>1, <1>3, <2>6, <2>7 DEF ServedOK, Listed
<1> QED BY <1>4, <1>5

(* A step of another call: nothing of it is where the save is. *)
LEMMA LandedStays ==
  ASSUME NEW c \in Call, LandedOK(c), call'[c] = call[c], spoilt \subseteq spoilt',
         call[c].pc \in {"version", "manifest"} /\ call[c].target \notin spoilt' =>
           file'[call[c].target] = file[call[c].target] \/ file'[call[c].target] = NoFile
  PROVE  LandedOK(c)'
BY DEF LandedOK, NoFile

(* The actors of a step that is no save's, or ends one. *)
LEMMA ServedNot ==
  ASSUME NEW c \in Call, call'[c].kind # "save" \/ (call'[c].pc \notin {"version", "manifest", "flush"}
                                                    /\ call'[c].answer # "ok")
  PROVE  ServedOK(c)'
BY DEF ServedOK, Keeps

LEMMA LandsServed ==
  ASSUME PagesInv, PagesInv', HistInv, ServedInv, NEW e \in Call, SaveLands(e)
  PROVE  ServedInv'
<1>1. /\ mode = "up" /\ mode' = mode /\ call[e].pc = "landing" /\ stored' = stored /\ writes' = writes /\ index' = index
  BY DEF SaveLands, Runs
<1>2. call[e] \in CallRecord /\ CallOK(call[e]) /\ call[e].target \in Page
  BY <1>1, CallFacts DEF CallOK
<1>3. /\ call'[e].pc = "version" /\ call'[e].target = call[e].target /\ call'[e].title = call[e].title
      /\ call'[e].kind = call[e].kind /\ call'[e].answer = "none" /\ \A c \in Call \ {e} : call'[c] = call[c]
  BY <1>1, <1>2 DEF SaveLands, Goes, PagesInv, CallsTyped, CallRecord, CallOK
<1>4. /\ file' = [p \in Page |-> IF p = call[e].target THEN [title |-> call[e].title, text |-> e]
                                 ELSE IF p = call[e].old THEN NoFile ELSE file[p]]
      /\ byTitle' = [t \in Title |-> IF t = call[e].title THEN call[e].target
                                     ELSE IF t = call[e].name /\ call[e].old # NoPage THEN NoPage ELSE byTitle[t]]
      /\ spoilt' = Twinned(e) \cup (IF call[e].target # call[e].page THEN {call[e].target} ELSE {})
      /\ ousted' = (ousted \ {call[e].target}) \cup (IF call[e].old # NoPage THEN Ousted(e) ELSE {})
  BY DEF SaveLands
<1>5. ServedOK(e)' /\ LandedOK(e)'
  <2>1. byTitle'[call[e].title] = call[e].target /\ file'[call[e].target].text = e
    BY <1>2, <1>4 DEF CallRecord
  <2> QED BY <1>3, <2>1 DEF ServedOK, LandedOK
<1>6. ASSUME NEW c \in Call \ {e} PROVE ServedOK(c)'
  <2>1. call'[c] = call[c] /\ call[c] \in CallRecord
    BY <1>3, CallFacts
  <2>2. ASSUME Keeps(c)'
        PROVE  /\ Keeps(c)
               /\ byTitle[call[c].title] = call[c].target => byTitle'[call[c].title] = call[c].target
    <3>1. PICK p \in Page, t \in Title : p = call[c].target /\ t = call[c].title
      BY <2>1, <2>2 DEF Keeps, CallRecord
    <3>2. call[c].kind = "save" /\ p \notin spoilt' /\ p \notin ousted' /\ file'[p] = [title |-> t, text |-> c]
      BY <2>1, <2>2, <3>1 DEF Keeps
    <3>3. p # call[e].target
      BY <1>4, <3>2
    <3>4. file'[p] = file[p]
      BY <1>4, <3>2, <3>3, NamesAssumption DEF NoFile
    <3>5. Keeps(c)
      BY <1>4, <3>1, <3>2, <3>3, <3>4 DEF Keeps, Twinned
    <3>6. t # call[e].title
      BY <1>4, <3>2, <3>3, <3>4 DEF Twinned, Twins
    <3>7. t = call[e].name /\ call[e].old # NoPage => byTitle[t] # p
      BY <1>4, <3>2, <3>3, NamesAssumption DEF Ousted
    <3> QED BY <1>4, <3>1, <3>5, <3>6, <3>7
  <2>3. Listed(index, call[c].target, call[c].title) => Listed(index', call[c].target, call[c].title)
    BY <1>1
  <2>4. ServedOK(c)
    BY DEF ServedInv
  <2> QED BY <1>1, <2>1, <2>2, <2>3, <2>4, ServedStays
<1>7. ASSUME NEW c \in Call \ {e} PROVE LandedOK(c)'
  <2>1. call'[c] = call[c] /\ LandedOK(c) /\ HistOK(c)
    BY <1>3 DEF ServedInv, HistInv
  <2>2. ASSUME call[c].pc \in {"version", "manifest"}, call[c].target \notin spoilt'
        PROVE  file'[call[c].target] = file[call[c].target] \/ file'[call[c].target] = NoFile
    <3>1. call[c].target \in Page /\ call[c].page = call[c].target /\ InTurn(c)
      BY <1>4, <2>1, <2>2, CallFacts DEF HistOK, CallOK, Busy, Twinned
    <3>2. call[c].target # call[e].target
      BY <1>1, <1>4, <2>2, <3>1, CallFacts DEF InTurn, Busy
    <3> QED BY <1>4, <3>1, <3>2
  <2> QED BY <1>4, <2>1, <2>2, LandedStays DEF Twinned
<1> QED BY <1>5, <1>6, <1>7 DEF ServedInv

LEMMA StartedServed ==
  ASSUME PagesInv, PagesInv', ServedInv, NEW e \in Call, NEW list, NEW base, Makes(e, list, base)
  PROVE  ServedInv'
<1>1. /\ mode = "up" /\ mode' = mode /\ call[e].pc = "version" /\ stored' = stored /\ writes' = writes /\ index' = index
      /\ file' = file /\ byTitle' = byTitle /\ ousted' = ousted /\ spoilt \subseteq spoilt'
  BY DEF Makes, Versions, Runs, names
<1>2. /\ call'[e].pc = "manifest" /\ call'[e].target = call[e].target /\ call'[e].title = call[e].title
      /\ call'[e].kind = call[e].kind /\ call'[e].answer = "none" /\ \A c \in Call \ {e} : call'[c] = call[c]
  <2>1. call[e] \in CallRecord /\ call[e].answer = "none"
    BY <1>1, CallFacts DEF CallOK
  <2> DEFINE new  == Append(list, e)
  <2>2. call'[e] = [call[e] EXCEPT !.list = new, !.pc = "manifest"] /\ \A c \in Call \ {e} : call'[c] = call[c]
    BY VersionMoves
  <2> HIDE DEF new
  <2> QED BY <2>1, <2>2 DEF CallRecord
<1>3. ServedOK(e)' /\ LandedOK(e)'
  <2>1. ServedOK(e) /\ LandedOK(e)
    BY DEF ServedInv
  <2> QED BY <1>1, <1>2, <2>1 DEF ServedOK, LandedOK, Keeps
<1>4. ASSUME NEW c \in Call \ {e} PROVE ServedOK(c)' /\ LandedOK(c)'
  <2>1. ServedOK(c) /\ LandedOK(c)
    BY DEF ServedInv
  <2>2. Keeps(c)' => Keeps(c)
    BY <1>1, <1>2 DEF Keeps
  <2>3. Listed(index, call[c].target, call[c].title) => Listed(index', call[c].target, call[c].title)
    BY <1>1
  <2> QED BY <1>1, <1>2, <2>1, <2>2, <2>3, ServedStays, LandedStays
<1> QED BY <1>3, <1>4 DEF ServedInv

(* What an Indexes does to its call. *)
LEMMA IndexesWhat ==
  ASSUME PagesInv, NEW e \in Call, NEW x, Indexes(e, x)
  PROVE  /\ index' = x /\ writes' = Append(writes, [by |-> e, ix |-> index'])
         /\ call'[e].pc = "flush" /\ call'[e].target = call[e].target /\ call'[e].title = call[e].title
         /\ call'[e].kind = call[e].kind /\ call'[e].answer = call[e].answer
         /\ \A c \in Call \ {e} : call'[c] = call[c]
<1>1. call[e] \in CallRecord /\ CallsTyped
  BY CallFacts DEF PagesInv
<1> QED BY <1>1 DEF Indexes, Queued, Goes, CallsTyped, CallRecord

(* The newest write of the index is the last. *)
LEMMA LastWrite ==
  ASSUME PagesInv, PagesInv', NEW e \in Call, writes' = Append(writes, [by |-> e, ix |-> index'])
  PROVE  \E i \in DOMAIN writes' : writes'[i].by = e /\ \A j \in DOMAIN writes' : i <= j => writes'[j].ix = index'
<1> DEFINE w == [by |-> e, ix |-> index']
           n == Len(writes)
<1>1. writes \in Seq([by : Call, ix : Index]) /\ w \in [by : Call, ix : Index] /\ w.ix = index' /\ w.by = e
  BY DEF PagesInv, WritesInv, StoresTyped
<1>2. writes' = Append(writes, w)
  OBVIOUS
<1> HIDE DEF w
<1>3. n \in Nat /\ DOMAIN writes' = 1 .. n + 1 /\ writes'[n + 1] = w
  BY <1>1, <1>2, Lengthened
<1> HIDE DEF n
<1>4. n + 1 \in DOMAIN writes' /\ \A j \in DOMAIN writes' : n + 1 <= j => j = n + 1
  BY <1>3
<1> QED BY <1>1, <1>3, <1>4

LEMMA EndedServed ==
  ASSUME PagesInv, PagesInv', HistInv, ServedInv, NEW e \in Call, VersionEnds(e) \/ VersionFails(e)
  PROVE  ServedInv'
<1> DEFINE q == call[e].target
           s == call[e].title
<1>1. /\ mode = "up" /\ mode' = mode /\ call[e].pc \in {"version", "manifest"} /\ stored' = stored
      /\ file' = file /\ byTitle' = byTitle /\ spoilt' = spoilt /\ Queued(e, Retitled(q, s))
      /\ ousted' = ousted \cup {p \in Twins(e) : index.live[p] = s}
      /\ Goes(e, "flush") \/ call' = [call EXCEPT ![e].pc = "flush", ![e].list = <<>>]
  BY DEF VersionEnds, VersionFails, Runs, names, disk, Indexes, Supplanted
<1>2. call[e] \in CallRecord /\ CallOK(call[e]) /\ q \in Page /\ s \in Title /\ call[e].answer = "none"
  BY <1>1, CallFacts DEF CallOK, CallRecord
<1>3. /\ index' = Retitled(q, s) /\ writes' = Append(writes, [by |-> e, ix |-> index'])
      /\ call'[e].pc = "flush" /\ call'[e].target = q /\ call'[e].title = s
      /\ call'[e].kind = call[e].kind /\ call'[e].answer = "none" /\ \A c \in Call \ {e} : call'[c] = call[c]
  BY <1>1, <1>2 DEF Queued, Goes, PagesInv, CallsTyped, CallRecord
<1>4. index'.live = [p \in Page |-> IF p = q THEN s ELSE IF index.live[p] = s THEN NoTitle ELSE index.live[p]]
  BY <1>3 DEF Retitled, PagesInv, StoresTyped, Index
<1> HIDE DEF q, s
<1>5. ServedOK(e)' /\ LandedOK(e)'
  <2>1. LandedOK(e)'
    BY <1>3 DEF LandedOK
  <2>2. Listed(index', q, s)
    BY <1>2, <1>4, NamesAssumption DEF Listed
  <2>3. \E i \in DOMAIN writes' : writes'[i].by = e /\ \A j \in DOMAIN writes' : i <= j => Listed(writes'[j].ix, q, s)
    BY <1>3, <2>2, LastWrite
  <2>4. Keeps(e)' => byTitle'[s] = q
    <3>1. ServedOK(e) /\ (Keeps(e)' => Keeps(e))
      BY <1>1, <1>3 DEF ServedInv, Keeps, q, s
    <3> QED BY <1>1, <3>1 DEF ServedOK, q, s
  <2> QED BY <1>3, <2>1, <2>2, <2>3, <2>4 DEF ServedOK, Listed
<1>6. ASSUME NEW c \in Call \ {e} PROVE ServedOK(c)'
  <2>1. call'[c] = call[c] /\ call[c] \in CallRecord /\ ServedOK(c) /\ (Keeps(c)' => Keeps(c))
    BY <1>1, <1>3, CallFacts DEF ServedInv, Keeps
  <2>2. ASSUME Keeps(c)', Listed(index, call[c].target, call[c].title)
        PROVE  Listed(index', call[c].target, call[c].title)
    <3>1. PICK p \in Page, t \in Title : p = call[c].target /\ t = call[c].title
      BY <2>1, <2>2 DEF Keeps, CallRecord
    <3>2. p \notin spoilt' /\ p \notin ousted' /\ file[p] = [title |-> t, text |-> c]
      BY <1>1, <2>1, <2>2, <3>1 DEF Keeps
    <3>3. p # q
      <4>1. LandedOK(e)
        BY DEF ServedInv
      <4> QED BY <1>1, <3>2, <4>1, NamesAssumption DEF LandedOK, q
    <3>4. index.live[p] = t /\ \A r \in Page \ {p} : index.live[r] # t
      BY <2>2, <3>1 DEF Listed
    <3>5. t # s
      BY <1>1, <3>2, <3>3, <3>4 DEF Twins, q, s
    <3> QED BY <1>4, <3>1, <3>3, <3>4, <3>5, NamesAssumption DEF Listed
  <2> QED BY <1>1, <1>3, <2>1, <2>2, ServedStays
<1>7. ASSUME NEW c \in Call \ {e} PROVE LandedOK(c)'
  <2>1. LandedOK(c)
    BY DEF ServedInv
  <2> QED BY <1>1, <1>3, <2>1, LandedStays
<1> QED BY <1>5, <1>6, <1>7 DEF ServedInv

LEMMA DeletedServed ==
  ASSUME PagesInv, PagesInv', ServedInv, NEW e \in Call, DeleteMoves(e)
  PROVE  ServedInv'
<1> DEFINE q == call[e].target
<1>1. /\ mode = "up" /\ mode' = mode /\ call[e].pc = "moving" /\ call[e].kind = "delete" /\ stored' = stored
      /\ file' = [file EXCEPT ![q] = NoFile] /\ byTitle' = [byTitle EXCEPT ![call[e].name] = NoPage]
      /\ spoilt' = spoilt /\ ousted' = ousted \cup Ousted(e)
      /\ \/ Indexes(e, Buried(q))
         \/ Ends(e, "ok") /\ index' = index /\ writes' = writes
  BY DEF DeleteMoves, Runs
<1>2. call[e] \in CallRecord /\ CallOK(call[e]) /\ q \in Page /\ CallsTyped
  BY <1>1, CallFacts DEF CallOK, PagesInv
<1>3. /\ call'[e].kind = "delete" /\ call'[e].pc \in {"flush", "done"} /\ \A c \in Call \ {e} : call'[c] = call[c]
      /\ writes' = writes \/ writes' = Append(writes, [by |-> e, ix |-> index'])
  <2>1. CASE Indexes(e, Buried(q))
    BY <1>1, <2>1, IndexesWhat
  <2>2. CASE Ends(e, "ok") /\ writes' = writes
    BY <1>1, <1>2, <2>2 DEF Ends, CallsTyped, CallRecord
  <2> QED BY <1>1, <2>1, <2>2
<1>4. \A p \in Page \ {q} : index'.live[p] = index.live[p]
  <2>1. CASE Indexes(e, Buried(q))
    BY <2>1 DEF Indexes, Queued, Buried, PagesInv, StoresTyped, Index
  <2>2. CASE index' = index
    BY <2>2
  <2> QED BY <1>1, <2>1, <2>2
<1>5. index'.live[q] \in {NoTitle, index.live[q]}
  <2>1. CASE Indexes(e, Buried(q))
    BY <1>2, <2>1 DEF Indexes, Queued, Buried, PagesInv, StoresTyped, Index
  <2>2. CASE index' = index
    BY <2>2
  <2> QED BY <1>1, <2>1, <2>2
<1>6. file \in [Page -> Doc] /\ byTitle \in [Title -> Page \cup {NoPage}]
  BY DEF PagesInv, StoresTyped
<1> HIDE DEF q
<1>7. ServedOK(e)' /\ LandedOK(e)'
  BY <1>3, ServedNot DEF LandedOK
<1>8. ASSUME NEW c \in Call \ {e} PROVE ServedOK(c)'
  <2>1. call'[c] = call[c] /\ call[c] \in CallRecord /\ ServedOK(c)
    BY <1>3, CallFacts DEF ServedInv
  <2>2. ASSUME Keeps(c)'
        PROVE  /\ Keeps(c)
               /\ byTitle[call[c].title] = call[c].target => byTitle'[call[c].title] = call[c].target
               /\ Listed(index, call[c].target, call[c].title) => Listed(index', call[c].target, call[c].title)
    <3>1. PICK p \in Page, t \in Title : p = call[c].target /\ t = call[c].title
      BY <2>1, <2>2 DEF Keeps, CallRecord
    <3>2. call[c].kind = "save" /\ p \notin spoilt /\ p \notin ousted' /\ file'[p] = [title |-> t, text |-> c]
      BY <1>1, <2>1, <2>2, <3>1 DEF Keeps
    <3>3. p # q
      BY <1>1, <1>6, <3>2, NamesAssumption DEF NoFile
    <3>4. Keeps(c)
      BY <1>1, <1>6, <3>1, <3>2, <3>3 DEF Keeps
    <3>5. t = call[e].name => byTitle[t] # p
      BY <1>1, <3>2, <3>3, NamesAssumption DEF Ousted, q
    <3>6. byTitle[t] = p => byTitle'[t] = p
      BY <1>1, <1>6, <3>5
    <3>7. Listed(index, p, t) => Listed(index', p, t)
      BY <1>4, <1>5, <3>3, NamesAssumption DEF Listed
    <3> QED BY <3>1, <3>4, <3>6, <3>7
  <2> QED BY <1>1, <1>3, <2>1, <2>2, ServedStays
<1>9. ASSUME NEW c \in Call \ {e} PROVE LandedOK(c)'
  <2>1. LandedOK(c) /\ call'[c] = call[c]
    BY <1>3 DEF ServedInv
  <2>2. call[c].pc \in {"version", "manifest"} => call[c].target \in Page
    BY CallFacts DEF CallOK
  <2> QED BY <1>1, <1>6, <2>1, <2>2, LandedStays
<1> QED BY <1>7, <1>8, <1>9 DEF ServedInv

LEMMA RestoredServed ==
  ASSUME PagesInv, PagesInv', HistInv, ServedInv, NEW e \in Call, RestoreMoves(e)
  PROVE  ServedInv'
<1> DEFINE q == call[e].page
           s == call[e].title
<1>1. /\ mode = "up" /\ mode' = mode /\ call[e].pc = "moving" /\ call[e].kind = "restore" /\ stored' = stored
      /\ file' = [file EXCEPT ![q] = trash[q]] /\ byTitle' = [byTitle EXCEPT ![s] = q]
      /\ spoilt' = Twinned(e) /\ ousted' = ousted \cup {q} /\ Indexes(e, Raised(q, s))
  BY DEF RestoreMoves, Runs
<1>2. call[e] \in CallRecord /\ CallOK(call[e]) /\ q \in Page /\ s \in Title /\ call[e].target = q /\ InTurn(e)
  BY <1>1, CallFacts DEF CallOK, CallRecord, Busy
<1>3. /\ index' = Raised(q, s) /\ writes' = Append(writes, [by |-> e, ix |-> index'])
      /\ call'[e].kind = "restore" /\ call'[e].pc = "flush" /\ \A c \in Call \ {e} : call'[c] = call[c]
  BY <1>1, IndexesWhat
<1>4. index'.live = [index.live EXCEPT ![q] = s]
  BY <1>3 DEF Raised
<1>5. file \in [Page -> Doc] /\ byTitle \in [Title -> Page \cup {NoPage}] /\ index.live \in [Page -> Title \cup {NoTitle}]
  BY DEF PagesInv, StoresTyped, Index
<1>6. spoilt \subseteq spoilt' /\ \A p \in Page \ {q} : file[p].title = s => p \in spoilt'
  BY <1>1, <1>2 DEF Twinned, Twins
<1> HIDE DEF q, s
<1>7. ServedOK(e)' /\ LandedOK(e)'
  BY <1>3, ServedNot DEF LandedOK
<1>8. ASSUME NEW c \in Call \ {e} PROVE ServedOK(c)'
  <2>1. call'[c] = call[c] /\ call[c] \in CallRecord /\ ServedOK(c)
    BY <1>3, CallFacts DEF ServedInv
  <2>2. ASSUME Keeps(c)'
        PROVE  /\ Keeps(c)
               /\ byTitle[call[c].title] = call[c].target => byTitle'[call[c].title] = call[c].target
               /\ Listed(index, call[c].target, call[c].title) => Listed(index', call[c].target, call[c].title)
    <3>1. PICK p \in Page, t \in Title : p = call[c].target /\ t = call[c].title
      BY <2>1, <2>2 DEF Keeps, CallRecord
    <3>2. call[c].kind = "save" /\ p \notin spoilt' /\ p \notin ousted' /\ file'[p] = [title |-> t, text |-> c]
      BY <2>1, <2>2, <3>1 DEF Keeps
    <3>3. p # q /\ file[p] = file'[p] /\ t # s
      BY <1>1, <1>5, <1>6, <3>2
    <3>4. Keeps(c)
      BY <1>1, <1>6, <3>1, <3>2, <3>3 DEF Keeps
    <3>5. byTitle'[t] = byTitle[t]
      BY <1>1, <1>5, <3>3
    <3>6. Listed(index, p, t) => Listed(index', p, t)
      BY <1>4, <1>5, <3>3 DEF Listed
    <3> QED BY <3>1, <3>4, <3>5, <3>6
  <2> QED BY <1>1, <1>3, <2>1, <2>2, ServedStays
<1>9. ASSUME NEW c \in Call \ {e} PROVE LandedOK(c)'
  <2>1. LandedOK(c) /\ call'[c] = call[c] /\ HistOK(c)
    BY <1>3 DEF ServedInv, HistInv
  <2>2. ASSUME call[c].pc \in {"version", "manifest"}, call[c].target \notin spoilt'
        PROVE  file'[call[c].target] = file[call[c].target]
    <3>1. call[c].target \in Page /\ call[c].page = call[c].target /\ InTurn(c)
      BY <1>6, <2>1, <2>2, CallFacts DEF HistOK, CallOK, Busy
    <3>2. call[c].target # q
      BY <1>2, <3>1 DEF InTurn, q
    <3> QED BY <1>1, <1>5, <3>1, <3>2
  <2> QED BY <1>6, <2>1, <2>2, LandedStays
<1> QED BY <1>7, <1>8, <1>9 DEF ServedInv

LEMMA PurgedServed ==
  ASSUME PagesInv, PagesInv', ServedInv, NEW e \in Call, PurgeFinds(e) \/ PurgeEnds(e)
  PROVE  ServedInv'
<1>1. /\ mode = "up" /\ mode' = mode /\ stored' = stored /\ file' = file /\ byTitle' = byTitle
      /\ spoilt \subseteq spoilt' /\ ousted' = ousted /\ call[e].kind = "purge"
  <2>1. PurgeEnds(e) => call[e].kind = "purge"
    BY CallFacts DEF PurgeEnds, Runs, CallOK
  <2> QED BY <2>1 DEF PurgeFinds, PurgeEnds, Runs, Turn, names
<1>2. /\ call'[e].kind = "purge" /\ call'[e].pc \notin {"version", "manifest"} /\ \A c \in Call \ {e} : call'[c] = call[c]
      /\ writes' = writes \/ writes' = Append(writes, [by |-> e, ix |-> index'])
      /\ index'.live = index.live
  <2>1. call[e] \in CallRecord /\ CallsTyped
    BY CallFacts DEF PagesInv
  <2>2. CASE PurgeFinds(e)
    <3>1. index' = index /\ writes' = writes /\ (Ends(e, "refused") \/ Goes(e, "purging"))
      BY <2>2 DEF PurgeFinds
    <3> QED BY <1>1, <2>1, <3>1 DEF Ends, Goes, CallsTyped, CallRecord
  <2>3. CASE PurgeEnds(e)
    <3> DEFINE x == [index EXCEPT !.deleted[call[e].page] = NoTitle]
    <3>1. Indexes(e, x)
      BY <2>3 DEF PurgeEnds
    <3>2. x.live = index.live
      BY DEF PagesInv, StoresTyped, Index
    <3> HIDE DEF x
    <3> QED BY <1>1, <3>1, <3>2, IndexesWhat
  <2> QED BY <2>2, <2>3
<1>3. ServedOK(e)' /\ LandedOK(e)'
  BY <1>2, ServedNot DEF LandedOK
<1>4. ASSUME NEW c \in Call \ {e} PROVE ServedOK(c)' /\ LandedOK(c)'
  <2>1. ServedOK(c) /\ LandedOK(c) /\ call'[c] = call[c]
    BY <1>2 DEF ServedInv
  <2>2. Keeps(c)' => Keeps(c)
    BY <1>1, <2>1 DEF Keeps
  <2>3. Listed(index, call[c].target, call[c].title) => Listed(index', call[c].target, call[c].title)
    BY <1>2 DEF Listed
  <2> QED BY <1>1, <1>2, <2>1, <2>2, <2>3, ServedStays, LandedStays
<1> QED BY <1>3, <1>4 DEF ServedInv

(* The oldest write of the index is over: it is on the disk, or it failed. *)
LEMMA WrittenServed ==
  ASSUME PagesInv, PagesInv', ServedInv, writes # <<>>, NEW answer \in {"ok", "failed"},
         Ends(writes[1].by, answer), writes' = Tail(writes), UNCHANGED <<mode, file, index, byTitle, spoilt, ousted>>,
         IF answer = "ok" THEN stored' = writes[1].ix ELSE stored' = stored
  PROVE  ServedInv'
<1>1. /\ Len(writes) \in Nat \ {0} /\ DOMAIN writes = 1 .. Len(writes) /\ DOMAIN writes' = 1 .. Len(writes) - 1
      /\ \A i \in 1 .. Len(writes) - 1 : writes'[i] = writes[i + 1]
  BY Shortened DEF PagesInv, WritesInv
<1>2. 1 \in DOMAIN writes
  BY <1>1
<1>3. PICK b \in Call : b = writes[1].by /\ call[b].pc = "flush"
  BY <1>2, Writers DEF PagesInv, WritesInv
<1>4. \A i \in DOMAIN writes : writes[i].by = b => i = 1
  BY <1>2, <1>3 DEF PagesInv, WritesInv
<1>5. mode = "up" /\ mode' = mode /\ file' = file /\ index' = index /\ byTitle' = byTitle /\ spoilt' = spoilt /\ ousted' = ousted
  BY <1>3 DEF PagesInv, DownInv, StoresTyped
<1>6. /\ call'[b].pc = "done" /\ call'[b].answer = answer /\ call'[b].target = call[b].target
      /\ call'[b].title = call[b].title /\ call'[b].kind = call[b].kind
      /\ \A c \in Call \ {b} : call'[c] = call[c]
  <2>1. call[b] \in CallRecord /\ CallsTyped
    BY CallFacts DEF PagesInv
  <2> QED BY <1>3, <2>1 DEF Ends, CallsTyped, CallRecord
<1>7. ASSUME NEW p, NEW t, \A j \in DOMAIN writes : Listed(writes[j].ix, p, t)
      PROVE  \A j \in DOMAIN writes' : Listed(writes'[j].ix, p, t)
  <2>1. \A j \in DOMAIN writes' : j + 1 \in DOMAIN writes /\ writes'[j] = writes[j + 1]
    BY <1>1
  <2> QED BY <1>7, <2>1
<1>8. ServedOK(b)'
  <2> SUFFICES ASSUME Keeps(b)', answer = "ok" PROVE ServedOK(b)'
    BY <1>6 DEF ServedOK
  <2>1. Keeps(b) /\ ServedOK(b)
    BY <1>5, <1>6 DEF ServedInv, Keeps
  <2>2. PICK p, t : p = call[b].target /\ t = call[b].title
    OBVIOUS
  <2>3. PICK i \in DOMAIN writes : writes[i].by = b /\ \A j \in DOMAIN writes : i <= j => Listed(writes[j].ix, p, t)
    BY <1>3, <2>1, <2>2 DEF ServedOK
  <2>4. \A j \in DOMAIN writes : Listed(writes[j].ix, p, t)
    BY <1>1, <1>4, <2>3
  <2>5. Listed(stored', p, t) /\ \A j \in DOMAIN writes' : Listed(writes'[j].ix, p, t)
    BY <1>2, <1>7, <2>4
  <2>6. byTitle'[t] = p /\ Listed(index', p, t)
    BY <1>3, <1>5, <2>1, <2>2 DEF ServedOK
  <2> QED BY <1>6, <2>2, <2>5, <2>6 DEF ServedOK, Listed
<1>9. ASSUME NEW c \in Call \ {b} PROVE ServedOK(c)'
  <2> SUFFICES ASSUME Keeps(c)' PROVE ServedOK(c)'
    BY DEF ServedOK
  <2>1. Keeps(c) /\ ServedOK(c) /\ call'[c] = call[c]
    BY <1>5, <1>6 DEF ServedInv, Keeps
  <2>2. PICK p, t : p = call[c].target /\ t = call[c].title
    OBVIOUS
  <2>3. call[c].pc = "flush" => \E i \in DOMAIN writes' :
          writes'[i].by = c /\ \A j \in DOMAIN writes' : i <= j => Listed(writes'[j].ix, p, t)
    <3> SUFFICES ASSUME call[c].pc = "flush"
                 PROVE  \E i \in DOMAIN writes' :
                          writes'[i].by = c /\ \A j \in DOMAIN writes' : i <= j => Listed(writes'[j].ix, p, t)
      OBVIOUS
    <3>1. PICK i \in DOMAIN writes : writes[i].by = c /\ \A j \in DOMAIN writes : i <= j => Listed(writes[j].ix, p, t)
      BY <2>1, <2>2 DEF ServedOK
    <3>2. i # 1 /\ i \in 1 .. Len(writes)
      BY <1>1, <1>3, <3>1
    <3>3. i - 1 \in DOMAIN writes' /\ writes'[i - 1] = writes[i]
      BY <1>1, <3>2
    <3>4. \A j \in DOMAIN writes' : i - 1 <= j => j + 1 \in DOMAIN writes /\ i <= j + 1 /\ writes'[j] = writes[j + 1]
      BY <1>1, <3>2
    <3>5. \A j \in DOMAIN writes' : i - 1 <= j => Listed(writes'[j].ix, p, t)
      BY <3>1, <3>4
    <3> QED BY <3>1, <3>3, <3>5
  <2>4. call[c].answer = "ok" => Listed(stored', p, t) /\ \A j \in DOMAIN writes' : Listed(writes'[j].ix, p, t)
    BY <1>2, <1>7, <2>1, <2>2 DEF ServedOK
  <2>5. /\ call[c].pc \in {"version", "manifest", "flush"} \/ call[c].answer = "ok" => byTitle'[t] = p
        /\ call[c].pc = "flush" \/ call[c].answer = "ok" => Listed(index', p, t)
    BY <1>5, <2>1, <2>2 DEF ServedOK
  <2> QED BY <2>1, <2>2, <2>3, <2>4, <2>5 DEF ServedOK, Listed
<1>10. \A c \in Call : LandedOK(c)'
  BY <1>5, <1>6 DEF ServedInv, LandedOK
<1> QED BY <1>8, <1>9, <1>10 DEF ServedInv

LEMMA StartedUpServed ==
  ASSUME PagesInv, PagesInv', ServedInv, StartsUp
  PROVE  ServedInv'
<1>1. /\ mode = "down" /\ file' = file /\ writes' = writes /\ call' = call /\ spoilt' = spoilt /\ ousted' = ousted
      /\ stored' = index'
  BY DEF StartsUp, disk, history
<1>2. writes = <<>> /\ \A c \in Call : call[c].pc \in {"new", "done"}
  BY <1>1 DEF PagesInv, DownInv
<1>3. PICK kept \in Kept : \E found \in Found(kept) :
        LET title(p) == IF p \in kept THEN stored.live[p] ELSE file[p].title
            served   == kept \cup found
        IN  /\ byTitle' = [t \in Title |-> IF \E p \in served : title(p) = t
                                           THEN CHOOSE p \in served : title(p) = t ELSE NoPage]
            /\ index' = [stored EXCEPT !.live = [p \in Page |-> IF p \in kept THEN @[p] ELSE NoTitle]]
  BY DEF StartsUp
<1>4. PICK found \in Found(kept) :
        LET title(p) == IF p \in kept THEN stored.live[p] ELSE file[p].title
            served   == kept \cup found
        IN  /\ byTitle' = [t \in Title |-> IF \E p \in served : title(p) = t
                                           THEN CHOOSE p \in served : title(p) = t ELSE NoPage]
            /\ index' = [stored EXCEPT !.live = [p \in Page |-> IF p \in kept THEN @[p] ELSE NoTitle]]
  BY <1>3
<1>5. ASSUME NEW p \in Page, NEW t \in Title, Listed(stored, p, t)
      PROVE  byTitle'[t] = p /\ Listed(index', p, t)
  <2> DEFINE title(q) == IF q \in kept THEN stored.live[q] ELSE file[q].title
             served   == kept \cup found
  <2>1. stored.live \in [Page -> Title \cup {NoTitle}] /\ stored.live[p] = t /\ \A q \in Page \ {p} : stored.live[q] # t
    BY <1>5 DEF Listed, PagesInv, StoresTyped, Index
  <2>2. /\ kept \subseteq {q \in Page : stored.live[q] # NoTitle}
        /\ \A r \in {q \in Page : stored.live[q] # NoTitle} : \E q \in kept : stored.live[q] = stored.live[r]
    BY <1>3 DEF Kept
  <2>3. p \in kept
    <3>1. p \in {q \in Page : stored.live[q] # NoTitle}
      BY <2>1, NamesAssumption
    <3> QED BY <2>1, <2>2, <3>1
  <2>4. found \subseteq {q \in Page \ kept : file[q] # NoFile /\ \A r \in kept : stored.live[r] # file[q].title}
    BY <1>4 DEF Found
  <2>5. \A q \in served : title(q) = t <=> q = p
    <3>1. ASSUME NEW q \in kept PROVE title(q) = t <=> q = p
      BY <2>1, <2>2
    <3>2. ASSUME NEW q \in found PROVE q # p /\ title(q) # t
      BY <2>1, <2>3, <2>4
    <3> QED BY <3>1, <3>2
  <2>6. p \in served
    BY <2>3
  <2>7. byTitle'[t] = IF \E q \in served : title(q) = t THEN CHOOSE q \in served : title(q) = t ELSE NoPage
    BY <1>4
  <2>8. index'.live = [q \in Page |-> IF q \in kept THEN stored.live[q] ELSE NoTitle]
    BY <1>4 DEF PagesInv, StoresTyped, Index
  <2>9. Listed(index', p, t)
    BY <2>1, <2>3, <2>8, NamesAssumption DEF Listed
  <2> HIDE DEF title, served
  <2> QED BY <2>5, <2>6, <2>7, <2>9
<1>6. ASSUME NEW c \in Call PROVE ServedOK(c)' /\ LandedOK(c)'
  <2>1. LandedOK(c)'
    BY <1>1, <1>2 DEF LandedOK
  <2>2. ASSUME Keeps(c)', call[c].answer = "ok"
        PROVE  /\ byTitle'[call[c].title] = call[c].target /\ Listed(index', call[c].target, call[c].title)
               /\ Listed(stored', call[c].target, call[c].title)
    <3>1. Keeps(c) /\ ServedOK(c) /\ call[c] \in CallRecord
      BY <1>1, <2>2, CallFacts DEF ServedInv, Keeps
    <3>2. PICK p \in Page, t \in Title : p = call[c].target /\ t = call[c].title
      BY <3>1 DEF Keeps, CallRecord
    <3>3. Listed(stored, p, t)
      BY <2>2, <3>1, <3>2 DEF ServedOK
    <3> QED BY <1>1, <1>5, <3>2, <3>3
  <2>3. ServedOK(c)'
    <3> SUFFICES ASSUME Keeps(c)' PROVE ServedOK(c)'
      BY DEF ServedOK
    <3>1. PICK p, t : p = call[c].target /\ t = call[c].title
      OBVIOUS
    <3>2. writes' = <<>> /\ call'[c].pc \notin {"version", "manifest", "flush"} /\ call'[c] = call[c] /\ DOMAIN writes' = {}
      BY <1>1, <1>2
    <3> QED BY <2>2, <3>1, <3>2 DEF ServedOK, Listed
  <2> QED BY <2>1, <2>3
<1> QED BY <1>6 DEF ServedInv

LEMMA KilledServed ==
  ASSUME PagesInv, PagesInv', ServedInv, Killed
  PROVE  ServedInv'
<1>1. mode' = "down" /\ writes' = <<>> /\ file' = file /\ stored' = stored /\ spoilt' = spoilt /\ ousted' = ousted
  BY DEF Killed, disk, history
<1>2. ASSUME NEW c \in Call
      PROVE  /\ call'[c].pc \in {"new", "done"}
             /\ call'[c] = call[c] \/ call'[c].answer = "cut"
  <2>1. call'[c] = IF call[c].pc \in {"new", "done"} THEN call[c]
                   ELSE [call[c] EXCEPT !.pc = "done", !.answer = "cut"]
    BY DEF Killed
  <2> QED BY <2>1, CallFacts DEF CallRecord
<1>3. ASSUME NEW c \in Call PROVE ServedOK(c)' /\ LandedOK(c)'
  <2>1. LandedOK(c)'
    BY <1>2 DEF LandedOK
  <2>2. CASE call'[c].answer = "ok"
    <3>1. call'[c] = call[c] /\ ServedOK(c) /\ (Keeps(c)' => Keeps(c))
      BY <1>1, <1>2, <2>2 DEF ServedInv, Keeps
    <3> QED BY <1>1, <1>2, <2>1, <2>2, <3>1 DEF ServedOK, Listed
  <2>3. CASE call'[c].answer # "ok"
    BY <1>2, <2>1, <2>3, ServedNot
  <2> QED BY <2>2, <2>3
<1> QED BY <1>3 DEF ServedInv

LEMMA StepKeepsServed == PagesInv /\ PagesInv' /\ HistInv /\ ServedInv /\ [Next]_vars => ServedInv'
<1> SUFFICES ASSUME PagesInv, PagesInv', HistInv, ServedInv, [Next]_vars PROVE ServedInv'
  OBVIOUS
<1>1. ASSUME NEW e \in Call,
             \/ \E name, title \in Title : SaveAsks(e, name, title)
             \/ SaveChecks(e) \/ SaveFinds(e) \/ SaveWrites(e)
             \/ \E name \in Title : DeleteAsks(e, name)
             \/ DeleteQueues(e) \/ DeleteFinds(e) \/ MoveFails(e)
             \/ \E kind \in {"restore", "purge"}, p \in Page : TrashAsks(e, kind, p)
             \/ RestoreFinds(e)
      PROVE  ServedInv'
  <2>1. /\ UNCHANGED <<mode, disk, stored, index, names, writes, history>> /\ mode = "up"
        /\ call[e].pc \notin {"flush", "done"} /\ \A c \in Call \ {e} : call'[c] = call[c]
        /\ call'[e].pc \notin {"version", "manifest", "purging", "flush"} /\ call'[e].answer # "ok"
    BY <1>1, QuietMoves
  <2>2. /\ mode' = mode /\ file' = file /\ stored' = stored /\ index' = index /\ byTitle' = byTitle /\ writes' = writes
        /\ spoilt' = spoilt /\ ousted' = ousted
    BY <2>1 DEF disk, names, history
  <2>3. ServedOK(e)' /\ LandedOK(e)'
    BY <2>1, ServedNot DEF LandedOK
  <2>4. ASSUME NEW c \in Call \ {e} PROVE ServedOK(c)' /\ LandedOK(c)'
    <3>1. ServedOK(c) /\ LandedOK(c) /\ call'[c] = call[c]
      BY <2>1 DEF ServedInv
    <3>2. Keeps(c)' => Keeps(c)
      BY <2>2, <3>1 DEF Keeps
    <3>3. Listed(index, call[c].target, call[c].title) => Listed(index', call[c].target, call[c].title)
      BY <2>2
    <3> QED BY <2>1, <2>2, <3>1, <3>2, <3>3, ServedStays, LandedStays
  <2> QED BY <2>3, <2>4 DEF ServedInv
<1>2. ASSUME NEW e \in Call, SaveLands(e) \/ VersionStarts(e) \/ VersionMisreads(e) \/ VersionEnds(e) \/ VersionFails(e)
      PROVE  ServedInv'
  BY <1>2, VersionMade, LandsServed, StartedServed, EndedServed
<1>3. ASSUME NEW e \in Call, DeleteMoves(e) \/ RestoreMoves(e) \/ PurgeFinds(e) \/ PurgeEnds(e) PROVE ServedInv'
  BY <1>3, DeletedServed, RestoredServed, PurgedServed
<1>4. ASSUME NEW i \in NextWrite, IndexLands(i) PROVE ServedInv'
  <2>1. writes # <<>> /\ i = 1
    BY <1>4, IndexLandsTyped
  <2>2. RemoveAt(writes, 1) = Tail(writes)
    BY <2>1, FirstRemoved DEF PagesInv, WritesInv
  <2>3. /\ Ends(writes[1].by, "ok") /\ writes' = Tail(writes) /\ stored' = writes[1].ix
        /\ UNCHANGED <<mode, file, index, byTitle, spoilt, ousted>>
    BY <1>4, <2>1, <2>2 DEF IndexLands, disk, names, history
  <2> QED BY <2>1, <2>3, WrittenServed
<1>5. CASE IndexFails
  <2>1. /\ writes # <<>> /\ Ends(Head(writes).by, "failed") /\ writes' = Tail(writes) /\ stored' = stored
        /\ UNCHANGED <<mode, file, index, byTitle, spoilt, ousted>>
    BY <1>5 DEF IndexFails, disk, names, history
  <2>2. Head(writes) = writes[1]
    BY <2>1, Shortened DEF PagesInv, WritesInv
  <2> QED BY <2>1, <2>2, WrittenServed
<1>6. CASE StartsUp \/ Killed
  BY <1>6, StartedUpServed, KilledServed
<1>7. CASE UNCHANGED vars
  BY <1>7 DEF vars, disk, names, history, ServedInv, ServedOK, LandedOK, Keeps, Listed
<1> QED BY <1>1, <1>2, <1>3, <1>4, <1>5, <1>6, <1>7 DEF Next

(* A save that was answered is what its title serves, in this run of the   *)
(* server and in the next ones, as long as its text is the page's: unless  *)
(* the page was spoilt, a call that had looked the title up before took it *)
(* from the page, or the page came back from the trash.                    *)
THEOREM SavedStaysServed == Spec => []SavedIsServed
<1>1. Init => PagesInv /\ HistInv /\ ServedInv
  <2>1. Init => ServedInv
    BY DEF Init, NewCall, ServedInv, ServedOK, LandedOK
  <2> QED BY <2>1, InitPages, InitHist
<1>2. PagesInv /\ HistInv /\ ServedInv /\ [Next]_vars => PagesInv' /\ HistInv' /\ ServedInv'
  BY StepKeepsPages, StepKeepsHist, StepKeepsServed
<1>3. PagesInv /\ ServedInv => SavedIsServed
  <2> SUFFICES ASSUME PagesInv, ServedInv, mode = "up", NEW c \in Call, call[c].kind = "save", call[c].answer = "ok",
                      call[c].target \notin spoilt \cup ousted,
                      file[call[c].target] = [title |-> call[c].title, text |-> c]
               PROVE  byTitle[call[c].title] = call[c].target
    BY DEF SavedIsServed
  <2>1. call[c].target \in Page
    BY CallFacts DEF CallOK
  <2>2. Keeps(c)
    BY <2>1 DEF Keeps
  <2> QED BY <2>2 DEF ServedInv, ServedOK
<1> QED BY <1>1, <1>2, <1>3, PTL DEF Spec
=============================================================================
