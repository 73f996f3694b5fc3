--------------------------- MODULE XmitPathProofs ---------------------------
(***************************************************************************)
(* Theorems about XmitPath for any number of access classes, frames,       *)
(* buffers and packets, and its refinement of TxQueue.                     *)
(***************************************************************************)
EXTENDS XmitPath, FiniteSetTheorems, SequenceTheorems, TLAPS

\* The types without the upper bounds of the pools, which need the accounts.
TypeNat ==
  /\ tx \in [Queue -> [pc : TxPc, p : Packet \cup {<<>>}]]
  /\ next \in [Queue -> 1 .. MaxPacket + 1]
  /\ stopped \subseteq Queue /\ refused \subseteq Queue /\ done \subseteq Packet
  /\ frames \in Nat /\ bufs \in Nat /\ exts \in Nat
  /\ pend \in [Queue -> Seq(Packet)]
  /\ urbs \in Nat /\ eurbs \in Nat
  /\ task \in [pc : TaskPc, ps : Seq(Packet)]
  /\ busy \subseteq {"survey", "linking"} /\ events \subseteq {"survey", "linking"}
  /\ mgmt \in {"idle", "dump"} /\ lost \in Nat
  /\ scans \in 0 .. MaxScan /\ mgmts \in 0 .. MaxMgmt

\* The types of what rtw_free_stainfo leaves behind.
StationOK ==
  /\ sta \in {"hashed", "freed", "pool"} /\ stale \subseteq Queue /\ swept \subseteq Packet
  /\ leaves \in 0 .. MaxLeave

Flags == sched \in BOOLEAN /\ silent \in BOOLEAN /\ dead \in BOOLEAN /\ wake \in BOOLEAN

\* The tasklet has one packet in hand until it aggregates, and none while it
\* writes nothing.
TaskShape ==
  /\ task.pc = "first" => Len(task.ps) = 1
  /\ task.pc \notin {"first", "write"} => task.ps = <<>>
  /\ Len(task.ps) <= Burst

\* The numbers of packets: a sender has the last one its queue was given, and
\* those that are pending, with the tasklet or done were given before.
Numbered ==
  /\ \A q \in Queue : tx[q].pc # "idle" => next[q] > 1 /\ tx[q].p = <<q, next[q] - 1>>
  /\ \A q \in Queue : \A x \in Range(pend[q]) : QueueOf(x) = q /\ x[2] < next[q]
  /\ \A x \in Range(task.ps) \cup done : x[2] < next[QueueOf(x)]

\* What has been freed is nobody's any more.
DoneIsGone == done \cap Held = {}

\* What was lost when a queue was re-initialised was given before, and is neither
\* held nor freed.
SweptApart ==
  /\ swept \cap Held = {} /\ swept \cap done = {}
  /\ \A x \in swept : x[2] < next[QueueOf(x)]

\* The event of a survey is still to come as long as the survey is on.
SurveyReports == "survey" \in busy => "survey" \in events

IInv == TypeNat /\ StationOK /\ Flags /\ TaskShape /\ Numbered /\ QueueOrder

-----------------------------------------------------------------------------
(* Packets and sequences of packets. *)

LEMMA PacketFinite == IsFiniteSet(Queue) /\ IsFiniteSet(Packet)
<1>1. IsFiniteSet(Queue) /\ IsFiniteSet(1 .. MaxPacket)
  BY FS_Interval, XmitAssumption DEF Queue
<1> QED
  BY <1>1, FS_Product DEF Packet

LEMMA PacketFacts ==
  ASSUME NEW x \in Packet
  PROVE  QueueOf(x) \in Queue /\ x[2] \in 1 .. MaxPacket /\ x = <<QueueOf(x), x[2]>> /\ x # <<>>
<1>1. PICK a \in Queue, n \in 1 .. MaxPacket : x = <<a, n>>
  BY DEF Packet
<1> QED
  BY <1>1 DEF QueueOf

LEMMA AppendFacts ==
  ASSUME NEW s \in Seq(Packet), NEW x \in Packet
  PROVE  /\ Append(s, x) \in Seq(Packet) /\ Append(s, x) # << >>
         /\ Range(Append(s, x)) = Range(s) \cup {x}
         /\ InOrder(s) /\ SentBefore(Range(s), {x}) => InOrder(Append(s, x))
<1>1. /\ DOMAIN Append(s, x) = 1 .. Len(s) + 1
      /\ DOMAIN s = 1 .. Len(s) /\ Len(s) \in Nat
      /\ \A i \in 1 .. Len(s) : Append(s, x)[i] = s[i]
      /\ Append(s, x)[Len(s) + 1] = x
      /\ Append(s, x) \in Seq(Packet) /\ Append(s, x) # << >>
  OBVIOUS
<1>2. Range(Append(s, x)) = Range(s) \cup {x}
  BY <1>1 DEF Range
<1>3. ASSUME InOrder(s), SentBefore(Range(s), {x}) PROVE InOrder(Append(s, x))
  <2> SUFFICES ASSUME NEW i \in 1 .. Len(s) + 1, NEW j \in 1 .. Len(s) + 1, i < j
               PROVE  Earlier(Append(s, x)[i], Append(s, x)[j])
    BY <1>1 DEF InOrder
  <2>1. CASE j \in 1 .. Len(s)
    BY <1>1, <1>3, <2>1 DEF InOrder
  <2>2. CASE j = Len(s) + 1
    <3>1. i \in 1 .. Len(s) /\ s[i] \in Range(s)
      BY <1>1, <2>2 DEF Range
    <3> QED
      BY <1>1, <1>3, <2>2, <3>1 DEF SentBefore
  <2> QED
    BY <1>1, <2>1, <2>2
<1> QED
  BY <1>1, <1>2, <1>3

\* Cutting a sequence in two.
LEMMA SplitFacts ==
  ASSUME NEW s \in Seq(Packet), NEW k \in 0 .. Len(s)
  PROVE  LET a == SubSeq(s, 1, k)
             b == SubSeq(s, k + 1, Len(s))
         IN /\ a \in Seq(Packet) /\ b \in Seq(Packet) /\ Len(a) = k /\ Len(b) = Len(s) - k
            /\ Range(s) = Range(a) \cup Range(b)
            /\ InOrder(s) => InOrder(a) /\ InOrder(b) /\ SentBefore(Range(a), Range(b))
<1> DEFINE a == SubSeq(s, 1, k)
           b == SubSeq(s, k + 1, Len(s))
<1>1. Len(s) \in Nat /\ k \in Nat /\ k <= Len(s) /\ DOMAIN s = 1 .. Len(s)
  OBVIOUS
<1>2. a \in Seq(Packet) /\ Len(a) = k /\ \A i \in 1 .. k : a[i] = s[i]
  BY <1>1
<1>3. /\ b \in Seq(Packet) /\ Len(b) = Len(s) - k
      /\ \A i \in 1 .. Len(s) - k : b[i] = s[k + i]
  <2>1. \A i \in k + 1 .. Len(s) : s[i] \in Packet
    BY <1>1
  <2>2. /\ b \in Seq(Packet) /\ Len(b) = IF k + 1 <= Len(s) THEN Len(s) - (k + 1) + 1 ELSE 0
        /\ \A i \in 1 .. Len(s) - (k + 1) + 1 : b[i] = s[(k + 1) + i - 1]
    BY <1>1, <2>1, SubSeqProperties
  <2>3. ASSUME NEW i \in 1 .. Len(s) - k PROVE b[i] = s[k + i]
    <3>1. i \in 1 .. Len(s) - (k + 1) + 1 /\ (k + 1) + i - 1 = k + i
      BY <1>1
    <3>2. b[i] = s[(k + 1) + i - 1]
      BY <2>2, <3>1
    <3> QED
      BY <3>1, <3>2
  <2>4. Len(b) = Len(s) - k
    <3>1. CASE k + 1 <= Len(s)
      <4>1. Len(b) = Len(s) - (k + 1) + 1
        BY <2>2, <3>1
      <4> HIDE DEF b
      <4> QED
        BY <1>1, <4>1
    <3>2. CASE ~(k + 1 <= Len(s))
      <4>1. Len(b) = 0
        BY <2>2, <3>2
      <4>2. k = Len(s) /\ Len(s) - k = 0
        <5> HIDE DEF b
        <5> DEFINE n == Len(s)
        <5>1. n \in Nat /\ k \in Nat /\ k <= n /\ ~(k + 1 <= n)
          BY <1>1, <3>2
        <5> HIDE DEF n
        <5>2. k = n /\ n - k = 0
          BY <5>1
        <5> QED
          BY <5>2 DEF n
      <4> QED
        BY <4>1, <4>2
    <3> QED
      BY <3>1, <3>2
  <2> QED
    BY <2>2, <2>3, <2>4
<1>4. DOMAIN a = 1 .. k /\ DOMAIN b = 1 .. Len(s) - k
  BY <1>2, <1>3
<1> HIDE DEF a, b
<1>5. Range(s) = Range(a) \cup Range(b)
  <2>1. ASSUME NEW x \in Range(s) PROVE x \in Range(a) \cup Range(b)
    <3>1. PICK i \in 1 .. Len(s) : x = s[i]
      BY <1>1 DEF Range
    <3>2. CASE i <= k
      BY <1>1, <1>2, <1>4, <3>1, <3>2 DEF Range
    <3>3. CASE i > k
      <4>1. i - k \in 1 .. Len(s) - k /\ k + (i - k) = i
        BY <1>1, <3>3
      <4> QED
        BY <1>3, <1>4, <3>1, <4>1 DEF Range
    <3> QED
      BY <1>1, <3>2, <3>3
  <2>2. ASSUME NEW x \in Range(a) PROVE x \in Range(s)
    BY <1>1, <1>2, <1>4 DEF Range
  <2>3. ASSUME NEW x \in Range(b) PROVE x \in Range(s)
    <3>1. PICK i \in 1 .. Len(s) - k : x = s[k + i]
      BY <1>3, <1>4 DEF Range
    <3>2. k + i \in DOMAIN s
      BY <1>1
    <3> QED
      BY <3>1, <3>2 DEF Range
  <2> QED
    BY <2>1, <2>2, <2>3
<1>6. ASSUME InOrder(s) PROVE InOrder(a) /\ InOrder(b) /\ SentBefore(Range(a), Range(b))
  <2>1. InOrder(a)
    BY <1>1, <1>2, <1>4, <1>6 DEF InOrder
  <2>2. InOrder(b)
    <3> SUFFICES ASSUME NEW i \in 1 .. Len(s) - k, NEW j \in 1 .. Len(s) - k, i < j
                 PROVE  Earlier(b[i], b[j])
      BY <1>4 DEF InOrder
    <3>1. k + i \in DOMAIN s /\ k + j \in DOMAIN s /\ k + i < k + j
      BY <1>1
    <3> QED
      BY <1>3, <1>6, <3>1 DEF InOrder
  <2>3. SentBefore(Range(a), Range(b))
    <3> SUFFICES ASSUME NEW x \in Range(a), NEW y \in Range(b)
                 PROVE  Earlier(x, y)
      BY DEF SentBefore
    <3>1. PICK i \in 1 .. k : x = s[i]
      BY <1>2, <1>4 DEF Range
    <3>2. PICK j \in 1 .. Len(s) - k : y = s[k + j]
      BY <1>3, <1>4 DEF Range
    <3>3. i \in DOMAIN s /\ k + j \in DOMAIN s /\ i < k + j
      BY <1>1
    <3> QED
      BY <1>6, <3>1, <3>2, <3>3 DEF InOrder
  <2> QED
    BY <2>1, <2>2, <2>3
<1> QED
  BY <1>2, <1>3, <1>5, <1>6 DEF a, b

LEMMA TailFacts ==
  ASSUME NEW s \in Seq(Packet), s # << >>
  PROVE  /\ Head(s) \in Packet /\ Tail(s) \in Seq(Packet)
         /\ Range(s) = {Head(s)} \cup Range(Tail(s))
         /\ InOrder(s) => InOrder(Tail(s)) /\ SentBefore({Head(s)}, Range(Tail(s)))
<1>1. Len(s) \in Nat /\ 1 \in 0 .. Len(s) /\ Head(s) = s[1] /\ Head(s) \in Packet
  OBVIOUS
<1>2. Tail(s) = SubSeq(s, 1 + 1, Len(s))
  BY TailIsSubSeq
<1>3. Range(SubSeq(s, 1, 1)) = {Head(s)}
  <2>1. Len(SubSeq(s, 1, 1)) = 1 /\ SubSeq(s, 1, 1)[1] = s[1] /\ DOMAIN SubSeq(s, 1, 1) = 1 .. 1
    BY <1>1
  <2> QED
    BY <1>1, <2>1 DEF Range
<1>4. /\ SubSeq(s, 1 + 1, Len(s)) \in Seq(Packet)
      /\ Range(s) = Range(SubSeq(s, 1, 1)) \cup Range(SubSeq(s, 1 + 1, Len(s)))
      /\ InOrder(s) => /\ InOrder(SubSeq(s, 1 + 1, Len(s)))
                       /\ SentBefore(Range(SubSeq(s, 1, 1)), Range(SubSeq(s, 1 + 1, Len(s))))
  BY <1>1, SplitFacts, Zenon
<1> QED
  BY <1>1, <1>2, <1>3, <1>4, Zenon

LEMMA ConcatFacts ==
  ASSUME NEW s \in Seq(Packet), NEW t \in Seq(Packet)
  PROVE  /\ s \o t \in Seq(Packet) /\ Len(s \o t) = Len(s) + Len(t)
         /\ Range(s \o t) = Range(s) \cup Range(t)
         /\ InOrder(s) /\ InOrder(t) /\ SentBefore(Range(s), Range(t)) => InOrder(s \o t)
<1> DEFINE u == s \o t
<1>1. /\ Len(s) \in Nat /\ Len(t) \in Nat /\ DOMAIN s = 1 .. Len(s) /\ DOMAIN t = 1 .. Len(t)
      /\ u \in Seq(Packet) /\ Len(u) = Len(s) + Len(t) /\ DOMAIN u = 1 .. Len(s) + Len(t)
      /\ \A i \in 1 .. Len(s) : u[i] = s[i]
      /\ \A i \in Len(s) + 1 .. Len(s) + Len(t) : u[i] = t[i - Len(s)]
  OBVIOUS
<1> HIDE DEF u
<1>2. \A i \in Len(s) + 1 .. Len(s) + Len(t) : i - Len(s) \in 1 .. Len(t)
  BY <1>1
<1>3. ASSUME NEW i \in 1 .. Len(t) PROVE Len(s) + i \in DOMAIN u /\ u[Len(s) + i] = t[i]
  <2>1. Len(s) + i \in Len(s) + 1 .. Len(s) + Len(t) /\ (Len(s) + i) - Len(s) = i
    BY <1>1
  <2>2. u[Len(s) + i] = t[(Len(s) + i) - Len(s)]
    BY <1>1, <2>1
  <2> QED
    BY <1>1, <2>1, <2>2
<1>4. Range(u) = Range(s) \cup Range(t)
  <2>1. ASSUME NEW x \in Range(u) PROVE x \in Range(s) \cup Range(t)
    <3>1. PICK i \in 1 .. Len(s) + Len(t) : x = u[i]
      BY <1>1 DEF Range
    <3>2. CASE i <= Len(s)
      BY <1>1, <3>1, <3>2 DEF Range
    <3>3. CASE i > Len(s)
      <4>1. i \in Len(s) + 1 .. Len(s) + Len(t)
        BY <1>1, <3>3
      <4>2. x = t[i - Len(s)] /\ i - Len(s) \in DOMAIN t
        BY <1>1, <1>2, <3>1, <4>1
      <4> QED
        BY <4>2 DEF Range
    <3> QED
      BY <1>1, <3>2, <3>3
  <2>2. ASSUME NEW x \in Range(s) PROVE x \in Range(u)
    <3>1. PICK i \in 1 .. Len(s) : x = s[i]
      BY <1>1 DEF Range
    <3>2. i \in DOMAIN u
      BY <1>1
    <3> QED
      BY <1>1, <3>1, <3>2 DEF Range
  <2>3. ASSUME NEW x \in Range(t) PROVE x \in Range(u)
    <3>1. PICK i \in 1 .. Len(t) : x = t[i]
      BY <1>1 DEF Range
    <3>2. Len(s) + i \in DOMAIN u /\ u[Len(s) + i] = x
      BY <1>3, <3>1
    <3> QED
      BY <3>2 DEF Range
  <2> QED
    BY <2>1, <2>2, <2>3
<1>5. ASSUME InOrder(s), InOrder(t), SentBefore(Range(s), Range(t)) PROVE InOrder(u)
  <2> SUFFICES ASSUME NEW i \in 1 .. Len(s) + Len(t), NEW j \in 1 .. Len(s) + Len(t), i < j
               PROVE  Earlier(u[i], u[j])
    BY <1>1 DEF InOrder
  <2>1. CASE j <= Len(s)
    BY <1>1, <1>5, <2>1 DEF InOrder
  <2>2. CASE i > Len(s)
    <3>1. i - Len(s) \in 1 .. Len(t) /\ j - Len(s) \in 1 .. Len(t) /\ i - Len(s) < j - Len(s)
      BY <1>1, <2>2
    <3>2. u[i] = t[i - Len(s)] /\ u[j] = t[j - Len(s)]
      BY <1>1, <2>2, SMTT(60)
    <3> QED
      BY <1>1, <1>5, <3>1, <3>2 DEF InOrder
  <2>3. CASE i <= Len(s) /\ j > Len(s)
    <3>1. u[i] = s[i] /\ u[j] = t[j - Len(s)] /\ i \in DOMAIN s /\ j - Len(s) \in DOMAIN t
      BY <1>1, <2>3
    <3>2. u[i] \in Range(s) /\ u[j] \in Range(t)
      BY <3>1 DEF Range
    <3> QED
      BY <1>5, <3>2 DEF SentBefore
  <2> QED
    BY <1>1, <2>1, <2>2, <2>3
<1> QED
  BY <1>1, <1>4, <1>5 DEF u

\* The packets of one class, in their order, are as many as the sequence is long.
LEMMA CountFacts ==
  ASSUME NEW s \in Seq(Packet), InOrder(s), NEW q, \A x \in Range(s) : QueueOf(x) = q
  PROVE  IsFiniteSet(Range(s)) /\ Cardinality(Range(s)) = Len(s)
<1>1. Len(s) \in Nat /\ DOMAIN s = 1 .. Len(s) /\ s \in [1 .. Len(s) -> Range(s)]
  BY DEF Range
<1>2. IsInjective(s)
  <2> SUFFICES ASSUME NEW i \in DOMAIN s, NEW j \in DOMAIN s, i < j, s[i] = s[j] PROVE FALSE
    BY <1>1 DEF IsInjective
  <2>1. s[i] \in Packet /\ QueueOf(s[i]) = QueueOf(s[j])
    BY <1>1
  <2>2. s[i][2] < s[j][2] /\ s[i][2] \in Nat
    BY <2>1, PacketFacts DEF InOrder, Earlier
  <2> QED
    BY <2>2
<1>3. s \in Bijection(1 .. Len(s), Range(s))
  BY <1>1, <1>2 DEF Bijection, Injection, Surjection, Range
<1>4. ExistsBijection(1 .. Len(s), Range(s))
  BY <1>3 DEF ExistsBijection
<1> QED
  BY <1>1, <1>4, FS_NatBijection, FS_CountingElements

-----------------------------------------------------------------------------
(* What the actions do to senders, queues and tasklet. *)

TxRec == [pc : TxPc, p : Packet \cup {<<>>}]
TaskRec == [pc : TaskPc, ps : Seq(Packet)]

LEMMA EntryFacts ==
  ASSUME TypeNat, NEW q \in Queue, XmitEntry(q)
  PROVE  /\ q \notin stopped /\ tx[q].pc = "idle" /\ next[q] <= MaxPacket
         /\ <<q, next[q]>> \in Packet
         /\ next' = [next EXCEPT ![q] = next[q] + 1]
         /\ tx' \in [Queue -> TxRec] /\ \A r \in Queue \ {q} : tx'[r] = tx[r]
         /\ \/ tx' = tx
            \/ tx'[q].pc \in {"stop", "alloc"} /\ tx'[q].p = <<q, next[q]>>
         /\ refused' \subseteq Queue /\ \A r \in Queue \ {q} : r \in refused => r \in refused'
         /\ UNCHANGED <<stopped, done, pools, usb, tasklet, mlme, mgnt>>
<1>1. tx \in [Queue -> TxRec] /\ next[q] \in 1 .. MaxPacket + 1 /\ refused \subseteq Queue
  BY DEF TypeNat, TxRec
<1>2. /\ q \notin stopped /\ tx[q].pc = "idle" /\ next[q] <= MaxPacket
      /\ next' = [next EXCEPT ![q] = next[q] + 1]
      /\ UNCHANGED <<stopped, done, pools, usb, tasklet, mlme, mgnt>>
  BY DEF XmitEntry
<1>3. <<q, next[q]>> \in Packet
  BY <1>1, <1>2, XmitAssumption DEF Packet
<1>4. CASE tx' = tx /\ refused' = refused \cup {q}
  BY <1>1, <1>2, <1>3, <1>4
<1>5. ASSUME NEW c \in {"stop", "alloc"}, refused' = refused \ {q},
             tx' = [tx EXCEPT ![q] = [pc |-> c, p |-> <<q, next[q]>>]]
      PROVE  /\ tx' \in [Queue -> TxRec] /\ \A r \in Queue \ {q} : tx'[r] = tx[r]
             /\ tx'[q].pc \in {"stop", "alloc"} /\ tx'[q].p = <<q, next[q]>>
             /\ refused' \subseteq Queue /\ \A r \in Queue \ {q} : r \in refused => r \in refused'
  <2> DEFINE r == [pc |-> c, p |-> <<q, next[q]>>]
  <2>1. r \in TxRec /\ r.pc = c /\ r.p = <<q, next[q]>>
    BY <1>3 DEF TxRec, TxPc
  <2> HIDE DEF r
  <2>2. tx' = [tx EXCEPT ![q] = r]
    BY <1>5 DEF r
  <2> QED
    BY <1>1, <1>5, <2>1, <2>2
<1>6. \/ tx' = tx /\ refused' = refused \cup {q}
      \/ \E c \in {"stop", "alloc"} : /\ refused' = refused \ {q}
                                      /\ tx' = [tx EXCEPT ![q] = [pc |-> c, p |-> <<q, next[q]>>]]
  BY DEF XmitEntry
<1> QED
  BY <1>2, <1>3, <1>4, <1>5, <1>6

\* The packet leaves its sender.
LEMMA LeaveFacts ==
  ASSUME TypeNat, NEW q \in Queue, tx' = [tx EXCEPT ![q] = TxIdle]
  PROVE  tx' \in [Queue -> TxRec] /\ tx'[q].pc = "idle" /\ \A r \in Queue \ {q} : tx'[r] = tx[r]
<1>1. TxIdle \in TxRec /\ TxIdle.pc = "idle"
  BY DEF TxIdle, TxRec, TxPc
<1>2. tx \in [Queue -> TxRec]
  BY DEF TypeNat, TxRec
<1> HIDE DEF TxIdle
<1> QED
  BY <1>1, <1>2

\* The sender goes on with its packet.
LEMMA StayFacts ==
  ASSUME TypeNat, NEW q \in Queue, NEW c \in TxPc, tx' = [tx EXCEPT ![q].pc = c]
  PROVE  /\ tx' \in [Queue -> TxRec] /\ tx'[q].pc = c /\ tx'[q].p = tx[q].p
         /\ \A r \in Queue \ {q} : tx'[r] = tx[r]
<1> DEFINE r == [tx[q] EXCEPT !.pc = c]
<1>1. tx \in [Queue -> TxRec] /\ tx[q] \in TxRec
  BY DEF TypeNat, TxRec
<1>2. r \in TxRec /\ r.pc = c /\ r.p = tx[q].p
  BY <1>1 DEF TxRec
<1>3. tx' = [tx EXCEPT ![q] = r]
  OBVIOUS
<1> HIDE DEF r
<1> QED
  BY <1>1, <1>2, <1>3

\* rtw_dequeue_xframe finds a frame, or goes round for ever.
TaskTakes == TaskDequeue /\ task'.pc # "hang"
TaskHangs == TaskDequeue /\ task'.pc = "hang"

LEMMA DequeueFacts ==
  ASSUME TypeNat, StationOK, TaskTakes
  PROVE  \E q \in Queue :
           /\ pend[q] # <<>> /\ task.pc = "buf"
           /\ pend' = [pend EXCEPT ![q] = Tail(pend[q])]
           /\ task' = [pc |-> "first", ps |-> <<Head(pend[q])>>]
           /\ task' \in TaskRec /\ task'.pc = "first" /\ Len(task'.ps) = 1
           /\ Range(task'.ps) = {Head(pend[q])} /\ InOrder(task'.ps)
           /\ UNCHANGED <<net, frames, bufs, exts, usb, sched, silent, mlme, mgnt>>
<1>0. task \in TaskRec
  BY DEF TypeNat, TaskRec
<1>1. PICK q \in Pending \cup Torn :
        /\ pend[q] # <<>> /\ pend' = [pend EXCEPT ![q] = Tail(pend[q])]
        /\ task' = [pc |-> "first", ps |-> <<Head(pend[q])>>]
  BY <1>0 DEF TaskTakes, TaskDequeue, TaskRec
<1>2. q \in Queue /\ pend[q] # <<>> /\ pend[q] \in Seq(Packet)
  <2>1. StationOK => Torn \subseteq Queue
    BY PacketFacts DEF Torn, StationOK
  <2> QED
    BY <1>1, <2>1 DEF Pending, TypeNat
<1>3. Head(pend[q]) \in Packet
  BY <1>2
<1> DEFINE h == Head(pend[q])
<1>4. /\ <<h>> \in Seq(Packet) /\ Len(<<h>>) = 1 /\ DOMAIN <<h>> = 1 .. 1 /\ <<h>>[1] = h
  BY <1>3
<1>5. Range(<<h>>) = {h} /\ InOrder(<<h>>)
  BY <1>4 DEF Range, InOrder
<1>6. task'.pc = "first" /\ task'.ps = <<h>> /\ task' \in TaskRec
  BY <1>1, <1>4 DEF TaskRec, TaskPc
<1>7. task.pc = "buf" /\ UNCHANGED <<net, frames, bufs, exts, usb, sched, silent, mlme, mgnt>>
  BY DEF TaskTakes, TaskDequeue
<1> QED
  BY <1>1, <1>2, <1>4, <1>5, <1>6, <1>7

LEMMA AggregateFacts ==
  ASSUME TypeNat, TaskShape, TaskAggregate
  PROVE  \E q \in Queue, k \in Nat :
           LET more == SubSeq(pend[q], 1, k)
               rest == SubSeq(pend[q], k + 1, Len(pend[q]))
           IN /\ task.pc = "first" /\ k <= Len(pend[q])
              /\ q = QueueOf(task.ps[1]) /\ Range(task.ps) = {task.ps[1]}
              /\ pend' = [pend EXCEPT ![q] = rest]
              /\ frames' = frames + k
              /\ task' \in TaskRec /\ task'.pc = "write" /\ task'.ps = task.ps \o more
              /\ Len(task'.ps) <= Burst
              /\ Range(task'.ps) = Range(task.ps) \cup Range(more)
              /\ Complete(Range(task'.ps))
              /\ UNCHANGED <<tx, next, refused, bufs, exts, usb, sched, silent, mlme, mgnt>>
<1> DEFINE q == QueueOf(task.ps[1])
           more(k) == SubSeq(pend[q], 1, k)
<1>1. task.pc = "first" /\ task.ps \in Seq(Packet) /\ Len(task.ps) = 1
  BY DEF TaskAggregate, TaskShape, TypeNat
<1>2. task.ps[1] \in Packet /\ DOMAIN task.ps = 1 .. 1
  BY <1>1
<1>3. Range(task.ps) = {task.ps[1]} /\ q \in Queue
  BY <1>2, PacketFacts DEF Range
<1>4. pend[q] \in Seq(Packet) /\ Len(pend[q]) \in Nat
  BY <1>3 DEF TypeNat
<1>5. PICK k \in 0 .. Burst - 1 :
        /\ k <= Len(pend[q])
        /\ pend' = [pend EXCEPT ![q] = SubSeq(pend[q], k + 1, Len(pend[q]))]
        /\ frames' = frames + k
        /\ task' = [pc |-> "write", ps |-> task.ps \o more(k)]
        /\ Complete(Range(task.ps \o more(k)))
  BY DEF TaskAggregate
<1>6. k \in Nat /\ k \in 0 .. Len(pend[q]) /\ 1 + k <= Burst
  BY <1>4, <1>5, XmitAssumption
<1>7. more(k) \in Seq(Packet) /\ Len(more(k)) = k
  BY <1>4, <1>6, SplitFacts, Zenon
<1> HIDE DEF more
<1>8. /\ task.ps \o more(k) \in Seq(Packet) /\ Len(task.ps \o more(k)) = 1 + k
      /\ Range(task.ps \o more(k)) = Range(task.ps) \cup Range(more(k))
  BY <1>1, <1>7, ConcatFacts
<1>9. task' \in TaskRec /\ task'.pc = "write" /\ task'.ps = task.ps \o more(k)
  BY <1>5, <1>8 DEF TaskRec, TaskPc
<1>10. UNCHANGED <<tx, next, refused, bufs, exts, usb, sched, silent, mlme, mgnt>>
  BY DEF TaskAggregate
<1>11. Len(task'.ps) <= Burst /\ Complete(Range(task'.ps))
  BY <1>5, <1>6, <1>8, <1>9
<1> QED
  BY <1>1, <1>3, <1>5, <1>6, <1>8, <1>9, <1>10, <1>11 DEF more

\* The tasklet's other steps leave it with no packet.
TaskMoves ==
  TaskStart \/ TaskTakeBuf \/ TaskEnd \/ TaskWrite \/ TaskNoFrame \/ TaskGiveBack \/ TaskHangs

LEMMA TaskMovesFacts ==
  ASSUME TypeNat, TaskShape, TaskMoves
  PROVE  /\ UNCHANGED <<net, pend>> /\ task.pc # "first"
         /\ task' \in TaskRec /\ task'.ps = <<>> /\ task'.pc \notin {"first", "write"}
<1>1. task \in TaskRec
  BY DEF TypeNat, TaskRec
<1>2. ASSUME NEW c \in TaskPc \ {"first", "write"},
             task.ps = <<>>, task' = [task EXCEPT !.pc = c]
      PROVE  task' \in TaskRec /\ task'.ps = <<>> /\ task'.pc = c
  BY <1>1, <1>2 DEF TaskRec
<1>3. TaskIdle \in TaskRec /\ TaskIdle.ps = <<>> /\ TaskIdle.pc = "idle"
  BY DEF TaskIdle, TaskRec, TaskPc
<1>4. CASE TaskStart
  <2>1. task.pc = "idle" /\ task.ps = <<>> /\ UNCHANGED <<net, pend>>
    BY <1>4 DEF TaskStart, TaskShape, pools
  <2>2. task' = task \/ task' = [task EXCEPT !.pc = "loop"]
    BY <1>4 DEF TaskStart
  <2> QED
    BY <1>1, <1>2, <2>1, <2>2 DEF TaskPc
<1>5. CASE TaskTakeBuf \/ TaskNoFrame
  <2>1. task.pc \in {"loop", "buf"} /\ task.ps = <<>> /\ UNCHANGED <<net, pend>>
    BY <1>5 DEF TaskTakeBuf, TaskNoFrame, TaskShape, pools
  <2>2. \E c \in {"buf", "giveback"} : task' = [task EXCEPT !.pc = c]
    BY <1>5 DEF TaskTakeBuf, TaskNoFrame
  <2> QED
    BY <1>2, <2>1, <2>2 DEF TaskPc
<1>6. CASE TaskEnd \/ TaskGiveBack
  <2>1. task.pc # "first" /\ task' = TaskIdle /\ UNCHANGED <<net, pend>>
    BY <1>6 DEF TaskEnd, TaskGiveBack, pools
  <2> QED
    BY <1>3, <2>1
<1>7. CASE TaskWrite
  <2>1. task.pc # "first" /\ task' = [pc |-> "loop", ps |-> <<>>] /\ UNCHANGED <<net, pend>>
    BY <1>7 DEF TaskWrite
  <2> QED
    BY <2>1 DEF TaskRec, TaskPc
<1>8. CASE TaskHangs
  <2>1. task.pc = "buf" /\ task.ps = <<>> /\ UNCHANGED net
    BY <1>8 DEF TaskHangs, TaskDequeue, TaskShape
  <2>2. task' = [task EXCEPT !.pc = "hang"] /\ UNCHANGED pend
    BY <1>8 DEF TaskHangs, TaskDequeue
  <2> QED
    BY <1>2, <2>1, <2>2 DEF TaskPc
<1> QED
  BY <1>4, <1>5, <1>6, <1>7, <1>8 DEF TaskMoves

\* What ends transfers, surveys and joins, and the management frames, touch no
\* packet.
Outside ==
  \/ UrbComplete \/ ExtComplete
  \/ Begin("survey") \/ Begin("linking") \/ JoinPrehandle \/ JoinTimeout \/ ScanTimeout
  \/ EventDone("survey") \/ EventDone("linking") \/ XmitSchedule
  \/ MgmtAlloc \/ MgmtDump

LEMMA OutsideFacts == Outside => UNCHANGED <<net, pend, task>>
  BY DEF Outside, UrbComplete, ExtComplete, Begin, JoinPrehandle, JoinTimeout, ScanTimeout,
         EventDone, XmitSchedule, MgmtAlloc, MgmtDump, pools, tasklet

\* Only the departure of the receiver and the re-initialisation touch it, and
\* nothing is pending then.
Reinits == FreeReinit \/ AllocStainfo

LEMMA StationStays ==
  ASSUME [Next]_vars
  PROVE  FreeStainfo \/ Reinits \/ UNCHANGED <<sta, stale, swept, leaves>>
<1>1. ASSUME NEW q \in Queue, \/ XmitEntry(q) \/ StopQueue(q) \/ XmitRefused(q) \/ XmitAlloc(q)
                              \/ XmitEnqueue(q) \/ XmitTakeBuf(q) \/ XmitDirect(q)
      PROVE  UNCHANGED station
  BY <1>1 DEF XmitEntry, StopQueue, XmitRefused, XmitAlloc, XmitEnqueue, XmitTakeBuf, XmitDirect
<1>2. CASE TaskStart \/ TaskTakeBuf \/ TaskEnd \/ TaskDequeue
  BY <1>2 DEF TaskStart, TaskTakeBuf, TaskEnd, TaskDequeue, station
<1>3. CASE TaskAggregate \/ TaskWrite \/ TaskNoFrame \/ TaskGiveBack
  BY <1>3 DEF TaskAggregate, TaskWrite, TaskNoFrame, TaskGiveBack, station
<1>4. CASE Outside
  BY <1>4 DEF Outside, UrbComplete, ExtComplete, Begin, JoinPrehandle, JoinTimeout, ScanTimeout,
              EventDone, XmitSchedule, MgmtAlloc, MgmtDump, station
<1>5. CASE UNCHANGED vars
  BY <1>5 DEF vars, station
<1> QED
  BY <1>1, <1>2, <1>3, <1>4, <1>5 DEF Next, Outside, Reinits, station

LEMMA ReinitFacts ==
  ASSUME Reinits
  PROVE  /\ pend' = [q \in Queue |-> <<>>] /\ swept' = swept \cup PendingPackets /\ stale' = {}
         /\ sta' \in {"hashed", "pool"}
         /\ UNCHANGED <<net, frames, bufs, exts, usb, tasklet, mlme, mgnt, leaves>>
  BY DEF Reinits, FreeReinit, AllocStainfo, Reinit

-----------------------------------------------------------------------------
(* The invariant of packets. *)

\* The packets of the queues after one queue has changed.
LEMMA QueueUpdate ==
  ASSUME pend \in [Queue -> Seq(Packet)], NEW q \in Queue, NEW s \in Seq(Packet),
         pend' = [pend EXCEPT ![q] = s]
  PROVE  pend' \in [Queue -> Seq(Packet)] /\ pend'[q] = s /\ \A r \in Queue \ {q} : pend'[r] = pend[r]
  OBVIOUS

LEMMA InitIInv == Init => IInv /\ DoneIsGone /\ SweptApart /\ StoppedHasPacket /\ SurveyReports
<1> SUFFICES ASSUME Init PROVE IInv /\ DoneIsGone /\ SweptApart /\ StoppedHasPacket /\ SurveyReports
  OBVIOUS
<1>1. /\ <<>> \in Seq(Packet) /\ Len(<<>>) = 0 /\ DOMAIN <<>> = {} /\ Range(<<>>) = {}
      /\ InOrder(<<>>)
  BY DEF Range, InOrder
<1>2. /\ tx = [q \in Queue |-> TxIdle] /\ TxIdle.pc = "idle" /\ TxIdle \in TxRec
      /\ task.pc = "idle" /\ task.ps = <<>> /\ task \in TaskRec
  BY <1>1 DEF Init, TxIdle, TxRec, TxPc, TaskIdle, TaskRec, TaskPc
<1>3. /\ tx \in [Queue -> TxRec] /\ \A q \in Queue : tx[q].pc = "idle"
      /\ pend \in [Queue -> Seq(Packet)] /\ \A q \in Queue : pend[q] = <<>>
  BY <1>1, <1>2 DEF Init
<1>4. TypeNat /\ StationOK
  <2>1. 1 \in 1 .. MaxPacket + 1 /\ 0 \in 0 .. MaxScan /\ 0 \in 0 .. MaxMgmt /\ 0 \in 0 .. MaxLeave
    BY XmitAssumption
  <2>2. next \in [Queue -> 1 .. MaxPacket + 1]
    BY <2>1 DEF Init
  <2>3. StationOK
    BY <2>1 DEF Init, StationOK
  <2> QED
    BY <1>2, <1>3, <2>1, <2>2, <2>3, XmitAssumption DEF Init, TypeNat, TxRec, TaskRec
<1>5. Flags
  BY Zenon DEF Init, Flags
<1>6. TaskShape
  BY <1>1, <1>2, XmitAssumption DEF TaskShape
<1>7. Numbered
  BY <1>1, <1>2, <1>3 DEF Numbered, Init
<1>8. QueueOrder
  BY <1>1, <1>2, <1>3 DEF QueueOrder, SentBefore
<1>9. DoneIsGone /\ SweptApart /\ StoppedHasPacket /\ SurveyReports
  BY DEF Init, DoneIsGone, SweptApart, StoppedHasPacket, SurveyReports
<1> QED
  BY <1>4, <1>5, <1>6, <1>7, <1>8, <1>9 DEF IInv

LEMMA FlagsNext == Flags /\ [Next]_vars => Flags'
<1> SUFFICES ASSUME Flags, Next PROVE Flags'
  BY Zenon DEF Flags, vars, tasklet, usb, mlme
<1>1. (dead \/ Faults) \in BOOLEAN
  OBVIOUS
<1>2. ASSUME WritePort, UNCHANGED <<sched, wake>> PROVE Flags'
  BY <1>1, <1>2, Zenon DEF Flags, WritePort
<1>3. ASSUME NEW q \in Queue, \/ XmitEntry(q) \/ StopQueue(q) \/ XmitRefused(q) \/ XmitAlloc(q)
                              \/ XmitEnqueue(q) \/ XmitTakeBuf(q)
      PROVE  Flags'
  <2>1. UNCHANGED <<usb, tasklet, mlme>>
    BY <1>3 DEF XmitEntry, StopQueue, XmitRefused, XmitAlloc, XmitEnqueue, XmitTakeBuf
  <2> QED
    BY <2>1, Zenon DEF Flags, usb, tasklet, mlme
<1>4. ASSUME NEW q \in Queue, XmitDirect(q) PROVE Flags'
  BY <1>2, <1>4, Zenon DEF XmitDirect, mlme
<1>5. CASE TaskWrite
  BY <1>2, <1>5, Zenon DEF TaskWrite, mlme
<1>6. CASE TaskStart
  BY <1>6, Zenon DEF TaskStart, Flags, usb, mlme
<1>7. CASE TaskTakeBuf \/ TaskEnd \/ TaskDequeue \/ TaskAggregate \/ TaskNoFrame \/ TaskGiveBack
  <2>1. UNCHANGED <<usb, sched, silent, mlme>>
    BY <1>7 DEF TaskTakeBuf, TaskEnd, TaskDequeue, TaskAggregate, TaskNoFrame, TaskGiveBack
  <2> QED
    BY <2>1, Zenon DEF Flags, usb, mlme
<1>8. CASE UrbComplete \/ ExtComplete
  BY <1>1, <1>8, Zenon DEF UrbComplete, ExtComplete, Schedule, Flags, mlme
<1>9. CASE Begin("survey") \/ Begin("linking") \/ JoinPrehandle \/ ScanTimeout
  BY <1>9, Zenon DEF Begin, JoinPrehandle, ScanTimeout, Flags, usb, tasklet
<1>10. CASE JoinTimeout \/ XmitSchedule
  BY <1>10, Zenon DEF JoinTimeout, XmitSchedule, Schedule, Flags, usb
<1>11. CASE EventDone("survey") \/ EventDone("linking")
  BY <1>11, Zenon DEF EventDone, Flags, usb, tasklet
<1>12. CASE MgmtAlloc \/ MgmtDump
  BY <1>12, Zenon DEF MgmtAlloc, MgmtDump, Flags, usb, tasklet, mlme
<1>13. CASE FreeStainfo
  BY <1>13, Zenon DEF FreeStainfo, Flags, usb, tasklet, mlme
<1>14. CASE Reinits
  <2>1. UNCHANGED <<usb, tasklet, mlme>>
    BY <1>14, ReinitFacts
  <2> QED
    BY <2>1, Zenon DEF Flags, usb, tasklet, mlme
<1> QED
  BY <1>3, <1>4, <1>5, <1>6, <1>7, <1>8, <1>9, <1>10, <1>11, <1>12, <1>13, <1>14 DEF Next, Reinits

LEMMA PendingFinite ==
  ASSUME TypeNat
  PROVE  /\ PendingPackets \subseteq Packet /\ IsFiniteSet(PendingPackets)
         /\ Cardinality(PendingPackets) \in Nat
<1>1. \A q \in Queue : Range(pend[q]) \subseteq Packet
  BY DEF TypeNat, Range
<1>2. PendingPackets \subseteq Packet
  BY <1>1 DEF PendingPackets
<1> QED
  BY <1>2, PacketFinite, FS_Subset, FS_CardinalityType

LEMMA SenderPacket ==
  ASSUME TypeNat, Numbered, NEW q \in Queue, tx[q].pc # "idle"
  PROVE  tx[q].p \in Packet
<1>1. tx[q].p \in Packet \cup {<<>>}
  BY DEF TypeNat
<1>2. tx[q].p # <<>>
  BY DEF Numbered
<1> QED
  BY <1>1, <1>2

LEMMA TypeNext == TypeNat /\ StationOK /\ TaskShape /\ Numbered /\ [Next]_vars => TypeNat'
<1> SUFFICES ASSUME TypeNat, StationOK, TaskShape, Numbered, Next PROVE TypeNat'
  BY DEF TypeNat, vars, net, pools, usb, tasklet, mlme, mgnt
<1> USE DEF TxRec, TaskRec
<1>1. \A P \in SUBSET Packet : Complete(P) => done' \subseteq Packet /\ stopped' \subseteq Queue
  BY DEF TypeNat, Complete
<1>2. ASSUME NEW q \in Queue, XmitEntry(q) PROVE TypeNat'
  <2>1. next' \in [Queue -> 1 .. MaxPacket + 1]
    <3>1. next' = [next EXCEPT ![q] = next[q] + 1] /\ next[q] <= MaxPacket
      BY <1>2, EntryFacts, Zenon
    <3>2. next \in [Queue -> 1 .. MaxPacket + 1] /\ next[q] + 1 \in 1 .. MaxPacket + 1
      <4>1. next \in [Queue -> 1 .. MaxPacket + 1] /\ MaxPacket \in Nat
        BY XmitAssumption DEF TypeNat
      <4>2. next[q] \in 1 .. MaxPacket + 1
        BY <4>1
      <4> QED
        BY <3>1, <4>1, <4>2
    <3> QED
      BY <3>1, <3>2
  <2>2. tx' \in [Queue -> TxRec] /\ refused' \subseteq Queue
    BY <1>2, EntryFacts, Zenon
  <2>3. UNCHANGED <<stopped, done, pools, usb, tasklet, mlme, mgnt>>
    BY <1>2, EntryFacts, Zenon
  <2> QED
    BY <2>1, <2>2, <2>3 DEF TypeNat, pools, usb, tasklet, mlme, mgnt
<1>3. ASSUME NEW q \in Queue, StopQueue(q) \/ XmitAlloc(q) \/ XmitTakeBuf(q) PROVE TypeNat'
  <2>1. \E c \in TxPc : tx' = [tx EXCEPT ![q].pc = c]
    BY <1>3 DEF StopQueue, XmitAlloc, XmitTakeBuf, TxPc
  <2>2. tx' \in [Queue -> TxRec]
    BY <2>1, StayFacts, Zenon
  <2>3. frames' \in Nat /\ bufs' \in Nat /\ stopped' \subseteq Queue
    BY <1>3 DEF StopQueue, XmitAlloc, XmitTakeBuf, MustQueue, TypeNat, pools
  <2>4. UNCHANGED <<next, refused, done, exts, pend, usb, tasklet, mlme, mgnt>>
    BY <1>3 DEF StopQueue, XmitAlloc, XmitTakeBuf, pools
  <2> QED
    BY <2>2, <2>3, <2>4 DEF TypeNat, usb, tasklet, mlme, mgnt
<1>4. ASSUME NEW q \in Queue, XmitRefused(q) PROVE TypeNat'
  <2>1. tx' = [tx EXCEPT ![q] = TxIdle] /\ refused' = refused \cup {q}
    BY <1>4 DEF XmitRefused, Drop
  <2>2. tx' \in [Queue -> TxRec]
    BY <2>1, LeaveFacts, Zenon
  <2>3. UNCHANGED <<stopped, done, next, pools, usb, tasklet, mlme, mgnt>>
    BY <1>4 DEF XmitRefused, Drop
  <2> QED
    BY <2>1, <2>2, <2>3 DEF TypeNat, pools, usb, tasklet, mlme, mgnt
<1>5. ASSUME NEW q \in Queue, XmitEnqueue(q), tx[q].p \in Packet PROVE TypeNat'
  <2>1. /\ tx' = [tx EXCEPT ![q] = TxIdle] /\ pend' = [pend EXCEPT ![q] = Append(pend[q], tx[q].p)]
        /\ pend \in [Queue -> Seq(Packet)]
    BY <1>5 DEF XmitEnqueue, TypeNat
  <2>2. tx' \in [Queue -> TxRec]
    BY <2>1, LeaveFacts, Zenon
  <2>3. Append(pend[q], tx[q].p) \in Seq(Packet)
    BY <1>5, <2>1
  <2>4. pend' \in [Queue -> Seq(Packet)]
    BY <2>1, <2>3, QueueUpdate, Zenon
  <2>5. UNCHANGED <<next, stopped, refused, done, frames, bufs, exts, usb, tasklet, mlme, mgnt>>
    BY <1>5 DEF XmitEnqueue
  <2> QED
    BY <2>2, <2>4, <2>5 DEF TypeNat, usb, tasklet, mlme, mgnt
<1>6. ASSUME WritePort PROVE bufs' \in Nat /\ urbs' \in Nat
  BY <1>6 DEF WritePort, TypeNat
<1>7. ASSUME NEW q \in Queue, XmitDirect(q), tx[q].p \in Packet PROVE TypeNat'
  <2>1. tx' = [tx EXCEPT ![q] = TxIdle] /\ WritePort /\ Complete({tx[q].p}) /\ frames' \in Nat
    BY <1>7 DEF XmitDirect, TypeNat
  <2>2. tx' \in [Queue -> TxRec]
    BY <2>1, LeaveFacts, Zenon
  <2>3. UNCHANGED <<next, refused, exts, pend, eurbs, task, mlme, mgnt>>
    BY <1>7 DEF XmitDirect
  <2> QED
    BY <1>1, <1>6, <1>7, <2>1, <2>2, <2>3 DEF TypeNat, mlme, mgnt
<1>8. CASE TaskMoves
  <2>1. UNCHANGED <<net, pend>> /\ task' \in TaskRec
    BY <1>8, TaskMovesFacts, Zenon
  <2>2. /\ frames' \in Nat /\ bufs' \in Nat /\ exts' \in Nat /\ urbs' \in Nat /\ eurbs' \in Nat
        /\ UNCHANGED <<mlme, mgnt>>
    BY <1>6, <1>8 DEF TaskMoves, TaskStart, TaskTakeBuf, TaskEnd, TaskWrite, TaskNoFrame,
                      TaskGiveBack, TaskHangs, TaskDequeue, TypeNat, pools, usb
  <2> QED
    BY <2>1, <2>2 DEF TypeNat, net, mlme, mgnt
<1>9. CASE TaskTakes
  <2>1. PICK q \in Queue : /\ pend[q] # <<>> /\ pend' = [pend EXCEPT ![q] = Tail(pend[q])]
                           /\ task' \in TaskRec
                           /\ UNCHANGED <<net, frames, bufs, exts, usb, sched, silent, mlme, mgnt>>
    BY <1>9, DequeueFacts, Zenon
  <2>2. pend \in [Queue -> Seq(Packet)]
    BY DEF TypeNat
  <2>3. Tail(pend[q]) \in Seq(Packet)
    BY <2>1, <2>2
  <2>4. pend' \in [Queue -> Seq(Packet)]
    BY <2>1, <2>2, <2>3, QueueUpdate, Zenon
  <2> QED
    BY <2>1, <2>4 DEF TypeNat, net, usb, mlme, mgnt
<1>10. CASE TaskAggregate
  <2>1. PICK q \in Queue, k \in Nat :
          /\ k <= Len(pend[q]) /\ pend' = [pend EXCEPT ![q] = SubSeq(pend[q], k + 1, Len(pend[q]))]
          /\ frames' = frames + k /\ task' \in TaskRec
          /\ Complete(Range(task'.ps))
          /\ UNCHANGED <<tx, next, refused, bufs, exts, usb, sched, silent, mlme, mgnt>>
    BY <1>10, AggregateFacts, Zenon
  <2>2. pend \in [Queue -> Seq(Packet)] /\ frames' \in Nat
    BY <2>1 DEF TypeNat
  <2>3. k \in 0 .. Len(pend[q]) /\ pend[q] \in Seq(Packet)
    BY <2>1, <2>2
  <2>4. SubSeq(pend[q], k + 1, Len(pend[q])) \in Seq(Packet)
    BY <2>3, SplitFacts, Zenon
  <2>5. pend' \in [Queue -> Seq(Packet)]
    BY <2>1, <2>2, <2>4, QueueUpdate, Zenon
  <2>6. Range(task'.ps) \subseteq Packet
    BY <2>1 DEF Range
  <2>7. done' \subseteq Packet /\ stopped' \subseteq Queue
    BY <1>1, <2>1, <2>6
  <2> QED
    BY <2>1, <2>2, <2>5, <2>7 DEF TypeNat, usb, mlme, mgnt
<1>11. CASE Outside
  <2>1. UNCHANGED <<net, pend, task>>
    BY <1>11, OutsideFacts
  <2>2. CASE UrbComplete \/ ExtComplete
    <3>1. urbs' \in Nat /\ eurbs' \in Nat /\ bufs' \in Nat /\ exts' \in Nat /\ frames' = frames
      BY <2>2 DEF UrbComplete, ExtComplete, TypeNat
    <3>2. UNCHANGED <<mlme, mgnt>>
      BY <2>2 DEF UrbComplete, ExtComplete
    <3> QED
      BY <2>1, <3>1, <3>2 DEF TypeNat, net, mlme, mgnt
  <2>3. CASE Begin("survey") \/ Begin("linking")
    <3>1. /\ busy' \subseteq {"survey", "linking"} /\ events' \subseteq {"survey", "linking"}
          /\ UNCHANGED <<pools, usb, mgnt>>
      BY <2>3 DEF Begin, TypeNat
    <3>2. scans' \in 0 .. MaxScan
      BY <2>3, XmitAssumption DEF Begin, TypeNat
    <3> QED
      BY <2>1, <3>1, <3>2 DEF TypeNat, net, pools, usb, mgnt
  <2>4. CASE JoinPrehandle \/ JoinTimeout \/ ScanTimeout
    BY <2>1, <2>4 DEF JoinPrehandle, JoinTimeout, ScanTimeout, TypeNat, net, pools, usb, mgnt
  <2>5. CASE EventDone("survey") \/ EventDone("linking")
    BY <2>1, <2>5 DEF EventDone, TypeNat, net, pools, usb, mgnt
  <2>6. CASE XmitSchedule
    BY <2>1, <2>6 DEF XmitSchedule, TypeNat, net, pools, usb, mgnt
  <2>7. CASE MgmtAlloc \/ MgmtDump
    <3>1. frames' \in Nat /\ exts' \in Nat /\ lost' \in Nat /\ eurbs' \in Nat
      <4>1. frames \in Nat /\ exts \in Nat /\ lost \in Nat /\ eurbs \in Nat
        BY DEF TypeNat
      <4>2. CASE MgmtAlloc
        BY <4>1, <4>2 DEF MgmtAlloc, usb
      <4>3. CASE MgmtDump
        BY <4>1, <4>3 DEF MgmtDump
      <4> QED
        BY <2>7, <4>2, <4>3
    <3>2. mgmts' \in 0 .. MaxMgmt /\ mgmt' \in {"idle", "dump"}
      <4>1. mgmts \in 0 .. MaxMgmt /\ MaxMgmt \in Nat
        BY XmitAssumption DEF TypeNat
      <4>2. CASE MgmtAlloc
        BY <4>1, <4>2 DEF MgmtAlloc
      <4>3. CASE MgmtDump
        BY <4>1, <4>3 DEF MgmtDump
      <4> QED
        BY <2>7, <4>2, <4>3
    <3>3. UNCHANGED <<bufs, urbs, mlme>>
      BY <2>7 DEF MgmtAlloc, MgmtDump, usb
    <3> QED
      BY <2>1, <3>1, <3>2, <3>3 DEF TypeNat, net, mlme
  <2> QED
    BY <1>11, <2>2, <2>3, <2>4, <2>5, <2>6, <2>7 DEF Outside
<1>12. CASE FreeStainfo
  <2>1. frames' \in Nat /\ Complete(PendingPackets)
    BY <1>12, PendingFinite DEF FreeStainfo, TypeNat
  <2>2. pend' \in [Queue -> Seq(Packet)]
    BY <1>12 DEF FreeStainfo
  <2>3. UNCHANGED <<tx, next, refused, bufs, exts, usb, tasklet, mlme, mgnt>>
    BY <1>12 DEF FreeStainfo
  <2>4. done' \subseteq Packet /\ stopped' \subseteq Queue
    BY <1>1, <2>1, PendingFinite
  <2> QED
    BY <2>1, <2>2, <2>3, <2>4 DEF TypeNat, usb, tasklet, mlme, mgnt
<1>13. CASE Reinits
  <2>1. /\ pend' = [q \in Queue |-> <<>>]
        /\ UNCHANGED <<net, frames, bufs, exts, usb, tasklet, mlme, mgnt>>
    BY <1>13, ReinitFacts
  <2>2. pend' \in [Queue -> Seq(Packet)]
    BY <2>1
  <2> QED
    BY <2>1, <2>2 DEF TypeNat, net, usb, tasklet, mlme, mgnt
<1> QED
  <2>1. \A q \in Queue : XmitEnqueue(q) \/ XmitDirect(q) => tx[q].p \in Packet
    BY SenderPacket DEF XmitEnqueue, XmitDirect
  <2>2. TaskDequeue => TaskMoves \/ TaskTakes
    BY DEF TaskMoves, TaskTakes, TaskHangs
  <2> QED
    BY <1>2, <1>3, <1>4, <1>5, <1>7, <1>8, <1>9, <1>10, <1>11, <1>12, <1>13, <2>1, <2>2
       DEF Next, TaskMoves, Outside, Reinits

LEMMA StationNext == TypeNat /\ StationOK /\ [Next]_vars => StationOK'
<1> SUFFICES ASSUME TypeNat, StationOK, [Next]_vars PROVE StationOK'
  OBVIOUS
<1>1. CASE UNCHANGED <<sta, stale, swept, leaves>>
  BY <1>1 DEF StationOK
<1>2. CASE FreeStainfo
  <2>1. leaves \in 0 .. MaxLeave /\ MaxLeave \in Nat
    BY XmitAssumption DEF StationOK
  <2>2. leaves' \in 0 .. MaxLeave
    BY <1>2, <2>1 DEF FreeStainfo
  <2> QED
    BY <1>2, <2>2 DEF FreeStainfo, StationOK, Pending
<1>3. CASE Reinits
  BY <1>3, ReinitFacts, PendingFinite DEF StationOK
<1> QED
  BY <1>1, <1>2, <1>3, StationStays

LEMMA NoPackets ==
  ASSUME NEW s \in Seq(Packet), s = <<>>
  PROVE  Len(s) = 0 /\ Range(s) = {} /\ InOrder(s)
<1>1. Len(s) = 0 /\ DOMAIN s = {}
  OBVIOUS
<1> QED
  BY <1>1 DEF Range, InOrder

\* What one queue contributes to Numbered and QueueOrder.
QueueNumbered(q) ==
  /\ tx[q].pc # "idle" => next[q] > 1 /\ tx[q].p = <<q, next[q] - 1>>
  /\ \A x \in Range(pend[q]) : QueueOf(x) = q /\ x[2] < next[q]
QueueInOrder(q) ==
  /\ InOrder(pend[q]) /\ SentBefore(Range(task.ps), Range(pend[q]))
  /\ tx[q].pc # "idle" => SentBefore(Range(task.ps) \cup Range(pend[q]), {tx[q].p})
  /\ tx[q].pc = "direct" => pend[q] = <<>>
TaskNumbered == \A x \in Range(task.ps) \cup done : x[2] < next[QueueOf(x)]

LEMMA QueueWise ==
  /\ Numbered <=> (\A q \in Queue : QueueNumbered(q)) /\ TaskNumbered
  /\ QueueOrder <=> InOrder(task.ps) /\ \A q \in Queue : QueueInOrder(q)
  BY DEF Numbered, QueueNumbered, TaskNumbered, QueueOrder, QueueInOrder

LEMMA EntryOrder ==
  ASSUME IInv, NEW q \in Queue, XmitEntry(q)
  PROVE  TaskShape' /\ Numbered' /\ QueueOrder'
<1>1. /\ tx[q].pc = "idle" /\ next' = [next EXCEPT ![q] = next[q] + 1]
      /\ \A r \in Queue \ {q} : tx'[r] = tx[r]
      /\ \/ tx' = tx
         \/ tx'[q].pc \in {"stop", "alloc"} /\ tx'[q].p = <<q, next[q]>>
      /\ UNCHANGED <<pend, task, done>>
  BY EntryFacts DEF IInv, pools, tasklet
<1>2. next \in [Queue -> 1 .. MaxPacket + 1]
  BY DEF IInv, TypeNat
<1>3. /\ \A r \in Queue : next[r] \in Int /\ next'[r] \in Int /\ next'[r] >= next[r]
      /\ next'[q] = next[q] + 1 /\ next[q] >= 1 /\ \A r \in Queue \ {q} : next'[r] = next[r]
  BY <1>1, <1>2, XmitAssumption
<1>4. /\ \A x \in Range(task.ps) \cup done : QueueOf(x) \in Queue /\ x[2] \in Int
      /\ \A r \in Queue : \A x \in Range(pend[r]) : x[2] \in Int
  <2>1. /\ Range(task.ps) \subseteq Packet /\ done \subseteq Packet
        /\ \A r \in Queue : Range(pend[r]) \subseteq Packet
    BY DEF IInv, TypeNat, Range
  <2> QED
    BY <2>1, PacketFacts
<1>5. TaskShape'
  BY <1>1 DEF IInv, TaskShape
<1>6. TaskNumbered'
  BY <1>1, <1>3, <1>4 DEF IInv, Numbered, TaskNumbered
<1>7. ASSUME NEW r \in Queue PROVE QueueNumbered(r)' /\ QueueInOrder(r)'
  <2>1. QueueNumbered(r) /\ QueueInOrder(r)
    BY QueueWise DEF IInv
  <2>2. CASE r # q \/ tx' = tx
    <3>1. tx'[r] = tx[r] /\ (r # q => next'[r] = next[r]) /\ (r = q => tx[r].pc = "idle")
      BY <1>1, <1>3, <2>2
    <3> QED
      BY <1>1, <1>3, <1>4, <2>1, <3>1 DEF QueueNumbered, QueueInOrder
  <2>3. CASE r = q /\ tx'[q].pc \in {"stop", "alloc"} /\ tx'[q].p = <<q, next[q]>>
    <3>1. QueueNumbered(r)'
      BY <1>1, <1>3, <1>4, <2>1, <2>3 DEF QueueNumbered
    <3>2. SentBefore(Range(task.ps) \cup Range(pend[q]), {<<q, next[q]>>})
      BY <2>1, <2>3 DEF SentBefore, Earlier, QueueNumbered, QueueOf, IInv, Numbered
    <3> QED
      BY <1>1, <2>1, <2>3, <3>1, <3>2 DEF QueueInOrder
  <2> QED
    BY <1>1, <2>2, <2>3
<1>8. InOrder(task.ps)'
  BY <1>1 DEF IInv, QueueOrder
<1>9. Numbered'
  BY <1>6, <1>7 DEF Numbered, QueueNumbered, TaskNumbered
<1>10. QueueOrder'
  BY <1>7, <1>8 DEF QueueOrder, QueueInOrder
<1> QED
  BY <1>5, <1>9, <1>10

\* A sender goes on, or its packet leaves without being queued.
LEMMA SenderOrder ==
  ASSUME IInv, NEW q \in Queue, \A r \in Queue \ {q} : tx'[r] = tx[r],
         UNCHANGED <<next, pend, task>>,
         tx'[q].pc # "idle" => tx[q].pc # "idle" /\ tx'[q].p = tx[q].p,
         tx'[q].pc = "direct" => pend[q] = <<>>,
         \A x \in done' : x[2] < next[QueueOf(x)]
  PROVE  TaskShape' /\ Numbered' /\ QueueOrder'
<1>1. TaskShape' /\ TaskNumbered' /\ InOrder(task.ps)'
  BY DEF IInv, TaskShape, Numbered, TaskNumbered, QueueOrder
<1>2. ASSUME NEW r \in Queue PROVE QueueNumbered(r)' /\ QueueInOrder(r)'
  <2>1. QueueNumbered(r) /\ QueueInOrder(r)
    BY QueueWise DEF IInv
  <2>2. CASE r # q
    BY <2>1, <2>2 DEF QueueNumbered, QueueInOrder
  <2>3. CASE r = q
    BY <2>1, <2>3 DEF QueueNumbered, QueueInOrder
  <2> QED
    BY <2>2, <2>3
<1>3. Numbered'
  BY <1>1, <1>2 DEF Numbered, QueueNumbered, TaskNumbered
<1>4. QueueOrder'
  BY <1>1, <1>2 DEF QueueOrder, QueueInOrder
<1> QED
  BY <1>1, <1>3, <1>4

LEMMA EnqueueOrder ==
  ASSUME IInv, NEW q \in Queue, XmitEnqueue(q)
  PROVE  TaskShape' /\ Numbered' /\ QueueOrder'
<1>1. /\ tx[q].pc # "idle" /\ tx' = [tx EXCEPT ![q] = TxIdle]
      /\ pend' = [pend EXCEPT ![q] = Append(pend[q], tx[q].p)]
      /\ UNCHANGED <<next, task, done>>
  BY DEF XmitEnqueue, tasklet
<1>2. tx'[q].pc = "idle" /\ \A r \in Queue \ {q} : tx'[r] = tx[r]
  BY <1>1, LeaveFacts DEF IInv
<1>3. /\ tx[q].p \in Packet /\ pend \in [Queue -> Seq(Packet)] /\ pend[q] \in Seq(Packet)
      /\ next[q] \in Int
  <2>1. tx[q].p \in Packet
    BY <1>1, SenderPacket DEF IInv
  <2>2. pend \in [Queue -> Seq(Packet)] /\ next \in [Queue -> 1 .. MaxPacket + 1]
    BY DEF IInv, TypeNat
  <2> QED
    BY <2>1, <2>2, XmitAssumption
<1>4. QueueNumbered(q) /\ QueueInOrder(q)
  BY QueueWise DEF IInv
<1>5. /\ Append(pend[q], tx[q].p) \in Seq(Packet)
      /\ Range(Append(pend[q], tx[q].p)) = Range(pend[q]) \cup {tx[q].p}
      /\ InOrder(Append(pend[q], tx[q].p))
  <2>1. InOrder(pend[q]) /\ SentBefore(Range(pend[q]), {tx[q].p})
    BY <1>1, <1>4 DEF QueueInOrder, SentBefore
  <2> QED
    BY <1>3, <2>1, AppendFacts
<1>6. pend'[q] = Append(pend[q], tx[q].p) /\ \A r \in Queue \ {q} : pend'[r] = pend[r]
  BY <1>1, <1>3, <1>5, QueueUpdate, Zenon
<1>7. TaskShape' /\ TaskNumbered' /\ InOrder(task.ps)'
  BY <1>1 DEF IInv, TaskShape, Numbered, TaskNumbered, QueueOrder
<1>8. QueueNumbered(q)'
  <2>1. QueueOf(tx[q].p) = q /\ tx[q].p[2] < next[q]
    BY <1>1, <1>3, <1>4 DEF QueueNumbered, QueueOf
  <2> QED
    BY <1>1, <1>2, <1>4, <1>5, <1>6, <2>1 DEF QueueNumbered
<1>9. QueueInOrder(q)'
  <2>1. SentBefore(Range(task.ps), Range(pend[q]) \cup {tx[q].p})
    BY <1>1, <1>4 DEF QueueInOrder, SentBefore
  <2> QED
    BY <1>1, <1>2, <1>5, <1>6, <2>1 DEF QueueInOrder
<1>10. ASSUME NEW r \in Queue, r # q PROVE QueueNumbered(r)' /\ QueueInOrder(r)'
  <2>1. QueueNumbered(r) /\ QueueInOrder(r)
    BY QueueWise DEF IInv
  <2>2. tx'[r] = tx[r] /\ pend'[r] = pend[r] /\ UNCHANGED <<next, task>>
    BY <1>1, <1>2, <1>6, <1>10
  <2> QED
    BY <2>1, <2>2 DEF QueueNumbered, QueueInOrder
<1>11. Numbered'
  BY <1>7, <1>8, <1>10 DEF Numbered, QueueNumbered, TaskNumbered
<1>12. QueueOrder'
  BY <1>7, <1>9, <1>10 DEF QueueOrder, QueueInOrder
<1> QED
  BY <1>7, <1>11, <1>12

\* The tasklet has no packet any more.
LEMMA TaskMovesOrder ==
  ASSUME IInv, TaskMoves
  PROVE  TaskShape' /\ Numbered' /\ QueueOrder'
<1>1. /\ UNCHANGED <<tx, next, done, pend>>
      /\ task'.ps = <<>> /\ task'.pc \notin {"first", "write"} /\ task'.ps \in Seq(Packet)
  BY TaskMovesFacts DEF IInv, net, TaskRec
<1>2. Range(task'.ps) = {} /\ InOrder(task'.ps) /\ Len(task'.ps) = 0
  BY <1>1, NoPackets
<1>3. TaskShape'
  BY <1>1, <1>2, XmitAssumption DEF TaskShape
<1>4. Numbered'
  BY <1>1, <1>2 DEF IInv, Numbered
<1>5. QueueOrder'
  BY <1>1, <1>2 DEF IInv, QueueOrder, SentBefore
<1> QED
  BY <1>3, <1>4, <1>5

LEMMA DequeueOrder ==
  ASSUME IInv, TaskTakes
  PROVE  TaskShape' /\ Numbered' /\ QueueOrder'
<1>1. PICK q \in Queue :
           /\ pend[q] # <<>> /\ pend' = [pend EXCEPT ![q] = Tail(pend[q])]
           /\ task'.pc = "first" /\ Len(task'.ps) = 1
           /\ Range(task'.ps) = {Head(pend[q])} /\ InOrder(task'.ps)
           /\ UNCHANGED net
  BY DequeueFacts, Zenon DEF IInv
<1>2. UNCHANGED <<tx, next, done>> /\ pend \in [Queue -> Seq(Packet)] /\ pend[q] \in Seq(Packet)
  BY <1>1 DEF net, IInv, TypeNat
<1>3. \A r \in Queue : QueueNumbered(r) /\ QueueInOrder(r)
  BY QueueWise DEF IInv
<1> DEFINE h == Head(pend[q])
<1>4. /\ h \in Packet /\ Tail(pend[q]) \in Seq(Packet)
      /\ Range(pend[q]) = {h} \cup Range(Tail(pend[q]))
      /\ InOrder(Tail(pend[q])) /\ SentBefore({h}, Range(Tail(pend[q])))
  BY <1>1, <1>2, <1>3, TailFacts DEF QueueInOrder
<1>5. pend'[q] = Tail(pend[q]) /\ \A r \in Queue \ {q} : pend'[r] = pend[r]
  BY <1>1, <1>2, <1>4, QueueUpdate, Zenon
<1>6. QueueOf(h) = q /\ h[2] < next[q]
  BY <1>3, <1>4 DEF QueueNumbered
<1> HIDE DEF h
<1>7. TaskShape'
  BY <1>1, XmitAssumption DEF TaskShape
<1>8. TaskNumbered' /\ InOrder(task.ps)'
  <2>1. Range(task'.ps) = {h} /\ \A x \in done : x[2] < next[QueueOf(x)]
    BY <1>1 DEF h, IInv, Numbered
  <2> QED
    BY <1>1, <1>2, <1>6, <2>1 DEF TaskNumbered
<1>9. ASSUME NEW r \in Queue PROVE QueueNumbered(r)'
  <2>1. \A x \in Range(pend'[r]) : x \in Range(pend[r])
    BY <1>4, <1>5
  <2> QED
    BY <1>2, <1>3, <2>1 DEF QueueNumbered
<1>10. QueueInOrder(q)'
  <2>1. Range(task'.ps) \cup Range(pend'[q]) = Range(pend[q])
    BY <1>1, <1>4, <1>5 DEF h
  <2>2. tx[q].pc # "idle" => SentBefore(Range(pend[q]), {tx[q].p})
    BY <1>3 DEF QueueInOrder, SentBefore
  <2>3. tx[q].pc # "direct"
    BY <1>1, <1>3 DEF QueueInOrder
  <2> QED
    BY <1>1, <1>2, <1>4, <1>5, <2>1, <2>2, <2>3 DEF QueueInOrder, h
<1>11. ASSUME NEW r \in Queue, r # q PROVE QueueInOrder(r)'
  <2>1. pend'[r] = pend[r] /\ Range(task'.ps) = {h}
    BY <1>1, <1>5, <1>11 DEF h
  <2>2. SentBefore({h}, Range(pend[r]))
    BY <1>3, <1>6, <1>11 DEF SentBefore, Earlier, QueueNumbered
  <2>3. tx[r].pc # "idle" => SentBefore({h} \cup Range(pend[r]), {tx[r].p})
    <3> SUFFICES ASSUME tx[r].pc # "idle" PROVE SentBefore({h} \cup Range(pend[r]), {tx[r].p})
      OBVIOUS
    <3>1. QueueOf(tx[r].p) = r
      BY <1>3 DEF QueueNumbered, QueueOf
    <3>2. SentBefore(Range(pend[r]), {tx[r].p})
      BY <1>3 DEF QueueInOrder, SentBefore
    <3> QED
      BY <1>6, <1>11, <3>1, <3>2 DEF SentBefore, Earlier
  <2> QED
    BY <1>2, <1>3, <2>1, <2>2, <2>3 DEF QueueInOrder
<1>12. Numbered'
  BY <1>8, <1>9 DEF Numbered, QueueNumbered, TaskNumbered
<1>13. QueueOrder'
  BY <1>8, <1>10, <1>11 DEF QueueOrder, QueueInOrder
<1> QED
  BY <1>7, <1>12, <1>13

LEMMA AggregateOrder ==
  ASSUME IInv, TaskAggregate
  PROVE  TaskShape' /\ Numbered' /\ QueueOrder'
<1>1. PICK q \in Queue, k \in Nat :
              /\ k <= Len(pend[q])
              /\ q = QueueOf(task.ps[1]) /\ Range(task.ps) = {task.ps[1]}
              /\ pend' = [pend EXCEPT ![q] = SubSeq(pend[q], k + 1, Len(pend[q]))]
              /\ task'.pc = "write" /\ task'.ps = task.ps \o SubSeq(pend[q], 1, k)
              /\ Len(task'.ps) <= Burst
              /\ Range(task'.ps) = Range(task.ps) \cup Range(SubSeq(pend[q], 1, k))
              /\ Complete(Range(task'.ps))
              /\ UNCHANGED <<tx, next>>
  BY AggregateFacts, Zenon DEF IInv
<1> DEFINE more == SubSeq(pend[q], 1, k)
           rest == SubSeq(pend[q], k + 1, Len(pend[q]))
<1>2. /\ pend \in [Queue -> Seq(Packet)] /\ pend[q] \in Seq(Packet) /\ Len(pend[q]) \in Nat
      /\ k \in 0 .. Len(pend[q]) /\ task.ps \in Seq(Packet)
  BY <1>1 DEF IInv, TypeNat
<1>3. \A r \in Queue : QueueNumbered(r) /\ QueueInOrder(r)
  BY QueueWise DEF IInv
<1>4. /\ more \in Seq(Packet) /\ rest \in Seq(Packet) /\ Len(rest) = Len(pend[q]) - k
      /\ Range(pend[q]) = Range(more) \cup Range(rest)
      /\ InOrder(more) /\ InOrder(rest) /\ SentBefore(Range(more), Range(rest))
  <2>1. InOrder(pend[q])
    BY <1>3 DEF QueueInOrder
  <2> QED
    BY <1>2, <2>1, SplitFacts, Zenon
<1>5. /\ pend'[q] = rest /\ \A r \in Queue \ {q} : pend'[r] = pend[r]
      /\ task'.ps = task.ps \o more /\ Range(task'.ps) = Range(task.ps) \cup Range(more)
  BY <1>1, <1>2, <1>4, QueueUpdate, Zenon
<1>6. pend[q] = <<>> => rest = <<>>
  BY <1>2, <1>4
<1> HIDE DEF more, rest
<1>7. TaskShape'
  BY <1>1 DEF TaskShape
<1>8. InOrder(task'.ps)
  <2>1. InOrder(task.ps) /\ SentBefore(Range(task.ps), Range(more))
    BY <1>3, <1>4 DEF IInv, QueueOrder, QueueInOrder, SentBefore
  <2> QED
    BY <1>2, <1>4, <1>5, <2>1, ConcatFacts
<1>9. TaskNumbered'
  <2>1. done' = done \cup Range(task'.ps)
    BY <1>1 DEF Complete
  <2>2. \A x \in Range(task'.ps) : x[2] < next[QueueOf(x)]
    BY <1>3, <1>4, <1>5 DEF QueueNumbered, IInv, Numbered
  <2> QED
    BY <1>1, <2>1, <2>2 DEF TaskNumbered, IInv, Numbered
<1>10. \A x \in Range(task'.ps) : QueueOf(x) = q
  BY <1>1, <1>3, <1>4, <1>5 DEF QueueNumbered
<1>11. ASSUME NEW r \in Queue PROVE QueueNumbered(r)'
  <2>1. \A x \in Range(pend'[r]) : x \in Range(pend[r])
    BY <1>4, <1>5
  <2> QED
    BY <1>1, <1>3, <2>1 DEF QueueNumbered
<1>12. QueueInOrder(q)'
  <2>1. SentBefore(Range(task'.ps), Range(rest))
    BY <1>3, <1>4, <1>5 DEF QueueInOrder, SentBefore
  <2>2. tx[q].pc # "idle" => SentBefore(Range(task'.ps) \cup Range(rest), {tx[q].p})
    BY <1>3, <1>4, <1>5 DEF QueueInOrder, SentBefore
  <2>3. tx[q].pc = "direct" => rest = <<>>
    BY <1>3, <1>6 DEF QueueInOrder
  <2> QED
    BY <1>1, <1>4, <1>5, <2>1, <2>2, <2>3 DEF QueueInOrder
<1>13. ASSUME NEW r \in Queue, r # q PROVE QueueInOrder(r)'
  <2>1. pend'[r] = pend[r]
    BY <1>5, <1>13
  <2>2. SentBefore(Range(task'.ps), Range(pend[r]))
    BY <1>3, <1>10, <1>13 DEF SentBefore, Earlier, QueueNumbered
  <2>3. tx[r].pc # "idle" => SentBefore(Range(task'.ps) \cup Range(pend[r]), {tx[r].p})
    <3> SUFFICES ASSUME tx[r].pc # "idle"
                 PROVE  SentBefore(Range(task'.ps) \cup Range(pend[r]), {tx[r].p})
      OBVIOUS
    <3>1. QueueOf(tx[r].p) = r
      BY <1>3 DEF QueueNumbered, QueueOf
    <3>2. SentBefore(Range(pend[r]), {tx[r].p})
      BY <1>3 DEF QueueInOrder, SentBefore
    <3> QED
      BY <1>10, <1>13, <3>1, <3>2 DEF SentBefore, Earlier
  <2> QED
    BY <1>1, <1>3, <2>1, <2>2, <2>3 DEF QueueInOrder
<1>14. Numbered'
  BY <1>9, <1>11 DEF Numbered, QueueNumbered, TaskNumbered
<1>15. QueueOrder'
  BY <1>8, <1>12, <1>13 DEF QueueOrder, QueueInOrder
<1> QED
  BY <1>7, <1>14, <1>15

LEMMA FreeOrder ==
  ASSUME IInv, FreeStainfo \/ Reinits
  PROVE  TaskShape' /\ Numbered' /\ QueueOrder'
<1>1. /\ UNCHANGED <<tx, next, task>> /\ done' \subseteq done \cup PendingPackets
      /\ \A q \in Queue : pend'[q] = <<>> /\ pend'[q] \in Seq(Packet)
  <2>1. CASE FreeStainfo
    BY <2>1 DEF FreeStainfo, Complete, tasklet
  <2>2. CASE Reinits
    <3>1. pend' = [q \in Queue |-> <<>>] /\ UNCHANGED <<net, tasklet>>
      BY <2>2, ReinitFacts
    <3> QED
      BY <3>1 DEF net, tasklet
  <2> QED
    BY <2>1, <2>2
<1>2. TaskShape'
  BY <1>1 DEF IInv, TaskShape
<1>3. \A x \in PendingPackets : x[2] < next[QueueOf(x)]
  BY DEF PendingPackets, IInv, Numbered
<1>4. \A q \in Queue : Range(pend'[q]) = {} /\ InOrder(pend'[q])
  BY <1>1, NoPackets
<1>5. Numbered'
  BY <1>1, <1>3, <1>4 DEF IInv, Numbered
<1>6. QueueOrder'
  <2>1. InOrder(task.ps)'
    BY <1>1 DEF IInv, QueueOrder
  <2>2. ASSUME NEW q \in Queue PROVE QueueInOrder(q)'
    <3>1. tx[q].pc # "idle" => SentBefore(Range(task.ps), {tx[q].p})
      BY DEF IInv, QueueOrder, SentBefore
    <3> QED
      BY <1>1, <1>4, <3>1 DEF QueueInOrder, SentBefore
  <2> QED
    BY <2>1, <2>2 DEF QueueOrder, QueueInOrder
<1> QED
  BY <1>2, <1>5, <1>6

LEMMA NextIInv == IInv /\ [Next]_vars => IInv'
<1> SUFFICES ASSUME IInv, [Next]_vars PROVE IInv'
  OBVIOUS
<1>1. TypeNat' /\ StationOK' /\ Flags'
  BY TypeNext, StationNext, FlagsNext DEF IInv
<1>2. ASSUME UNCHANGED <<net, pend, task>> PROVE TaskShape' /\ Numbered' /\ QueueOrder'
  BY <1>2 DEF IInv, net, TaskShape, Numbered, QueueOrder
<1>3. ASSUME NEW q \in Queue, \/ XmitEntry(q) \/ StopQueue(q) \/ XmitRefused(q) \/ XmitAlloc(q)
                              \/ XmitEnqueue(q) \/ XmitTakeBuf(q) \/ XmitDirect(q)
      PROVE  TaskShape' /\ Numbered' /\ QueueOrder'
  <2>1. CASE XmitEntry(q) \/ XmitEnqueue(q)
    BY <2>1, EntryOrder, EnqueueOrder
  <2>2. CASE StopQueue(q) \/ XmitAlloc(q) \/ XmitTakeBuf(q)
    <3>1. \E c \in TxPc : /\ tx' = [tx EXCEPT ![q].pc = c] /\ tx[q].pc # "idle"
                          /\ c = "direct" => pend[q] = <<>>
      BY <2>2 DEF StopQueue, XmitAlloc, XmitTakeBuf, MustQueue, TxPc
    <3>2. UNCHANGED <<next, pend, task, done>>
      BY <2>2 DEF StopQueue, XmitAlloc, XmitTakeBuf, pools, tasklet
    <3>3. /\ \A r \in Queue \ {q} : tx'[r] = tx[r]
          /\ tx[q].pc # "idle" /\ tx'[q].p = tx[q].p
          /\ tx'[q].pc = "direct" => pend[q] = <<>>
      BY <3>1, StayFacts DEF IInv
    <3>4. \A x \in done' : x[2] < next[QueueOf(x)]
      BY <3>2 DEF IInv, Numbered
    <3> QED
      BY <3>2, <3>3, <3>4, SenderOrder
  <2>3. CASE XmitRefused(q) \/ XmitDirect(q)
    <3>1. tx' = [tx EXCEPT ![q] = TxIdle] /\ tx[q].pc # "idle"
      BY <2>3 DEF XmitRefused, Drop, XmitDirect
    <3>2. UNCHANGED <<next, pend, task>> /\ (done' = done \/ done' = done \cup {tx[q].p})
      BY <2>3 DEF XmitRefused, Drop, XmitDirect, Complete, pools, tasklet
    <3>3. tx'[q].pc = "idle" /\ \A r \in Queue \ {q} : tx'[r] = tx[r]
      BY <3>1, LeaveFacts DEF IInv
    <3>4. \A x \in done' : x[2] < next[QueueOf(x)]
      <4>1. next[q] \in Int /\ tx[q].p = <<q, next[q] - 1>>
        <5>1. next \in [Queue -> 1 .. MaxPacket + 1] /\ MaxPacket \in Nat
          BY XmitAssumption DEF IInv, TypeNat
        <5>2. tx[q].p = <<q, next[q] - 1>>
          BY <3>1 DEF IInv, Numbered
        <5> QED
          BY <5>1, <5>2
      <4>2. tx[q].p[2] < next[QueueOf(tx[q].p)]
        BY <4>1 DEF QueueOf
      <4> QED
        BY <3>2, <4>2 DEF IInv, Numbered
    <3> QED
      BY <3>2, <3>3, <3>4, SenderOrder
  <2> QED
    BY <1>3, <2>1, <2>2, <2>3
<1>4. ASSUME UNCHANGED vars PROVE TaskShape' /\ Numbered' /\ QueueOrder'
  BY <1>2, <1>4 DEF vars, pools, tasklet
<1>5. ASSUME TaskMoves \/ TaskTakes \/ TaskAggregate \/ FreeStainfo \/ Reinits
      PROVE  TaskShape' /\ Numbered' /\ QueueOrder'
  BY <1>5, TaskMovesOrder, DequeueOrder, AggregateOrder, FreeOrder
<1>6. ASSUME Outside PROVE TaskShape' /\ Numbered' /\ QueueOrder'
  BY <1>2, <1>6, OutsideFacts
<1>7. TaskShape' /\ Numbered' /\ QueueOrder'
  BY <1>3, <1>4, <1>5, <1>6 DEF Next, TaskMoves, TaskTakes, TaskHangs, Outside, Reinits
<1> QED
  BY <1>1, <1>7 DEF IInv

-----------------------------------------------------------------------------
(* Where a packet is held. *)

WithSender(x) == \E q \in Queue : tx[q].pc # "idle" /\ x = tx[q].p
WithTask(x) == task.pc = "first" /\ x \in Range(task.ps)
Waiting(x) == \E q \in Queue : x \in Range(pend[q])

LEMMA HeldWhere ==
  tx \in [Queue -> TxRec] => \A x : x \in Held <=> WithSender(x) \/ WithTask(x) \/ Waiting(x)
<1> SUFFICES ASSUME tx \in [Queue -> TxRec], NEW x
             PROVE  x \in Held <=> WithSender(x) \/ WithTask(x) \/ Waiting(x)
  OBVIOUS
<1>1. \A q \in Queue : q \in Senders(TxPc \ {"idle"}) <=> tx[q].pc # "idle"
  BY DEF Senders, TxRec
<1>2. x \in InTasklet <=> WithTask(x)
  BY DEF InTasklet, WithTask
<1>3. x \in PendingPackets <=> Waiting(x)
  BY DEF PendingPackets, Waiting
<1>4. x \in {tx[q].p : q \in Senders(TxPc \ {"idle"})} <=> WithSender(x)
  BY <1>1 DEF WithSender, Senders
<1> QED
  BY <1>2, <1>3, <1>4 DEF Held

\* A packet is in one place.
LEMMA SenderApart ==
  ASSUME IInv, NEW q \in Queue, tx[q].pc # "idle"
  PROVE  /\ tx[q].p \in Packet /\ QueueOf(tx[q].p) = q
         /\ \A r \in Queue \ {q} : tx[r].pc # "idle" => tx[r].p # tx[q].p
         /\ tx[q].p \notin Range(task.ps)
         /\ \A r \in Queue : tx[q].p \notin Range(pend[r])
<1>1. tx[q].p \in Packet
  BY SenderPacket DEF IInv
<1>2. \A r \in Queue : tx[r].pc # "idle" => QueueOf(tx[r].p) = r
  BY DEF IInv, Numbered, QueueOf
<1>3. ~Earlier(tx[q].p, tx[q].p)
  BY <1>1, PacketFacts DEF Earlier
<1>4. tx[q].p \notin Range(task.ps) /\ tx[q].p \notin Range(pend[q])
  BY <1>3 DEF IInv, QueueOrder, SentBefore
<1>5. \A r \in Queue : \A x \in Range(pend[r]) : QueueOf(x) = r
  BY DEF IInv, Numbered
<1> QED
  BY <1>1, <1>2, <1>4, <1>5

LEMMA TaskApart ==
  ASSUME IInv, NEW x \in Range(task.ps), NEW r \in Queue
  PROVE  x \notin Range(pend[r])
<1>1. x \in Packet
  BY DEF IInv, TypeNat, Range
<1>2. ~Earlier(x, x)
  BY <1>1, PacketFacts DEF Earlier
<1> QED
  BY <1>2 DEF IInv, QueueOrder, SentBefore

LEMMA HeldNumbered ==
  ASSUME IInv, NEW x \in Held
  PROVE  x \in Packet /\ x[2] < next[QueueOf(x)]
<1>1. tx \in [Queue -> TxRec]
  BY DEF IInv, TypeNat, TxRec
<1>2. WithSender(x) \/ WithTask(x) \/ Waiting(x)
  BY <1>1, HeldWhere
<1>3. CASE WithSender(x)
  <2>1. PICK q \in Queue : tx[q].pc # "idle" /\ x = tx[q].p
    BY <1>3 DEF WithSender
  <2>2. x = <<q, next[q] - 1>> /\ next[q] \in Int /\ x \in Packet
    <3>1. next \in [Queue -> 1 .. MaxPacket + 1] /\ MaxPacket \in Nat
      BY XmitAssumption DEF IInv, TypeNat
    <3>2. x = <<q, next[q] - 1>>
      BY <2>1 DEF IInv, Numbered
    <3>3. x \in Packet
      BY <2>1, SenderApart
    <3>4. next[q] \in Int
      BY <3>1
    <3> QED
      BY <3>2, <3>3, <3>4
  <2> QED
    BY <2>2 DEF QueueOf
<1>4. CASE WithTask(x)
  <2>1. x \in Range(task.ps) /\ task.ps \in Seq(Packet)
    BY <1>4 DEF WithTask, IInv, TypeNat
  <2>2. x \in Packet
    BY <2>1 DEF Range
  <2> QED
    BY <2>1, <2>2 DEF IInv, Numbered
<1>5. CASE Waiting(x)
  <2>1. PICK q \in Queue : x \in Range(pend[q])
    BY <1>5 DEF Waiting
  <2>2. x \in Packet
    BY <2>1 DEF IInv, TypeNat, Range
  <2> QED
    BY <2>1, <2>2 DEF IInv, Numbered
<1> QED
  BY <1>2, <1>3, <1>4, <1>5

-----------------------------------------------------------------------------
(* What a step can do to the packets of the driver. *)

Keeps == Held' = Held /\ UNCHANGED <<next, stopped, refused, done>>
Stops(q) ==
  /\ tx[q].p \in Held /\ QueueOf(tx[q].p) = q
  /\ stopped' = stopped \cup {q} /\ Held' = Held /\ UNCHANGED <<next, refused, done>>
Enters(q) ==
  /\ q \notin stopped /\ <<q, next[q]>> \in Packet
  /\ next' = [next EXCEPT ![q] = next[q] + 1]
  /\ Held' = Held \cup {<<q, next[q]>>} \/ Held' = Held
  /\ \A r \in Queue \ {q} : r \in refused => r \in refused'
  /\ UNCHANGED <<stopped, done>>
Refuses(p) ==
  /\ p \in Held /\ Held' = Held \ {p} /\ refused' = refused \cup {QueueOf(p)}
  /\ UNCHANGED <<next, stopped, done>>
Finishes(P) ==
  /\ P # {} /\ P \subseteq Held /\ Held' = Held \ P
  /\ Complete(P) /\ UNCHANGED <<next, refused>>
Sweeps(P) ==
  /\ Held' = Held \ P /\ swept' = swept \cup P
  /\ UNCHANGED <<next, stopped, refused, done>>

\* The places before and after a step.
LEMMA HeldWhereNext ==
  ASSUME IInv, IInv'
  PROVE  /\ \A x : x \in Held <=> WithSender(x) \/ WithTask(x) \/ Waiting(x)
         /\ \A x : x \in Held' <=> WithSender(x)' \/ WithTask(x)' \/ Waiting(x)'
<1>1. tx \in [Queue -> TxRec] /\ tx' \in [Queue -> TxRec]
  BY DEF IInv, TypeNat, TxRec
<1>2. (tx \in [Queue -> TxRec])' => (\A x : x \in Held <=> WithSender(x) \/ WithTask(x) \/ Waiting(x))'
  BY HeldWhere, PTL
<1> QED
  BY <1>1, <1>2, HeldWhere

LEMMA SenderStep ==
  ASSUME IInv, IInv', NEW q \in Queue, tx[q].pc # "idle",
         \A r \in Queue \ {q} : tx'[r] = tx[r], UNCHANGED <<pend, task>>
  PROVE  /\ tx[q].p \in Held
         /\ tx'[q].pc = "idle" => Held' = Held \ {tx[q].p}
         /\ tx'[q].pc # "idle" /\ tx'[q].p = tx[q].p => Held' = Held
<1>1. \A x : (WithTask(x)' <=> WithTask(x)) /\ (Waiting(x)' <=> Waiting(x))
  BY DEF WithTask, Waiting
<1>2. WithSender(tx[q].p) /\ ~WithTask(tx[q].p) /\ ~Waiting(tx[q].p)
  BY SenderApart DEF WithSender, WithTask, Waiting
<1>3. ASSUME tx'[q].pc = "idle", NEW x PROVE WithSender(x)' <=> WithSender(x) /\ x # tx[q].p
  BY <1>3, SenderApart DEF WithSender
<1>4. ASSUME tx'[q].pc # "idle", tx'[q].p = tx[q].p, NEW x PROVE WithSender(x)' <=> WithSender(x)
  BY <1>4 DEF WithSender
<1> QED
  BY <1>1, <1>2, <1>3, <1>4, HeldWhereNext

LEMMA EntryStep ==
  ASSUME IInv, IInv', NEW q \in Queue, XmitEntry(q)
  PROVE  Enters(q)
<1>1. /\ q \notin stopped /\ tx[q].pc = "idle" /\ <<q, next[q]>> \in Packet
      /\ next' = [next EXCEPT ![q] = next[q] + 1]
      /\ \A r \in Queue \ {q} : tx'[r] = tx[r]
      /\ \/ tx' = tx
         \/ tx'[q].pc \in {"stop", "alloc"} /\ tx'[q].p = <<q, next[q]>>
      /\ \A r \in Queue \ {q} : r \in refused => r \in refused'
      /\ UNCHANGED <<stopped, done, pend, task>>
  BY EntryFacts DEF IInv, pools, tasklet
<1>2. \A x : (WithTask(x)' <=> WithTask(x)) /\ (Waiting(x)' <=> Waiting(x))
  BY <1>1 DEF WithTask, Waiting
<1>3. CASE tx' = tx
  <2>1. \A x : WithSender(x)' <=> WithSender(x)
    BY <1>3 DEF WithSender
  <2>2. Held' = Held
    BY <1>2, <2>1, HeldWhereNext
  <2> QED
    BY <1>1, <2>2 DEF Enters
<1>4. CASE tx'[q].pc \in {"stop", "alloc"} /\ tx'[q].p = <<q, next[q]>>
  <2>1. \A x : WithSender(x)' <=> WithSender(x) \/ x = <<q, next[q]>>
    BY <1>1, <1>4 DEF WithSender
  <2>2. Held' = Held \cup {<<q, next[q]>>}
    BY <1>2, <2>1, HeldWhereNext
  <2> QED
    BY <1>1, <2>2 DEF Enters
<1> QED
  BY <1>1, <1>3, <1>4

LEMMA EnqueueStep ==
  ASSUME IInv, IInv', NEW q \in Queue, XmitEnqueue(q)
  PROVE  Keeps /\ NrPending' = NrPending + 1
<1>1. /\ tx[q].pc # "idle" /\ tx' = [tx EXCEPT ![q] = TxIdle]
      /\ pend' = [pend EXCEPT ![q] = Append(pend[q], tx[q].p)]
      /\ UNCHANGED <<next, stopped, refused, done, task>>
  BY DEF XmitEnqueue, tasklet
<1>2. tx'[q].pc = "idle" /\ \A r \in Queue \ {q} : tx'[r] = tx[r]
  BY <1>1, LeaveFacts DEF IInv
<1>3. tx[q].p \in Packet /\ pend \in [Queue -> Seq(Packet)] /\ pend[q] \in Seq(Packet)
  BY <1>1, SenderPacket DEF IInv, TypeNat
<1>4. Append(pend[q], tx[q].p) \in Seq(Packet)
  BY <1>3
<1>5. pend'[q] = Append(pend[q], tx[q].p) /\ \A r \in Queue \ {q} : pend'[r] = pend[r]
  BY <1>1, <1>3, <1>4, QueueUpdate, Zenon
<1>6. Range(pend'[q]) = Range(pend[q]) \cup {tx[q].p}
  BY <1>3, <1>5, AppendFacts
<1>7. \A x : WithSender(x)' <=> WithSender(x) /\ x # tx[q].p
  BY <1>1, <1>2, SenderApart DEF WithSender
<1>8. \A x : Waiting(x)' <=> Waiting(x) \/ x = tx[q].p
  BY <1>5, <1>6 DEF Waiting
<1>9. \A x : WithTask(x)' <=> WithTask(x)
  BY <1>1 DEF WithTask
<1>10. WithSender(tx[q].p)
  BY <1>1 DEF WithSender
<1>11. Held' = Held
  BY <1>7, <1>8, <1>9, <1>10, HeldWhereNext
<1>12. PendingPackets' = PendingPackets \cup {tx[q].p} /\ tx[q].p \notin PendingPackets
  <2>1. \A x : (x \in PendingPackets <=> Waiting(x)) /\ (x \in PendingPackets' <=> Waiting(x)')
    BY DEF PendingPackets, Waiting
  <2>2. ~Waiting(tx[q].p)
    BY <1>1, SenderApart DEF Waiting
  <2> QED
    BY <1>8, <2>1, <2>2
<1>13. NrPending' = NrPending + 1
  BY <1>12, PendingFinite, FS_AddElement DEF NrPending, IInv
<1> QED
  BY <1>1, <1>11, <1>13 DEF Keeps

LEMMA TaskMovesStep ==
  ASSUME IInv, IInv', TaskMoves
  PROVE  Keeps
<1>1. UNCHANGED <<net, pend>> /\ task.pc # "first" /\ task'.pc # "first"
  BY TaskMovesFacts DEF IInv
<1>2. \A x : /\ (WithSender(x)' <=> WithSender(x)) /\ (Waiting(x)' <=> Waiting(x))
             /\ (WithTask(x)' <=> WithTask(x))
  BY <1>1 DEF WithSender, Waiting, WithTask, net
<1>3. Held' = Held
  BY <1>2, HeldWhereNext
<1> QED
  BY <1>1, <1>3 DEF Keeps, net

LEMMA DequeueStep ==
  ASSUME IInv, IInv', TaskTakes
  PROVE  Keeps /\ NrPending' = NrPending - 1
<1>1. PICK q \in Queue :
           /\ pend[q] # <<>> /\ pend' = [pend EXCEPT ![q] = Tail(pend[q])]
           /\ task.pc = "buf" /\ task'.pc = "first"
           /\ Range(task'.ps) = {Head(pend[q])}
           /\ UNCHANGED net
  BY DequeueFacts, Zenon DEF IInv
<1>2. UNCHANGED <<tx, next, stopped, refused, done>> /\ pend \in [Queue -> Seq(Packet)] /\ pend[q] \in Seq(Packet)
  BY <1>1 DEF net, IInv, TypeNat
<1>3. Tail(pend[q]) \in Seq(Packet) /\ Range(pend[q]) = {Head(pend[q])} \cup Range(Tail(pend[q]))
  BY <1>1, <1>2, TailFacts
<1>4. pend'[q] = Tail(pend[q]) /\ \A r \in Queue \ {q} : pend'[r] = pend[r]
  BY <1>1, <1>2, <1>3, QueueUpdate, Zenon
<1> DEFINE h == Head(pend[q])
<1>5. /\ Range(pend[q]) = {h} \cup Range(pend'[q]) /\ Range(task'.ps) = {h}
  BY <1>1, <1>3, <1>4
<1> HIDE DEF h
<1>6. \A x : (WithSender(x)' <=> WithSender(x)) /\ ~WithTask(x) /\ (WithTask(x)' <=> x = h)
  BY <1>1, <1>2, <1>5 DEF WithSender, WithTask
<1>7. \A x : Waiting(x) <=> Waiting(x)' \/ x = h
  BY <1>4, <1>5 DEF Waiting
<1>8. Held' = Held
  BY <1>6, <1>7, HeldWhereNext
<1>9. h \notin Range(pend'[q]) /\ QueueOf(h) = q
  <2>1. h \in Packet /\ QueueOf(h) = q
    <3>1. h \in Range(pend[q])
      BY <1>5
    <3>2. h \in Packet
      BY <1>2, <3>1 DEF Range
    <3> QED
      BY <3>1, <3>2 DEF IInv, Numbered
  <2>2. ~Earlier(h, h)
    BY <2>1, PacketFacts DEF Earlier
  <2>3. SentBefore(Range(task'.ps), Range(pend'[q]))
    BY DEF IInv, QueueOrder
  <2> QED
    BY <1>5, <2>1, <2>2, <2>3 DEF SentBefore
<1>10. PendingPackets' = PendingPackets \ {h} /\ h \in PendingPackets
  <2>1. \A r \in Queue \ {q} : h \notin Range(pend'[r])
    BY <1>4, <1>9 DEF IInv, Numbered
  <2>2. \A x : x \in PendingPackets' <=> x \in PendingPackets /\ x # h
    BY <1>4, <1>5, <1>9, <2>1 DEF PendingPackets
  <2> QED
    BY <1>5, <2>2 DEF PendingPackets
<1>11. NrPending' = NrPending - 1
  BY <1>10, PendingFinite, FS_RemoveElement DEF NrPending, IInv
<1> QED
  BY <1>2, <1>8, <1>11 DEF Keeps

LEMMA AggregateStep ==
  ASSUME IInv, IInv', TaskAggregate
  PROVE  Finishes(Range(task'.ps)) /\ frames' + NrPending' = frames + NrPending
<1>1. PICK q \in Queue, k \in Nat :
              /\ task.pc = "first" /\ k <= Len(pend[q])
              /\ Range(task.ps) = {task.ps[1]}
              /\ pend' = [pend EXCEPT ![q] = SubSeq(pend[q], k + 1, Len(pend[q]))]
              /\ task'.pc = "write" /\ frames' = frames + k
              /\ Range(task'.ps) = Range(task.ps) \cup Range(SubSeq(pend[q], 1, k))
              /\ Complete(Range(task'.ps))
              /\ UNCHANGED <<tx, next, refused>>
  BY AggregateFacts, Zenon DEF IInv
<1> DEFINE more == SubSeq(pend[q], 1, k)
           rest == SubSeq(pend[q], k + 1, Len(pend[q]))
<1>2. /\ pend \in [Queue -> Seq(Packet)] /\ pend[q] \in Seq(Packet) /\ Len(pend[q]) \in Nat
      /\ k \in 0 .. Len(pend[q])
  BY <1>1, SMTT(60) DEF IInv, TypeNat
<1>3. /\ rest \in Seq(Packet) /\ Range(pend[q]) = Range(more) \cup Range(rest)
      /\ SentBefore(Range(more), Range(rest)) /\ InOrder(more)
      /\ more \in Seq(Packet) /\ Len(more) = k
  <2>1. InOrder(pend[q])
    BY DEF IInv, QueueOrder
  <2> QED
    BY <1>2, <2>1, SplitFacts, Zenon
<1>4. /\ pend'[q] = rest /\ \A r \in Queue \ {q} : pend'[r] = pend[r]
      /\ Range(task'.ps) = Range(task.ps) \cup Range(more)
  BY <1>1, <1>2, <1>3, QueueUpdate, Zenon
<1> HIDE DEF more, rest
<1>5. \A x \in Range(more) : x \notin Range(rest)
  <2> SUFFICES ASSUME NEW x \in Range(more), x \in Range(rest) PROVE FALSE
    OBVIOUS
  <2>1. x \in Packet
    BY <1>3 DEF Range
  <2>2. Earlier(x, x)
    BY <1>3 DEF SentBefore
  <2> QED
    BY <2>1, <2>2, PacketFacts DEF Earlier
<1>6. \A x \in Range(more) : QueueOf(x) = q /\ \A r \in Queue \ {q} : x \notin Range(pend[r])
  BY <1>3 DEF IInv, Numbered
<1>7. \A x : /\ (WithSender(x)' <=> WithSender(x)) /\ (WithTask(x) <=> x \in Range(task.ps))
             /\ ~WithTask(x)'
  BY <1>1 DEF WithSender, WithTask
<1>8. \A x : Waiting(x)' <=> Waiting(x) /\ x \notin Range(more)
  BY <1>3, <1>4, <1>5, <1>6 DEF Waiting
<1>9. \A x \in Range(more) : Waiting(x)
  BY <1>3 DEF Waiting
<1>10. \A x \in Range(task'.ps) : ~WithSender(x)
  <2>1. ASSUME NEW r \in Queue, tx[r].pc # "idle" PROVE tx[r].p \notin Range(task'.ps)
    <3>1. tx[r].p \notin Range(task.ps) /\ tx[r].p \notin Range(pend[q])
      BY <2>1, SenderApart
    <3> QED
      BY <1>3, <1>4, <3>1
  <2> QED
    BY <2>1 DEF WithSender
<1>11. \A x \in Range(task.ps) : ~Waiting(x)
  BY TaskApart DEF Waiting
<1>12. Held' = Held \ Range(task'.ps) /\ Range(task'.ps) \subseteq Held
  BY <1>4, <1>7, <1>8, <1>9, <1>10, <1>11, HeldWhereNext
<1>13. IsFiniteSet(Range(more)) /\ Cardinality(Range(more)) = k
  BY <1>3, <1>6, CountFacts
<1>14. PendingPackets' = PendingPackets \ Range(more) /\ Range(more) \subseteq PendingPackets
  BY <1>8, <1>9 DEF PendingPackets, Waiting
<1>15. NrPending' = NrPending - k /\ NrPending \in Nat /\ frames \in Nat
  <2>1. IsFiniteSet(PendingPackets) /\ NrPending \in Nat /\ frames \in Nat
    BY PendingFinite DEF NrPending, IInv, TypeNat
  <2>2. PendingPackets \cap Range(more) = Range(more)
    BY <1>14
  <2>3. Cardinality(PendingPackets \ Range(more)) = Cardinality(PendingPackets) - Cardinality(Range(more))
    BY <2>1, <2>2, FS_Difference
  <2> QED
    BY <1>13, <1>14, <2>1, <2>3 DEF NrPending
<1>16. frames' + NrPending' = frames + NrPending
  BY <1>1, <1>15
<1> QED
  BY <1>1, <1>4, <1>12, <1>16 DEF Finishes

\* The pending queues are emptied.
LEMMA EmptiedStep ==
  ASSUME IInv, IInv', UNCHANGED <<tx, task>>, \A q \in Queue : pend'[q] = <<>>
  PROVE  /\ Held' = Held \ PendingPackets /\ PendingPackets \subseteq Held
         /\ PendingPackets' = {} /\ NrPending' = 0 /\ NrPending \in Nat
<1>1. \A q \in Queue : pend'[q] \in Seq(Packet)
  BY DEF IInv, TypeNat
<1>2. \A q \in Queue : Range(pend'[q]) = {}
  BY <1>1, NoPackets
<1>3. \A x : /\ (WithSender(x)' <=> WithSender(x)) /\ (WithTask(x)' <=> WithTask(x))
             /\ ~Waiting(x)' /\ (x \in PendingPackets <=> Waiting(x))
  BY <1>2 DEF WithSender, WithTask, Waiting, PendingPackets
<1>4. \A x : Waiting(x) => ~WithSender(x) /\ ~WithTask(x)
  BY SenderApart, TaskApart DEF WithSender, WithTask, Waiting
<1>5. Held' = Held \ PendingPackets /\ PendingPackets \subseteq Held
  BY <1>3, <1>4, HeldWhereNext
<1>6. PendingPackets' = {}
  BY <1>3 DEF PendingPackets, Waiting
<1> QED
  BY <1>5, <1>6, FS_EmptySet, PendingFinite DEF NrPending, IInv

LEMMA FreeStep ==
  ASSUME IInv, IInv', FreeStainfo
  PROVE  /\ Finishes(PendingPackets) \/ Keeps
         /\ frames' + NrPending' = frames + NrPending
<1>1. /\ UNCHANGED <<tx, next, refused, task>> /\ Complete(PendingPackets)
      /\ \A q \in Queue : pend'[q] = <<>>
  BY DEF FreeStainfo, tasklet
<1>2. /\ Held' = Held \ PendingPackets /\ PendingPackets \subseteq Held
      /\ NrPending' = 0 /\ NrPending \in Nat
  BY <1>1, EmptiedStep
<1>3. frames' = frames + NrPending /\ frames \in Nat
  BY DEF FreeStainfo, NrPending, IInv, TypeNat
<1>4. CASE PendingPackets = {}
  BY <1>1, <1>2, <1>3, <1>4 DEF Keeps, Complete
<1>5. CASE PendingPackets # {}
  BY <1>1, <1>2, <1>3, <1>5 DEF Finishes
<1> QED
  BY <1>4, <1>5

LEMMA ReinitStep ==
  ASSUME IInv, IInv', Reinits
  PROVE  /\ PendingPackets \subseteq Held /\ Sweeps(PendingPackets)
         /\ NrPending' = 0 /\ NrPending \in Nat
<1>1. /\ UNCHANGED <<tx, next, stopped, refused, done, task>> /\ \A q \in Queue : pend'[q] = <<>>
      /\ swept' = swept \cup PendingPackets
  BY ReinitFacts DEF net, tasklet
<1>2. /\ Held' = Held \ PendingPackets /\ PendingPackets \subseteq Held
      /\ NrPending' = 0 /\ NrPending \in Nat
  BY <1>1, EmptiedStep
<1> QED
  BY <1>1, <1>2 DEF Sweeps

LEMMA Steps ==
  ASSUME IInv, IInv', [Next]_vars
  PROVE  \/ /\ UNCHANGED swept
            /\ \/ Keeps \/ \E q \in Queue : Stops(q) \/ Enters(q)
               \/ \E p \in Held : Refuses(p)
               \/ \E P \in SUBSET Held : Finishes(P)
         \/ \E P \in SUBSET Held : Sweeps(P)
<1>1. ASSUME UNCHANGED <<net, pend, task>> PROVE Keeps
  <2>1. \A x : /\ (WithSender(x)' <=> WithSender(x)) /\ (Waiting(x)' <=> Waiting(x))
               /\ (WithTask(x)' <=> WithTask(x))
    BY <1>1 DEF WithSender, Waiting, WithTask, net
  <2>2. Held' = Held
    BY <2>1, HeldWhereNext
  <2> QED
    BY <1>1, <2>2 DEF Keeps, net
<1>2. ASSUME NEW q \in Queue, StopQueue(q) PROVE Stops(q)
  <2>1. /\ tx' = [tx EXCEPT ![q].pc = "alloc"] /\ tx[q].pc # "idle" /\ "alloc" \in TxPc
        /\ stopped' = stopped \cup {q} /\ UNCHANGED <<next, refused, done, pend, task>>
    BY <1>2 DEF StopQueue, TxPc, pools, tasklet
  <2>2. tx'[q].pc = "alloc" /\ tx'[q].p = tx[q].p /\ \A r \in Queue \ {q} : tx'[r] = tx[r]
    BY <2>1, StayFacts DEF IInv
  <2>3. tx[q].p \in Held /\ Held' = Held
    BY <2>1, <2>2, SenderStep
  <2> QED
    BY <2>1, <2>3, SenderApart DEF Stops
<1>3. ASSUME NEW q \in Queue, XmitAlloc(q) \/ XmitTakeBuf(q) PROVE Keeps
  <2>1. /\ \E c \in TxPc \ {"idle"} : tx' = [tx EXCEPT ![q].pc = c]
        /\ tx[q].pc # "idle" /\ UNCHANGED <<next, stopped, refused, done, pend, task>>
    BY <1>3 DEF XmitAlloc, XmitTakeBuf, TxPc, tasklet
  <2>2. tx'[q].pc # "idle" /\ tx'[q].p = tx[q].p /\ \A r \in Queue \ {q} : tx'[r] = tx[r]
    BY <2>1, StayFacts DEF IInv
  <2>3. Held' = Held
    BY <2>1, <2>2, SenderStep
  <2> QED
    BY <2>1, <2>3 DEF Keeps
<1>4. ASSUME NEW q \in Queue, XmitRefused(q) \/ XmitDirect(q)
      PROVE  tx[q].p \in Held /\ (Refuses(tx[q].p) \/ Finishes({tx[q].p}))
  <2>1. tx' = [tx EXCEPT ![q] = TxIdle] /\ tx[q].pc # "idle" /\ UNCHANGED <<next, pend, task>>
    BY <1>4 DEF XmitRefused, Drop, XmitDirect, pools, tasklet
  <2>2. tx'[q].pc = "idle" /\ \A r \in Queue \ {q} : tx'[r] = tx[r]
    BY <2>1, LeaveFacts DEF IInv
  <2>3. tx[q].p \in Held /\ Held' = Held \ {tx[q].p} /\ QueueOf(tx[q].p) = q
    BY <2>1, <2>2, SenderStep, SenderApart
  <2>4. CASE XmitRefused(q)
    BY <2>1, <2>3, <2>4 DEF XmitRefused, Drop, Refuses
  <2>5. CASE XmitDirect(q)
    BY <2>1, <2>3, <2>5 DEF XmitDirect, Finishes
  <2> QED
    BY <1>4, <2>3, <2>4, <2>5
<1>5. ASSUME NEW q \in Queue, XmitEntry(q) \/ XmitEnqueue(q) PROVE Enters(q) \/ Keeps
  BY <1>5, EntryStep, EnqueueStep
<1>6. ASSUME TaskMoves \/ TaskTakes PROVE Keeps
  BY <1>6, TaskMovesStep, DequeueStep
<1>7. ASSUME TaskAggregate \/ FreeStainfo PROVE Keeps \/ \E P \in SUBSET Held : Finishes(P)
  BY <1>7, AggregateStep, FreeStep DEF Finishes
<1>8. ASSUME Outside \/ UNCHANGED vars PROVE Keeps
  BY <1>1, <1>8, OutsideFacts DEF vars, pools, tasklet
<1>9. ASSUME Reinits PROVE \E P \in SUBSET Held : Sweeps(P)
  BY <1>9, ReinitStep
<1>10. FreeStainfo \/ ~Reinits => UNCHANGED swept
  BY StationStays DEF FreeStainfo
<1>11. CASE Reinits
  BY <1>9, <1>11
<1>12. CASE ~Reinits
  <2>1. UNCHANGED swept
    BY <1>10, <1>12
  <2>2. \/ Keeps \/ \E q \in Queue : Stops(q) \/ Enters(q)
        \/ \E p \in Held : Refuses(p)
        \/ \E P \in SUBSET Held : Finishes(P)
    BY <1>2, <1>3, <1>4, <1>5, <1>6, <1>7, <1>8, <1>12
       DEF Next, TaskMoves, TaskTakes, TaskHangs, Outside, Reinits
  <2> QED
    BY <2>1, <2>2
<1> QED
  BY <1>11, <1>12

-----------------------------------------------------------------------------
(* The contract with the network layer. *)

LEMMA NextContract ==
  ASSUME IInv, IInv', DoneIsGone, SweptApart, StoppedHasPacket, [Next]_vars
  PROVE  DoneIsGone' /\ SweptApart' /\ StoppedHasPacket'
<1> DEFINE Contract == DoneIsGone /\ SweptApart /\ StoppedHasPacket
<1>0. UNCHANGED swept => Torn' = Torn
  BY DEF Torn
<1>1. ASSUME UNCHANGED swept, Keeps PROVE Contract'
  BY <1>0, <1>1 DEF Keeps, DoneIsGone, SweptApart, StoppedHasPacket
<1>2. ASSUME UNCHANGED swept, NEW q \in Queue, Stops(q) PROVE Contract'
  BY <1>0, <1>2 DEF Stops, DoneIsGone, SweptApart, StoppedHasPacket
<1>3. ASSUME UNCHANGED swept, NEW q \in Queue, Enters(q) PROVE Contract'
  <2>1. <<q, next[q]>> \notin done /\ <<q, next[q]>> \notin swept
    <3> SUFFICES ASSUME <<q, next[q]>> \in done \cup swept PROVE FALSE
      OBVIOUS
    <3>1. <<q, next[q]>>[2] < next[QueueOf(<<q, next[q]>>)]
      BY DEF IInv, Numbered, SweptApart
    <3>2. next[q] \in Int
      BY XmitAssumption DEF IInv, TypeNat
    <3> QED
      BY <3>1, <3>2 DEF QueueOf
  <2>2. DoneIsGone'
    BY <1>3, <2>1 DEF Enters, DoneIsGone
  <2>3. \A r \in stopped : r \in Queue \ {q}
    BY <1>3 DEF Enters, IInv, TypeNat
  <2>4. StoppedHasPacket'
    BY <1>0, <1>3, <2>3 DEF Enters, StoppedHasPacket
  <2>5. swept' \cap Held' = {} /\ swept' \cap done' = {}
    BY <1>3, <2>1 DEF Enters, SweptApart
  <2>6. ASSUME NEW x \in swept PROVE x[2] < next'[QueueOf(x)]
    <3>1. x[2] \in Int /\ QueueOf(x) \in Queue /\ x[2] < next[QueueOf(x)]
      BY PacketFacts DEF SweptApart, IInv, StationOK
    <3>2. next \in [Queue -> 1 .. MaxPacket + 1] /\ next' = [next EXCEPT ![q] = next[q] + 1]
      BY <1>3 DEF Enters, IInv, TypeNat
    <3>3. next[QueueOf(x)] \in Int /\ next'[QueueOf(x)] \in Int /\ next'[QueueOf(x)] >= next[QueueOf(x)]
      BY <3>1, <3>2, XmitAssumption
    <3> QED
      BY <3>1, <3>3
  <2> QED
    BY <1>3, <2>2, <2>4, <2>5, <2>6 DEF SweptApart
<1>4. ASSUME UNCHANGED swept, NEW p \in Held, Refuses(p) PROVE Contract'
  <2>1. DoneIsGone' /\ SweptApart'
    BY <1>4 DEF Refuses, DoneIsGone, SweptApart
  <2>2. StoppedHasPacket'
    BY <1>0, <1>4 DEF Refuses, StoppedHasPacket
  <2> QED
    BY <2>1, <2>2
<1>5. ASSUME UNCHANGED swept, NEW P \in SUBSET Held, Finishes(P) PROVE Contract'
  <2>1. DoneIsGone' /\ SweptApart'
    BY <1>5 DEF Finishes, Complete, DoneIsGone, SweptApart
  <2>2. StoppedHasPacket'
    BY <1>0, <1>5 DEF Finishes, Complete, StoppedHasPacket
  <2> QED
    BY <2>1, <2>2
<1>6. ASSUME NEW P \in SUBSET Held, Sweeps(P) PROVE Contract'
  <2>1. DoneIsGone'
    BY <1>6 DEF Sweeps, DoneIsGone
  <2>2. \A x \in P : x[2] < next[QueueOf(x)]
    BY HeldNumbered
  <2>3. SweptApart'
    BY <1>6, <2>2 DEF Sweeps, SweptApart, DoneIsGone
  <2>4. Torn \subseteq Torn' /\ \A x \in P : QueueOf(x) \in Torn'
    BY <1>6 DEF Sweeps, Torn
  <2>5. StoppedHasPacket'
    BY <1>6, <2>4 DEF Sweeps, StoppedHasPacket
  <2> QED
    BY <2>1, <2>3, <2>5
<1> QED
  BY <1>1, <1>2, <1>3, <1>4, <1>5, <1>6, Steps

FateOf(p) == IF p[2] >= next[QueueOf(p)] THEN "out"
             ELSE IF p \in Held \cup swept THEN "in" ELSE IF p \in done THEN "done" ELSE "refused"

LEMMA FateIs == Fate = [p \in Packet |-> FateOf(p)]
  BY DEF Fate, FateOf

LEMMA InitNet == Init /\ IInv => Net!Init
<1> SUFFICES ASSUME Init, IInv PROVE Net!Init
  OBVIOUS
<1>1. ASSUME NEW p \in Packet PROVE FateOf(p) = "out"
  <2>1. next[QueueOf(p)] = 1 /\ p[2] \in 1 .. MaxPacket
    BY PacketFacts DEF Init
  <2> QED
    BY <2>1, XmitAssumption DEF FateOf
<1> QED
  BY <1>1, FateIs DEF Net!Init, Init

LEMMA NextNet ==
  ASSUME IInv, IInv', DoneIsGone, SweptApart, [Next]_vars
  PROVE  Net!Next \/ UNCHANGED <<Fate, stopped>>
<1>1. /\ Fate = [p \in Packet |-> FateOf(p)] /\ Fate' = [p \in Packet |-> FateOf(p)']
  <2>1. Fate' = [p \in Packet |-> FateOf(p)]'
    BY DEF Fate, FateOf
  <2> QED
    BY <2>1, FateIs
<1>2. ASSUME NEW p \in Held
      PROVE  p \in Packet /\ FateOf(p) = "in" /\ p \notin done /\ p \notin swept
  <2>1. p \in Packet /\ p[2] < next[QueueOf(p)]
    BY HeldNumbered
  <2>2. p[2] \in Int /\ QueueOf(p) \in Queue
    BY <2>1, PacketFacts
  <2>3. next[QueueOf(p)] \in Int
    BY <2>2, XmitAssumption DEF IInv, TypeNat
  <2> QED
    BY <2>1, <2>2, <2>3 DEF FateOf, DoneIsGone, SweptApart
<1>3. CASE Keeps /\ UNCHANGED swept
  <2>1. \A p \in Packet : FateOf(p)' = FateOf(p)
    BY <1>3 DEF Keeps, FateOf
  <2> QED
    BY <1>1, <1>3, <2>1 DEF Keeps
<1>4. ASSUME NEW q \in Queue, Stops(q), UNCHANGED swept PROVE Net!Next
  <2>1. \A p \in Packet : FateOf(p)' = FateOf(p)
    BY <1>4 DEF Stops, FateOf
  <2>2. Fate' = Fate /\ stopped' = stopped \cup {q}
    BY <1>1, <1>4, <2>1 DEF Stops
  <2>3. tx[q].p \in Packet /\ Fate[tx[q].p] = "in" /\ QueueOf(tx[q].p) = q
    BY <1>1, <1>2, <1>4 DEF Stops
  <2> HIDE DEF Fate
  <2>4. Net!Stop(q)
    BY <2>2, <2>3 DEF Net!Stop, Net!Inside
  <2> QED
    BY <2>4 DEF Net!Next
<1>5. ASSUME NEW q \in Queue, Enters(q), UNCHANGED swept PROVE Net!Next
  <2> PICK p \in Packet : p = <<q, next[q]>>
    BY <1>5 DEF Enters
  <2>1. /\ QueueOf(p) = q /\ p[2] = next[q] /\ next[q] \in Int
        /\ next' = [next EXCEPT ![q] = next[q] + 1] /\ next \in [Queue -> 1 .. MaxPacket + 1]
    BY <1>5, XmitAssumption, SMTT(60) DEF Enters, QueueOf, IInv, TypeNat
  <2>2. FateOf(p) = "out" /\ FateOf(p)' \in {"in", "refused"}
    <3>1. next'[q] = next[q] + 1
      BY <2>1
    <3>2. FateOf(p) = "out"
      BY <2>1 DEF FateOf
    <3>3. p \notin done
      BY <2>1 DEF IInv, Numbered
    <3>4. p \notin done'
      BY <1>5, <3>3 DEF Enters
    <3>5. ~(p[2] >= next'[QueueOf(p)])
      BY <2>1, <3>1
    <3> QED
      BY <3>2, <3>4, <3>5 DEF FateOf
  <2>3. ASSUME NEW x \in Packet, x # p PROVE FateOf(x)' = FateOf(x)
    <3>1. x[2] \in Int /\ QueueOf(x) \in Queue /\ x = <<QueueOf(x), x[2]>>
      BY PacketFacts
    <3>2. x[2] >= next'[QueueOf(x)] <=> x[2] >= next[QueueOf(x)]
      <4>1. CASE QueueOf(x) = q
        <5>1. x[2] # next[q] /\ next'[q] = next[q] + 1
          BY <2>1, <2>3, <3>1, <4>1
        <5> QED
          BY <2>1, <3>1, <4>1, <5>1
      <4>2. CASE QueueOf(x) # q
        BY <2>1, <3>1, <4>2
      <4> QED
        BY <4>1, <4>2
    <3>3. (x \in (Held \cup swept)' <=> x \in Held \cup swept) /\ (x \in done' <=> x \in done)
      BY <1>5, <2>3 DEF Enters
    <3> QED
      BY <3>2, <3>3 DEF FateOf
  <2>4. /\ Fate[p] = "out" /\ Fate' = [Fate EXCEPT ![p] = FateOf(p)']
        /\ Fate'[p] = FateOf(p)'
    BY <1>1, <2>1, <2>2, <2>3
  <2>5. stopped' = stopped /\ QueueOf(p) \notin stopped
    BY <1>5, <2>1 DEF Enters
  <2> HIDE DEF Fate
  <2>6. Net!HandOver(p) \/ Net!Refuse(p)
    BY <2>2, <2>4, <2>5 DEF Net!HandOver, Net!Refuse, Net!Becomes
  <2> QED
    BY <2>1, <2>6 DEF Net!Next
<1>6. ASSUME NEW p \in Held, Refuses(p), UNCHANGED swept PROVE Net!Next
  <2>1. p \in Packet /\ Fate[p] = "in" /\ FateOf(p) = "in" /\ p \notin done /\ p \notin swept
    BY <1>1, <1>2
  <2>2. FateOf(p)' = "refused"
    BY <1>6, <2>1 DEF FateOf, Refuses
  <2>3. \A x \in Packet \ {p} : FateOf(x)' = FateOf(x)
    BY <1>6 DEF FateOf, Refuses
  <2>4. /\ Fate' = [Fate EXCEPT ![p] = "refused"] /\ Fate'[p] = "refused"
        /\ stopped' = stopped
    BY <1>1, <1>6, <2>1, <2>2, <2>3 DEF Refuses
  <2> HIDE DEF Fate
  <2>5. Net!Refuse(p)
    BY <2>1, <2>4 DEF Net!Refuse, Net!Becomes
  <2> QED
    BY <2>1, <2>5 DEF Net!Next
<1>7. ASSUME NEW P \in SUBSET Held, Finishes(P), UNCHANGED swept PROVE Net!Next
  <2>1. P \in SUBSET {p \in Packet : Fate[p] = "in"}
    BY <1>1, <1>2
  <2>2. ASSUME NEW p \in P PROVE FateOf(p)' = "done"
    <3>1. FateOf(p) = "in" /\ p \notin swept
      BY <1>2
    <3> QED
      BY <1>7, <3>1 DEF FateOf, Finishes, Complete
  <2>3. \A x \in Packet \ P : FateOf(x)' = FateOf(x)
    BY <1>7 DEF FateOf, Finishes, Complete
  <2>4. Fate' = [p \in Packet |-> IF p \in P THEN "done" ELSE Fate[p]]
    BY <1>1, <2>2, <2>3
  <2>5. P # {} /\ stopped' = stopped \ {QueueOf(p) : p \in P}
    BY <1>7 DEF Finishes, Complete
  <2> HIDE DEF Fate
  <2>6. Net!Finish(P)
    BY <2>4, <2>5 DEF Net!Finish
  <2> QED
    BY <2>1, <2>6 DEF Net!Next
<1>8. ASSUME NEW P \in SUBSET Held, Sweeps(P) PROVE UNCHANGED <<Fate, stopped>>
  <2>1. Held' \cup swept' = Held \cup swept
    BY <1>8 DEF Sweeps
  <2>2. \A p \in Packet : FateOf(p)' = FateOf(p)
    BY <1>8, <2>1 DEF Sweeps, FateOf
  <2> QED
    BY <1>1, <1>8, <2>2 DEF Sweeps
<1> QED
  BY <1>3, <1>4, <1>5, <1>6, <1>7, <1>8, Steps

-----------------------------------------------------------------------------
(* The accounts of the pools. *)

WithFrame == Cardinality(Senders({"hal", "direct"}))
WithBuf == Cardinality(Senders({"direct"}))
TaskFrame == Tasklet({"first", "write"})
TaskBuf == Tasklet({"buf", "first", "write", "giveback", "hang"})
Dumping == IF mgmt = "dump" THEN 1 ELSE 0

NrSwept == Cardinality(swept)

FrameAccount == frames + NrPending + WithFrame + TaskFrame + Dumping + lost + NrSwept = NrFrame
BufAccount == bufs + urbs + WithBuf + TaskBuf = NrBuf
ExtAccount == exts + eurbs + Dumping + lost = NrExt
LostWhenDead == lost > 0 => dead

LEMMA Accounts == PoolsAccounted <=> FrameAccount /\ BufAccount /\ ExtAccount /\ LostWhenDead
  BY DEF PoolsAccounted, FrameAccount, BufAccount, ExtAccount, LostWhenDead,
         WithFrame, WithBuf, TaskFrame, TaskBuf, Dumping, NrSwept

LEMMA SendersFinite ==
  ASSUME NEW S PROVE IsFiniteSet(Senders(S)) /\ Cardinality(Senders(S)) \in Nat
<1>1. Senders(S) \subseteq Queue
  BY DEF Senders
<1> QED
  BY <1>1, PacketFinite, FS_Subset, FS_CardinalityType

LEMMA CountsNat ==
  TypeNat => /\ NrPending \in Nat /\ WithFrame \in Nat /\ WithBuf \in Nat
             /\ TaskFrame \in {0, 1} /\ TaskBuf \in {0, 1} /\ Dumping \in {0, 1}
  BY PendingFinite, SendersFinite
     DEF NrPending, WithFrame, WithBuf, TaskFrame, TaskBuf, Dumping, Tasklet

LEMMA SweptFinite ==
  ASSUME StationOK PROVE IsFiniteSet(swept) /\ NrSwept \in Nat
  BY PacketFinite, FS_Subset, FS_CardinalityType DEF StationOK, NrSwept

\* One sender takes a step.
LEMMA SenderCount ==
  ASSUME NEW q \in Queue, NEW S, \A r \in Queue \ {q} : tx'[r] = tx[r]
  PROVE  /\ (tx[q].pc \in S <=> tx'[q].pc \in S)
              => Cardinality(Senders(S)') = Cardinality(Senders(S))
         /\ tx[q].pc \notin S /\ tx'[q].pc \in S
              => Cardinality(Senders(S)') = Cardinality(Senders(S)) + 1
         /\ tx[q].pc \in S /\ tx'[q].pc \notin S
              => Cardinality(Senders(S)') = Cardinality(Senders(S)) - 1
<1>1. IsFiniteSet(Senders(S))
  BY SendersFinite
<1>2. ASSUME tx[q].pc \in S <=> tx'[q].pc \in S PROVE Senders(S)' = Senders(S)
  BY <1>2 DEF Senders
<1>3. ASSUME tx[q].pc \notin S, tx'[q].pc \in S
      PROVE  Senders(S)' = Senders(S) \cup {q} /\ q \notin Senders(S)
  BY <1>3 DEF Senders
<1>4. ASSUME tx[q].pc \in S, tx'[q].pc \notin S
      PROVE  Senders(S)' = Senders(S) \ {q} /\ q \in Senders(S)
  BY <1>4 DEF Senders
<1> QED
  BY <1>1, <1>2, <1>3, <1>4, FS_AddElement, FS_RemoveElement

LEMMA NextAccounts ==
  ASSUME IInv, IInv', SweptApart, PoolsAccounted, [Next]_vars
  PROVE  PoolsAccounted'
<1>1. /\ NrPending \in Nat /\ WithFrame \in Nat /\ WithBuf \in Nat
      /\ TaskFrame \in {0, 1} /\ TaskBuf \in {0, 1} /\ Dumping \in {0, 1}
      /\ frames \in Nat /\ bufs \in Nat /\ exts \in Nat
      /\ urbs \in Nat /\ eurbs \in Nat /\ lost \in Nat /\ NrSwept \in Nat
  BY CountsNat, SweptFinite DEF IInv, TypeNat
<1>2. NrPending' \in Nat /\ frames' \in Nat
  <2>1. TypeNat' => (/\ NrPending \in Nat /\ WithFrame \in Nat /\ WithBuf \in Nat
                     /\ TaskFrame \in {0, 1} /\ TaskBuf \in {0, 1} /\ Dumping \in {0, 1})'
    BY CountsNat, PTL
  <2> QED
    BY <2>1 DEF IInv, TypeNat
<1>3. FrameAccount /\ BufAccount /\ ExtAccount /\ LostWhenDead
  BY Accounts
<1>4. SUFFICES FrameAccount' /\ BufAccount' /\ ExtAccount' /\ LostWhenDead'
  <2>1. PoolsAccounted' <=> (FrameAccount /\ BufAccount /\ ExtAccount /\ LostWhenDead)'
    BY Accounts, PTL
  <2> QED
    BY <2>1
<1>5. (UNCHANGED tx => WithFrame' = WithFrame /\ WithBuf' = WithBuf) /\ (UNCHANGED pend => NrPending' = NrPending)
  BY DEF WithFrame, WithBuf, Senders, NrPending, PendingPackets
<1>6. UNCHANGED task => TaskFrame' = TaskFrame /\ TaskBuf' = TaskBuf
  BY DEF TaskFrame, TaskBuf, Tasklet
<1>7. (UNCHANGED mgmt => Dumping' = Dumping) /\ (~Reinits => NrSwept' = NrSwept)
  BY StationStays DEF Dumping, NrSwept, FreeStainfo
<1>8. ASSUME UNCHANGED <<eurbs, exts, mgnt>>, dead => dead'
      PROVE  ExtAccount' /\ LostWhenDead' /\ Dumping' = Dumping /\ lost' = lost
  BY <1>3, <1>7, <1>8 DEF ExtAccount, LostWhenDead, mgnt
<1>9. ASSUME WritePort PROVE bufs' + urbs' = bufs + urbs + 1 /\ (dead => dead')
                             /\ bufs' \in Nat /\ urbs' \in Nat
  <2>1. dead => dead'
    BY <1>9, Zenon DEF WritePort
  <2> QED
    BY <1>1, <1>9, <2>1 DEF WritePort
<1>10. ASSUME ~Reinits,
              NEW q \in Queue, \/ XmitEntry(q) \/ StopQueue(q) \/ XmitRefused(q) \/ XmitAlloc(q)
                               \/ XmitEnqueue(q) \/ XmitTakeBuf(q) \/ XmitDirect(q)
       PROVE  FrameAccount' /\ BufAccount' /\ ExtAccount' /\ LostWhenDead'
  <2>1. /\ UNCHANGED <<eurbs, exts, mgnt, task>> /\ (dead => dead')
        /\ \A r \in Queue \ {q} : tx'[r] = tx[r]
    <3>1. UNCHANGED <<eurbs, exts, mgnt, task>> /\ (dead => dead')
      <4>1. CASE XmitDirect(q)
        BY <1>9, <4>1 DEF XmitDirect
      <4>2. CASE ~XmitDirect(q)
        BY <1>10, <4>2 DEF XmitEntry, StopQueue, XmitRefused, XmitAlloc, XmitEnqueue, XmitTakeBuf,
                           pools, usb, tasklet
      <4> QED
        BY <4>1, <4>2
    <3>2. ASSUME XmitEntry(q) PROVE \A r \in Queue \ {q} : tx'[r] = tx[r]
      BY <3>2, EntryFacts DEF IInv
    <3>3. ASSUME XmitRefused(q) \/ XmitEnqueue(q) \/ XmitDirect(q)
          PROVE  \A r \in Queue \ {q} : tx'[r] = tx[r]
      <4>1. tx' = [tx EXCEPT ![q] = TxIdle]
        BY <3>3 DEF XmitRefused, Drop, XmitEnqueue, XmitDirect
      <4> QED
        BY <4>1, LeaveFacts DEF IInv
    <3>4. ASSUME StopQueue(q) \/ XmitAlloc(q) \/ XmitTakeBuf(q)
          PROVE  \A r \in Queue \ {q} : tx'[r] = tx[r]
      <4>1. \E c \in TxPc : tx' = [tx EXCEPT ![q].pc = c]
        BY <3>4 DEF StopQueue, XmitAlloc, XmitTakeBuf, TxPc
      <4> QED
        BY <4>1, StayFacts DEF IInv
    <3> QED
      BY <1>10, <3>1, <3>2, <3>3, <3>4
  <2>2. ExtAccount' /\ LostWhenDead' /\ Dumping' = Dumping /\ lost' = lost
        /\ TaskFrame' = TaskFrame /\ TaskBuf' = TaskBuf /\ NrSwept' = NrSwept
    BY <1>6, <1>7, <1>8, <1>10, <2>1
  <2>3. CASE XmitEntry(q) \/ StopQueue(q) \/ XmitRefused(q)
    <3>1. UNCHANGED <<frames, bufs, urbs, pend>>
      BY <2>3 DEF XmitEntry, StopQueue, XmitRefused, pools, usb
    <3>2. tx[q].pc \notin {"hal", "direct"} /\ tx'[q].pc \notin {"hal", "direct"}
      <4>1. CASE XmitEntry(q)
        BY <4>1, EntryFacts DEF IInv
      <4>2. CASE StopQueue(q)
        <5>1. tx' = [tx EXCEPT ![q].pc = "alloc"] /\ "alloc" \in TxPc /\ tx[q].pc = "stop"
          BY <4>2 DEF StopQueue, TxPc
        <5> QED
          BY <5>1, StayFacts DEF IInv
      <4>3. CASE XmitRefused(q)
        <5>1. tx' = [tx EXCEPT ![q] = TxIdle] /\ tx[q].pc = "alloc"
          BY <4>3 DEF XmitRefused, Drop
        <5> QED
          BY <5>1, LeaveFacts DEF IInv
      <4> QED
        BY <2>3, <4>1, <4>2, <4>3
    <3>3. WithFrame' = WithFrame /\ WithBuf' = WithBuf
      BY <2>1, <3>2, SenderCount DEF WithFrame, WithBuf
    <3> QED
      BY <1>3, <1>5, <2>2, <3>1, <3>3 DEF FrameAccount, BufAccount
  <2>4. CASE XmitAlloc(q)
    <3>1. /\ tx' = [tx EXCEPT ![q].pc = "hal"] /\ tx[q].pc = "alloc" /\ "hal" \in TxPc
          /\ frames' = frames - 1 /\ UNCHANGED <<bufs, urbs, pend>>
      BY <2>4 DEF XmitAlloc, TxPc, usb
    <3>2. tx'[q].pc = "hal"
      BY <3>1, StayFacts DEF IInv
    <3>3. WithFrame' = WithFrame + 1 /\ WithBuf' = WithBuf
      BY <2>1, <3>1, <3>2, SenderCount DEF WithFrame, WithBuf
    <3>4. FrameAccount'
      BY <1>1, <1>3, <1>5, <2>2, <3>1, <3>3 DEF FrameAccount
    <3>5. BufAccount'
      BY <1>3, <2>2, <3>1, <3>3 DEF BufAccount
    <3> QED
      BY <2>2, <3>4, <3>5
  <2>5. CASE XmitEnqueue(q)
    <3>1. /\ tx' = [tx EXCEPT ![q] = TxIdle] /\ tx[q].pc = "hal" /\ UNCHANGED <<frames, bufs, urbs>>
      BY <2>5 DEF XmitEnqueue, usb
    <3>2. tx'[q].pc = "idle"
      BY <3>1, LeaveFacts DEF IInv
    <3>3. WithFrame' = WithFrame - 1 /\ WithBuf' = WithBuf /\ NrPending' = NrPending + 1
      BY <2>1, <2>5, <3>1, <3>2, SenderCount, EnqueueStep DEF WithFrame, WithBuf
    <3>4. FrameAccount'
      BY <1>1, <1>3, <2>2, <3>1, <3>3 DEF FrameAccount
    <3>5. BufAccount'
      BY <1>3, <2>2, <3>1, <3>3 DEF BufAccount
    <3> QED
      BY <2>2, <3>4, <3>5
  <2>6. CASE XmitTakeBuf(q)
    <3>1. /\ tx' = [tx EXCEPT ![q].pc = "direct"] /\ tx[q].pc = "hal" /\ "direct" \in TxPc
          /\ bufs' = bufs - 1 /\ UNCHANGED <<frames, urbs, pend>>
      BY <2>6 DEF XmitTakeBuf, TxPc, usb
    <3>2. tx'[q].pc = "direct"
      BY <3>1, StayFacts DEF IInv
    <3>3. WithFrame' = WithFrame /\ WithBuf' = WithBuf + 1
      BY <2>1, <3>1, <3>2, SenderCount DEF WithFrame, WithBuf
    <3>4. FrameAccount'
      BY <1>3, <1>5, <2>2, <3>1, <3>3 DEF FrameAccount
    <3>5. BufAccount'
      BY <1>1, <1>3, <2>2, <3>1, <3>3 DEF BufAccount
    <3> QED
      BY <2>2, <3>4, <3>5
  <2>7. CASE XmitDirect(q)
    <3>1. /\ tx' = [tx EXCEPT ![q] = TxIdle] /\ tx[q].pc = "direct" /\ WritePort
          /\ frames' = frames + 1 /\ UNCHANGED pend
      BY <2>7 DEF XmitDirect
    <3>2. tx'[q].pc = "idle"
      BY <3>1, LeaveFacts DEF IInv
    <3>3. WithFrame' = WithFrame - 1 /\ WithBuf' = WithBuf - 1
      BY <2>1, <3>1, <3>2, SenderCount DEF WithFrame, WithBuf
    <3>4. FrameAccount'
      BY <1>1, <1>3, <1>5, <2>2, <3>1, <3>3 DEF FrameAccount
    <3>5. BufAccount'
      BY <1>1, <1>3, <1>9, <2>2, <3>1, <3>3 DEF BufAccount
    <3> QED
      BY <2>2, <3>4, <3>5
  <2> QED
    BY <1>10, <2>3, <2>4, <2>5, <2>6, <2>7
<1>11. ASSUME ~Reinits, TaskMoves \/ TaskTakes \/ TaskAggregate \/ FreeStainfo
       PROVE  FrameAccount' /\ BufAccount' /\ ExtAccount' /\ LostWhenDead'
  <2>1. UNCHANGED <<eurbs, exts, mgnt, tx>> /\ (dead => dead')
    <3> DEFINE Kept == UNCHANGED <<eurbs, exts, mgnt, tx>> /\ (dead => dead')
    <3>1. ASSUME TaskStart PROVE Kept
      BY <3>1 DEF TaskStart, pools, usb, net
    <3>2. ASSUME TaskTakeBuf PROVE Kept
      BY <3>2 DEF TaskTakeBuf, pools, usb, net
    <3>3. ASSUME TaskEnd PROVE Kept
      BY <3>3 DEF TaskEnd, pools, usb, net
    <3>4. ASSUME TaskWrite PROVE Kept
      BY <1>9, <3>4 DEF TaskWrite, pools, usb, net
    <3>5. ASSUME TaskNoFrame PROVE Kept
      BY <3>5 DEF TaskNoFrame, pools, usb, net
    <3>6. ASSUME TaskGiveBack PROVE Kept
      BY <3>6 DEF TaskGiveBack, pools, usb, net
    <3>7. ASSUME TaskTakes \/ TaskHangs PROVE Kept
      BY <3>7 DEF TaskTakes, TaskHangs, TaskDequeue, pools, usb, net
    <3>8. ASSUME TaskAggregate PROVE Kept
      BY <3>8 DEF TaskAggregate, pools, usb, net
    <3>9. ASSUME FreeStainfo PROVE Kept
      BY <3>9 DEF FreeStainfo, pools, usb, net
    <3> QED
      BY <1>11, <3>1, <3>2, <3>3, <3>4, <3>5, <3>6, <3>7, <3>8, <3>9 DEF TaskMoves
  <2>2. /\ ExtAccount' /\ LostWhenDead' /\ Dumping' = Dumping /\ lost' = lost
        /\ WithFrame' = WithFrame /\ WithBuf' = WithBuf /\ NrSwept' = NrSwept
    BY <1>5, <1>7, <1>8, <1>11, <2>1
  <2>3. CASE TaskStart \/ TaskEnd \/ TaskNoFrame \/ TaskHangs
    <3>1. UNCHANGED <<frames, bufs, urbs, pend>>
      <4>1. TaskHangs => UNCHANGED pend
        BY <1>11, TaskMovesFacts DEF TaskMoves, IInv
      <4> QED
        BY <2>3, <4>1 DEF TaskStart, TaskEnd, TaskNoFrame, TaskHangs, TaskDequeue, pools, usb
    <3>2. TaskFrame' = TaskFrame /\ TaskBuf' = TaskBuf
      <4>1. task \in TaskRec
        BY DEF IInv, TypeNat, TaskRec
      <4>2. \/ task.pc \in {"idle", "loop"} /\ task'.pc \in {"idle", "loop"}
            \/ task.pc = "buf" /\ task'.pc \in {"giveback", "hang"}
        BY <2>3, <4>1 DEF TaskStart, TaskEnd, TaskNoFrame, TaskHangs, TaskDequeue, TaskIdle, TaskRec
      <4> QED
        BY <4>2 DEF TaskFrame, TaskBuf, Tasklet
    <3> QED
      BY <1>3, <1>5, <2>2, <3>1, <3>2 DEF FrameAccount, BufAccount
  <2>4. CASE TaskTakeBuf
    <3>1. /\ task.pc = "loop" /\ task'.pc = "buf" /\ bufs' = bufs - 1
          /\ UNCHANGED <<frames, urbs, pend>>
      <4>1. task \in TaskRec
        BY DEF IInv, TypeNat, TaskRec
      <4> QED
        BY <2>4, <4>1 DEF TaskTakeBuf, usb, TaskRec
    <3>2. TaskFrame' = TaskFrame /\ TaskBuf' = 1 /\ TaskBuf = 0
      BY <3>1 DEF TaskFrame, TaskBuf, Tasklet
    <3>3. FrameAccount'
      BY <1>3, <1>5, <2>2, <3>1, <3>2 DEF FrameAccount
    <3>4. BufAccount'
      BY <1>1, <1>3, <2>2, <3>1, <3>2 DEF BufAccount
    <3> QED
      BY <2>2, <3>3, <3>4
  <2>5. CASE TaskGiveBack
    <3>1. /\ task.pc = "giveback" /\ task'.pc = "idle" /\ bufs' = bufs + 1
          /\ UNCHANGED <<frames, urbs, pend>>
      BY <2>5 DEF TaskGiveBack, TaskIdle, usb
    <3>2. TaskFrame' = TaskFrame /\ TaskBuf' = 0 /\ TaskBuf = 1
      BY <3>1 DEF TaskFrame, TaskBuf, Tasklet
    <3>3. FrameAccount'
      BY <1>3, <1>5, <2>2, <3>1, <3>2 DEF FrameAccount
    <3>4. BufAccount'
      BY <1>1, <1>3, <2>2, <3>1, <3>2 DEF BufAccount
    <3> QED
      BY <2>2, <3>3, <3>4
  <2>6. CASE TaskWrite
    <3>1. /\ task.pc = "write" /\ task'.pc = "loop" /\ WritePort /\ frames' = frames + 1
          /\ UNCHANGED pend
      BY <2>6 DEF TaskWrite
    <3>2. TaskFrame' = 0 /\ TaskFrame = 1 /\ TaskBuf' = 0 /\ TaskBuf = 1
      BY <3>1 DEF TaskFrame, TaskBuf, Tasklet
    <3>3. FrameAccount'
      BY <1>1, <1>3, <1>5, <2>2, <3>1, <3>2 DEF FrameAccount
    <3>4. BufAccount'
      BY <1>1, <1>3, <1>9, <2>2, <3>1, <3>2 DEF BufAccount
    <3> QED
      BY <2>2, <3>3, <3>4
  <2>7. CASE TaskTakes
    <3>1. task.pc = "buf" /\ task'.pc = "first" /\ UNCHANGED <<frames, bufs, urbs>>
      BY <2>7, DequeueFacts DEF IInv, usb
    <3>2. TaskFrame' = 1 /\ TaskFrame = 0 /\ TaskBuf' = TaskBuf /\ NrPending' = NrPending - 1
      BY <2>7, <3>1, DequeueStep DEF TaskFrame, TaskBuf, Tasklet
    <3>3. FrameAccount'
      BY <1>1, <1>3, <2>2, <3>1, <3>2 DEF FrameAccount
    <3>4. BufAccount'
      BY <1>3, <2>2, <3>1, <3>2 DEF BufAccount
    <3> QED
      BY <2>2, <3>3, <3>4
  <2>8. CASE TaskAggregate \/ FreeStainfo
    <3>1. /\ task'.pc = task.pc \/ (task.pc = "first" /\ task'.pc = "write")
          /\ UNCHANGED <<bufs, urbs>>
      <4>1. CASE TaskAggregate
        <5>1. task.pc = "first" /\ task'.pc = "write"
          BY <4>1, AggregateFacts DEF IInv
        <5> QED
          BY <4>1, <5>1 DEF TaskAggregate, usb
      <4>2. CASE FreeStainfo
        BY <4>2 DEF FreeStainfo, tasklet, usb
      <4> QED
        BY <2>8, <4>1, <4>2
    <3>2. TaskFrame' = TaskFrame /\ TaskBuf' = TaskBuf /\ frames' + NrPending' = frames + NrPending
      BY <2>8, <3>1, AggregateStep, FreeStep DEF TaskFrame, TaskBuf, Tasklet
    <3>3. FrameAccount'
      BY <1>1, <1>2, <1>3, <2>2, <3>2 DEF FrameAccount
    <3>4. BufAccount'
      BY <1>3, <2>2, <3>1, <3>2 DEF BufAccount
    <3> QED
      BY <2>2, <3>3, <3>4
  <2> QED
    BY <1>11, <2>3, <2>4, <2>5, <2>6, <2>7, <2>8 DEF TaskMoves
<1>12. ASSUME ~Reinits, Outside
       PROVE  FrameAccount' /\ BufAccount' /\ ExtAccount' /\ LostWhenDead'
  <2>1. /\ WithFrame' = WithFrame /\ WithBuf' = WithBuf /\ NrPending' = NrPending
        /\ TaskFrame' = TaskFrame /\ TaskBuf' = TaskBuf /\ NrSwept' = NrSwept
    BY <1>5, <1>6, <1>7, <1>12, OutsideFacts DEF net
  <2>2. CASE UrbComplete
    <3>1. /\ urbs > 0 /\ urbs' = urbs - 1 /\ bufs' = bufs + 1 /\ (dead => dead')
          /\ UNCHANGED <<frames, exts, eurbs, mgnt>>
      BY <2>2 DEF UrbComplete
    <3>2. ExtAccount' /\ LostWhenDead' /\ Dumping' = Dumping /\ lost' = lost
      BY <1>8, <3>1
    <3>3. FrameAccount'
      BY <1>3, <2>1, <3>1, <3>2 DEF FrameAccount
    <3>4. BufAccount'
      BY <1>1, <1>3, <2>1, <3>1 DEF BufAccount
    <3> QED
      BY <3>2, <3>3, <3>4
  <2>3. CASE ExtComplete
    <3>1. /\ eurbs > 0 /\ eurbs' = eurbs - 1 /\ exts' = exts + 1 /\ (dead => dead')
          /\ UNCHANGED <<frames, bufs, urbs, mgmt, lost>>
      BY <2>3 DEF ExtComplete, mgnt
    <3>2. ExtAccount'
      BY <1>1, <1>3, <1>7, <3>1 DEF ExtAccount
    <3> QED
      BY <1>3, <1>7, <2>1, <3>1, <3>2 DEF FrameAccount, BufAccount, LostWhenDead
  <2>4. CASE MgmtAlloc
    <3>1. /\ frames' = frames - 1 /\ exts' = exts - 1 /\ mgmt = "idle" /\ mgmt' = "dump"
          /\ UNCHANGED <<bufs, urbs, eurbs, lost, dead>>
      BY <2>4 DEF MgmtAlloc, usb
    <3>2. Dumping = 0 /\ Dumping' = 1
      BY <3>1 DEF Dumping
    <3>3. FrameAccount'
      BY <1>1, <1>3, <2>1, <3>1, <3>2 DEF FrameAccount
    <3>4. ExtAccount'
      BY <1>1, <1>3, <3>1, <3>2 DEF ExtAccount
    <3> QED
      BY <1>3, <2>1, <3>1, <3>3, <3>4 DEF BufAccount, LostWhenDead
  <2>5. CASE MgmtDump
    <3>1. Dumping = 1 /\ Dumping' = 0 /\ UNCHANGED <<bufs, urbs>>
      BY <2>5 DEF MgmtDump, Dumping
    <3>2. \/ dead /\ dead' /\ lost' = lost + 1 /\ UNCHANGED <<frames, exts, eurbs>>
          \/ ~dead /\ eurbs' = eurbs + 1 /\ frames' = frames + 1 /\ UNCHANGED <<exts, lost>>
          \/ ~dead /\ exts' = exts + 1 /\ frames' = frames + 1 /\ UNCHANGED <<eurbs, lost>>
      BY <2>5 DEF MgmtDump
    <3>3. FrameAccount'
      <4>1. frames' + lost' = frames + lost + 1 /\ frames' \in Nat /\ lost' \in Nat
        BY <1>1, <3>2
      <4>2. frames + NrPending + WithFrame + TaskFrame + Dumping + lost + NrSwept = NrFrame
        BY <1>3 DEF FrameAccount
      <4>3. frames' + NrPending + WithFrame + TaskFrame + Dumping' + lost' + NrSwept = NrFrame
        <5> DEFINE c == NrPending + WithFrame + TaskFrame + NrSwept
        <5>1. c \in Nat /\ frames \in Nat /\ lost \in Nat
          BY <1>1
        <5>2. frames + lost + 1 + c = NrFrame
          BY <1>1, <3>1, <4>2
        <5>3. frames' + lost' + c = NrFrame
          <6> HIDE DEF c
          <6> QED
            BY <4>1, <5>1, <5>2
        <5> QED
          BY <1>1, <3>1, <4>1, <5>3
      <4> QED
        BY <2>1, <4>3 DEF FrameAccount
    <3>4. ExtAccount'
      BY <1>1, <1>3, <3>1, <3>2 DEF ExtAccount
    <3>5. LostWhenDead'
      BY <1>3, <3>2 DEF LostWhenDead
    <3>6. BufAccount'
      BY <1>3, <2>1, <3>1 DEF BufAccount
    <3> QED
      BY <3>3, <3>4, <3>5, <3>6
  <2>6. CASE ~(UrbComplete \/ ExtComplete \/ MgmtAlloc \/ MgmtDump)
    <3>1. UNCHANGED <<frames, bufs, exts, urbs, eurbs, dead, mgnt>>
      BY <1>12, <2>6 DEF Outside, Begin, JoinPrehandle, JoinTimeout, ScanTimeout, EventDone,
                         XmitSchedule, pools, usb
    <3>2. ExtAccount' /\ LostWhenDead' /\ Dumping' = Dumping /\ lost' = lost
      BY <1>8, <3>1
    <3> QED
      BY <1>3, <2>1, <3>1, <3>2 DEF FrameAccount, BufAccount
  <2> QED
    BY <2>2, <2>3, <2>4, <2>5, <2>6
<1>13. ASSUME ~Reinits, UNCHANGED vars
       PROVE  FrameAccount' /\ BufAccount' /\ ExtAccount' /\ LostWhenDead'
  <2>1. UNCHANGED <<tx, pend, task, mgmt, frames, bufs, exts, urbs, eurbs, lost, dead>>
    BY <1>13 DEF vars, net, pools, usb, tasklet, mgnt
  <2> QED
    BY <1>3, <1>5, <1>6, <1>7, <1>13, <2>1 DEF FrameAccount, BufAccount, ExtAccount, LostWhenDead
<1>14. ASSUME Reinits
       PROVE  FrameAccount' /\ BufAccount' /\ ExtAccount' /\ LostWhenDead'
  <2>1. UNCHANGED <<tx, task, mgmt, frames, bufs, exts, urbs, eurbs, lost, dead>>
    BY <1>14, ReinitFacts DEF net, usb, tasklet, mgnt
  <2>2. /\ swept' = swept \cup PendingPackets /\ swept \cap PendingPackets = {}
        /\ NrPending' = 0
    BY <1>14, ReinitStep DEF Sweeps, SweptApart
  <2>3. NrSwept' = NrSwept + NrPending
    <3>1. IsFiniteSet(swept) /\ IsFiniteSet(PendingPackets)
      BY SweptFinite, PendingFinite DEF IInv
    <3>2. Cardinality(swept \cup PendingPackets)
            = Cardinality(swept) + Cardinality(PendingPackets) - Cardinality(swept \cap PendingPackets)
      BY <3>1, FS_Union
    <3>3. Cardinality(swept \cap PendingPackets) = 0
      BY <2>2, FS_EmptySet
    <3> QED
      BY <1>1, <2>2, <3>2, <3>3 DEF NrSwept, NrPending
  <2>4. /\ WithFrame' = WithFrame /\ WithBuf' = WithBuf /\ TaskFrame' = TaskFrame
        /\ TaskBuf' = TaskBuf /\ Dumping' = Dumping
    BY <1>5, <1>6, <1>7, <2>1
  <2>5. FrameAccount'
    BY <1>1, <1>3, <2>1, <2>2, <2>3, <2>4 DEF FrameAccount
  <2> QED
    BY <1>3, <2>1, <2>4, <2>5 DEF BufAccount, ExtAccount, LostWhenDead
<1>15. TaskDequeue => TaskMoves \/ TaskTakes
  BY DEF TaskMoves, TaskTakes, TaskHangs
<1> QED
  BY <1>10, <1>11, <1>12, <1>13, <1>14, <1>15 DEF Next, TaskMoves, Outside, Reinits

\* With the accounts, the counts are within their pools.
LEMMA CountsBounded == IInv /\ PoolsAccounted => TypeOK
<1> SUFFICES ASSUME IInv, PoolsAccounted PROVE TypeOK
  OBVIOUS
<1>1. /\ NrPending \in Nat /\ WithFrame \in Nat /\ WithBuf \in Nat
      /\ TaskFrame \in {0, 1} /\ TaskBuf \in {0, 1} /\ Dumping \in {0, 1}
      /\ frames \in Nat /\ bufs \in Nat /\ exts \in Nat
      /\ urbs \in Nat /\ eurbs \in Nat /\ lost \in Nat /\ NrSwept \in Nat
  BY CountsNat, SweptFinite DEF IInv, TypeNat
<1>2. FrameAccount /\ BufAccount /\ ExtAccount
  BY Accounts
<1>3. frames \in 0 .. NrFrame
  BY <1>1, <1>2, XmitAssumption DEF FrameAccount
<1>4. bufs \in 0 .. NrBuf /\ urbs \in 0 .. NrBuf
  BY <1>1, <1>2, XmitAssumption DEF BufAccount
<1>5. exts \in 0 .. NrExt /\ eurbs \in 0 .. NrExt /\ lost \in 0 .. NrExt
  BY <1>1, <1>2, XmitAssumption DEF ExtAccount
<1>6. Len(task.ps) <= Burst
  BY DEF IInv, TaskShape
<1>7. sched \in BOOLEAN /\ silent \in BOOLEAN /\ dead \in BOOLEAN /\ wake \in BOOLEAN
  BY DEF IInv, Flags
<1>8. TypeNat /\ StationOK
  BY DEF IInv
<1> QED
  BY <1>3, <1>4, <1>5, <1>6, <1>7, <1>8 DEF TypeNat, StationOK, TypeOK

-----------------------------------------------------------------------------
(* Somebody is about to look at the pending queues. *)

Looking == task.pc \in {"loop", "buf", "first", "write"}
Writing == urbs > 0 \/ Senders({"direct"}) # {}
Somebody == sched \/ Looking \/ Writing \/ eurbs > 0 \/ busy # {} \/ events # {} \/ wake

Unexcused == Pending # {} /\ ~dead /\ ~silent /\ stale = {} /\ task.pc # "hang"

LEMMA StrandedMeans == NoStranded <=> (Unexcused => Somebody)
<1>1. Tasklet({"loop", "buf", "first", "write"}) = 1 <=> Looking
  BY DEF Tasklet, Looking
<1> QED
  BY <1>1 DEF NoStranded, Unexcused, Somebody, Writing

\* When no buffer is free, one is being filled by a sender or written.
LEMMA AllBufsOut ==
  ASSUME IInv, PoolsAccounted, bufs = 0, NrBuf > 1 \/ task.pc = "loop"
  PROVE  Writing
<1>1. /\ WithBuf \in Nat /\ TaskBuf \in {0, 1} /\ urbs \in Nat /\ NrBuf \in Nat \ {0}
      /\ bufs + urbs + WithBuf + TaskBuf = NrBuf
  BY CountsNat, Accounts, XmitAssumption DEF IInv, TypeNat, BufAccount
<1>2. task.pc = "loop" => TaskBuf = 0
  BY DEF TaskBuf, Tasklet
<1>3. urbs > 0 \/ WithBuf # 0
  BY <1>1, <1>2
<1>4. WithBuf # 0 => Senders({"direct"}) # {}
  BY FS_EmptySet DEF WithBuf
<1> QED
  BY <1>3, <1>4 DEF Writing

LEMMA NextSurvey == SurveyReports /\ [Next]_vars => SurveyReports'
<1> SUFFICES ASSUME SurveyReports, [Next]_vars PROVE SurveyReports'
  OBVIOUS
<1>1. ASSUME UNCHANGED mlme PROVE SurveyReports'
  BY <1>1 DEF SurveyReports, mlme
<1>2. CASE Begin("survey") \/ Begin("linking")
  BY <1>2 DEF Begin, SurveyReports
<1>3. CASE JoinPrehandle \/ JoinTimeout \/ ScanTimeout
  BY <1>3 DEF JoinPrehandle, JoinTimeout, ScanTimeout, SurveyReports
<1>4. CASE EventDone("survey") \/ EventDone("linking")
  BY <1>4 DEF EventDone, SurveyReports
<1>5. CASE XmitSchedule
  BY <1>5 DEF XmitSchedule, SurveyReports
<1>6. ASSUME NEW q \in Queue, \/ XmitEntry(q) \/ StopQueue(q) \/ XmitRefused(q) \/ XmitAlloc(q)
                              \/ XmitEnqueue(q) \/ XmitTakeBuf(q) \/ XmitDirect(q)
      PROVE  SurveyReports'
  BY <1>1, <1>6 DEF XmitEntry, StopQueue, XmitRefused, XmitAlloc, XmitEnqueue, XmitTakeBuf, XmitDirect
<1>7. CASE TaskMoves \/ TaskDequeue \/ TaskAggregate \/ FreeStainfo \/ Reinits
  <2>1. Reinits => UNCHANGED mlme
    BY ReinitFacts
  <2> QED
    BY <1>1, <1>7, <2>1 DEF TaskMoves, TaskHangs, TaskStart, TaskTakeBuf, TaskEnd, TaskWrite,
         TaskNoFrame, TaskGiveBack, TaskDequeue, TaskAggregate, FreeStainfo
<1>8. CASE UrbComplete \/ ExtComplete \/ MgmtAlloc \/ MgmtDump \/ UNCHANGED vars
  BY <1>1, <1>8 DEF UrbComplete, ExtComplete, MgmtAlloc, MgmtDump, vars
<1> QED
  BY <1>2, <1>3, <1>4, <1>5, <1>6, <1>7, <1>8 DEF Next, TaskMoves, Reinits

\* The tasklet does not leave a torn list.
LEMMA HangStays == [Next]_vars /\ task.pc = "hang" => task'.pc = "hang"
<1> SUFFICES ASSUME [Next]_vars, task.pc = "hang" PROVE task' = task
  OBVIOUS
<1>1. ASSUME NEW q \in Queue, \/ XmitEntry(q) \/ StopQueue(q) \/ XmitRefused(q) \/ XmitAlloc(q)
                              \/ XmitEnqueue(q) \/ XmitTakeBuf(q) \/ XmitDirect(q)
      PROVE  task' = task
  BY <1>1 DEF XmitEntry, StopQueue, XmitRefused, XmitAlloc, XmitEnqueue, XmitTakeBuf, XmitDirect,
              tasklet
<1>2. ASSUME \/ TaskStart \/ TaskTakeBuf \/ TaskEnd \/ TaskDequeue \/ TaskAggregate \/ TaskWrite
             \/ TaskNoFrame \/ TaskGiveBack
      PROVE  FALSE
  BY <1>2 DEF TaskStart, TaskTakeBuf, TaskEnd, TaskDequeue, TaskAggregate, TaskWrite, TaskNoFrame,
              TaskGiveBack
<1>3. CASE Outside
  BY <1>3, OutsideFacts
<1>4. CASE FreeStainfo \/ Reinits \/ UNCHANGED vars
  <2>1. Reinits => UNCHANGED task
    BY ReinitFacts DEF tasklet
  <2> QED
    BY <1>4, <2>1 DEF FreeStainfo, vars, tasklet
<1> QED
  BY <1>1, <1>2, <1>3, <1>4 DEF Next, Outside, Reinits

LEMMA NextStranded ==
  ASSUME NrBuf > 1, IInv, IInv', PoolsAccounted, SurveyReports, NoStranded, [Next]_vars
  PROVE  NoStranded'
<1>1. SUFFICES ASSUME Pending' # {}, ~dead', ~silent', stale' = {}, task'.pc # "hang"
               PROVE  Somebody'
  <2>1. NoStranded' <=> (Unexcused => Somebody)'
    BY StrandedMeans, PTL
  <2>2. Unexcused' => Pending' # {} /\ ~dead' /\ ~silent' /\ stale' = {} /\ task'.pc # "hang"
    BY DEF Unexcused
  <2> QED
    BY <2>1, <2>2
<1>26. CASE FreeStainfo \/ Reinits
  <2>1. Pending' = {}
    BY <1>26, ReinitFacts DEF FreeStainfo, Pending
  <2> QED
    BY <1>1, <2>1
<1> SUFFICES ASSUME ~FreeStainfo, ~Reinits PROVE Somebody'
  BY <1>26
<1>28. stale = {} /\ task.pc # "hang"
  BY <1>1, StationStays, HangStays
<1>2. Pending # {} /\ ~dead /\ ~silent => Somebody
  BY <1>28, StrandedMeans DEF Unexcused
<1>3. ASSUME UNCHANGED <<usb, tasklet, mlme>>, Senders({"direct"}) \subseteq Senders({"direct"})'
      PROVE  Somebody => Somebody'
  BY <1>3 DEF Somebody, Looking, Writing, usb, tasklet, mlme
<1>4. UNCHANGED pend => Pending' = Pending
  BY DEF Pending
<1>5. ASSUME NEW q \in Queue, tx[q].pc # "direct", \A r \in Queue \ {q} : tx'[r] = tx[r]
      PROVE  Senders({"direct"}) \subseteq Senders({"direct"})'
  BY <1>5 DEF Senders
<1>6. ASSUME NEW q \in Queue, XmitEntry(q) PROVE Somebody'
  <2>1. /\ tx[q].pc # "direct" /\ \A r \in Queue \ {q} : tx'[r] = tx[r]
        /\ UNCHANGED <<pend, usb, tasklet, mlme>>
    BY <1>6, EntryFacts DEF IInv, pools
  <2> QED
    BY <1>1, <1>2, <1>3, <1>4, <1>5, <2>1 DEF usb, tasklet
<1>7. ASSUME NEW q \in Queue, StopQueue(q) \/ XmitAlloc(q) PROVE Somebody'
  <2>1. /\ tx[q].pc # "direct" /\ \E c \in TxPc : tx' = [tx EXCEPT ![q].pc = c]
        /\ UNCHANGED <<pend, usb, tasklet, mlme>>
    BY <1>7 DEF StopQueue, XmitAlloc, TxPc, pools
  <2>2. \A r \in Queue \ {q} : tx'[r] = tx[r]
    BY <2>1, StayFacts DEF IInv
  <2> QED
    BY <1>1, <1>2, <1>3, <1>4, <1>5, <2>1, <2>2 DEF usb, tasklet
<1>8. ASSUME NEW q \in Queue, XmitRefused(q) \/ XmitEnqueue(q) PROVE Somebody'
  <2>1. /\ tx[q].pc # "direct" /\ tx' = [tx EXCEPT ![q] = TxIdle]
        /\ UNCHANGED <<usb, tasklet, mlme>>
    BY <1>8 DEF XmitRefused, Drop, XmitEnqueue
  <2>2. \A r \in Queue \ {q} : tx'[r] = tx[r]
    BY <2>1, LeaveFacts DEF IInv
  <2>3. Somebody => Somebody'
    BY <1>3, <1>5, <2>1, <2>2
  <2>4. CASE XmitRefused(q)
    BY <1>1, <1>2, <1>4, <2>1, <2>3, <2>4 DEF XmitRefused, pools, usb, tasklet
  <2>5. CASE XmitEnqueue(q)
    <3>1. CASE pend[q] # <<>>
      BY <1>1, <1>2, <2>1, <2>3, <3>1 DEF Pending, usb, tasklet
    <3>2. CASE busy # {}
      BY <2>3, <3>2 DEF Somebody
    <3>3. CASE bufs = 0
      BY <2>3, <3>3, AllBufsOut DEF Somebody
    <3> QED
      BY <1>28, <2>5, <3>1, <3>2, <3>3 DEF XmitEnqueue, MustQueue
  <2> QED
    BY <1>8, <2>4, <2>5
<1>9. ASSUME NEW q \in Queue, XmitTakeBuf(q) PROVE Somebody'
  <2>1. tx' = [tx EXCEPT ![q].pc = "direct"] /\ "direct" \in TxPc
    BY <1>9 DEF XmitTakeBuf, TxPc
  <2>2. tx'[q].pc = "direct"
    BY <2>1, StayFacts DEF IInv
  <2> QED
    BY <2>2 DEF Somebody, Writing, Senders
<1>10. WritePort => urbs' > 0
  <2>1. urbs \in Nat
    BY DEF IInv, TypeNat
  <2> QED
    BY <1>1, <2>1 DEF WritePort
<1>11. ASSUME NEW q \in Queue, XmitDirect(q) PROVE Somebody'
  BY <1>10, <1>11 DEF XmitDirect, Somebody, Writing
<1>12. CASE TaskStart
  <2>1. task \in TaskRec
    BY DEF IInv, TypeNat, TaskRec
  <2>2. ("survey" \in busy /\ busy' = busy) \/ task'.pc = "loop"
    BY <1>12, <2>1 DEF TaskStart, TaskRec, mlme
  <2> QED
    BY <2>2 DEF Somebody, Looking
<1>13. CASE TaskTakeBuf \/ TaskDequeue \/ TaskAggregate \/ TaskWrite
  <2>1. task \in TaskRec
    BY DEF IInv, TypeNat, TaskRec
  <2>2. CASE TaskTakeBuf
    <3>1. task'.pc = "buf"
      BY <2>1, <2>2 DEF TaskTakeBuf, TaskRec
    <3> QED
      BY <3>1 DEF Somebody, Looking
  <2>3. CASE TaskDequeue
    <3>1. task'.pc = "first"
      BY <1>1, <2>3, DequeueFacts DEF TaskTakes, IInv
    <3> QED
      BY <3>1 DEF Somebody, Looking
  <2>4. CASE TaskAggregate
    <3>1. task'.pc = "write"
      BY <2>4, AggregateFacts DEF IInv
    <3> QED
      BY <3>1 DEF Somebody, Looking
  <2>5. CASE TaskWrite
    <3>1. task'.pc = "loop"
      BY <2>5 DEF TaskWrite
    <3> QED
      BY <3>1 DEF Somebody, Looking
  <2> QED
    BY <1>13, <2>2, <2>3, <2>4, <2>5
<1>14. CASE TaskEnd
  <2>1. task.pc = "loop" /\ bufs = 0 /\ UNCHANGED <<tx, urbs>>
    BY <1>1, <1>14 DEF TaskEnd, usb, net
  <2>2. Writing
    BY <2>1, AllBufsOut
  <2> QED
    BY <2>1, <2>2 DEF Somebody, Writing, Senders
<1>15. CASE TaskNoFrame
  BY <1>1, <1>4, <1>15 DEF TaskNoFrame, pools
<1>16. CASE TaskGiveBack
  <2>1. task.pc = "giveback" /\ UNCHANGED <<tx, pend, urbs, eurbs, dead, sched, silent, mlme>>
    BY <1>16 DEF TaskGiveBack, usb, net
  <2> QED
    BY <1>1, <1>2, <1>4, <2>1 DEF Somebody, Looking, Writing, Senders, mlme
<1>17. CASE UrbComplete \/ ExtComplete
  BY <1>17 DEF UrbComplete, ExtComplete, Schedule, Somebody
<1>18. CASE Begin("survey") \/ Begin("linking")
  BY <1>18 DEF Begin, Somebody
<1>19. CASE JoinPrehandle
  BY <1>19 DEF JoinPrehandle, Somebody
<1>20. CASE JoinTimeout
  BY <1>1, <1>20 DEF JoinTimeout
<1>21. CASE ScanTimeout
  BY <1>21 DEF ScanTimeout, SurveyReports, Somebody
<1>22. CASE EventDone("survey") \/ EventDone("linking")
  BY <1>22 DEF EventDone, Somebody
<1>23. CASE XmitSchedule
  BY <1>1, <1>4, <1>23 DEF XmitSchedule, Schedule, Somebody, pools
<1>24. CASE MgmtAlloc
  <2>1. UNCHANGED <<tx, pend, usb, tasklet, mlme>>
    BY <1>24 DEF MgmtAlloc, net
  <2>2. Senders({"direct"})' = Senders({"direct"})
    BY <2>1 DEF Senders
  <2> QED
    BY <1>1, <1>2, <1>3, <1>4, <2>1, <2>2 DEF usb, tasklet
<1>25. CASE MgmtDump
  <2>1. /\ UNCHANGED <<tx, pend, urbs, tasklet, mlme>> /\ ~dead /\ (eurbs' = eurbs \/ eurbs' = eurbs + 1)
    BY <1>1, <1>25 DEF MgmtDump, net
  <2>2. eurbs \in Nat /\ (eurbs > 0 => eurbs' > 0)
    BY <2>1 DEF IInv, TypeNat
  <2> QED
    BY <1>1, <1>2, <1>4, <2>1, <2>2 DEF Somebody, Looking, Writing, Senders, tasklet, mlme
<1>27. CASE UNCHANGED vars
  <2>1. UNCHANGED <<tx, pend, usb, tasklet, mlme>>
    BY <1>27 DEF vars, net, pools
  <2>2. Senders({"direct"})' = Senders({"direct"})
    BY <2>1 DEF Senders
  <2> QED
    BY <1>1, <1>2, <1>3, <1>4, <2>1, <2>2 DEF usb, tasklet
<1> QED
  BY <1>6, <1>7, <1>8, <1>9, <1>11, <1>12, <1>13, <1>14, <1>15, <1>16, <1>17, <1>18, <1>19, <1>20,
     <1>21, <1>22, <1>23, <1>24, <1>25, <1>27 DEF Next, Reinits

-----------------------------------------------------------------------------
(* The theorems. *)

Inv == IInv /\ DoneIsGone /\ SweptApart /\ StoppedHasPacket /\ SurveyReports /\ PoolsAccounted

LEMMA InitAccounts == Init => PoolsAccounted /\ NoStranded
<1> SUFFICES ASSUME Init PROVE PoolsAccounted /\ NoStranded
  OBVIOUS
<1>1. tx = [q \in Queue |-> TxIdle] /\ TxIdle.pc = "idle" /\ task.pc = "idle"
  BY DEF Init, TxIdle, TaskIdle
<1>2. Senders({"hal", "direct"}) = {} /\ Senders({"direct"}) = {}
  BY <1>1 DEF Senders
<1>3. \A q \in Queue : pend[q] = <<>>
  BY DEF Init
<1>4. PendingPackets = {}
  <2>1. \A q \in Queue : pend[q] \in Seq(Packet)
    BY InitIInv DEF IInv, TypeNat
  <2>2. \A q \in Queue : Range(pend[q]) = {}
    BY <1>3, <2>1, NoPackets
  <2> QED
    BY <2>2 DEF PendingPackets
<1>5. /\ WithFrame = 0 /\ WithBuf = 0 /\ NrPending = 0 /\ TaskFrame = 0 /\ TaskBuf = 0
      /\ Dumping = 0 /\ NrSwept = 0
  BY <1>1, <1>2, <1>4, FS_EmptySet
     DEF WithFrame, WithBuf, NrPending, TaskFrame, TaskBuf, Dumping, NrSwept, Tasklet, Init
<1>6. FrameAccount /\ BufAccount /\ ExtAccount /\ LostWhenDead
  BY <1>5, XmitAssumption DEF FrameAccount, BufAccount, ExtAccount, LostWhenDead, Init
<1>7. Pending = {}
  BY <1>3 DEF Pending
<1> QED
  BY <1>6, <1>7, Accounts DEF NoStranded

LEMMA NextInv == Inv /\ [Next]_vars => Inv'
<1> SUFFICES ASSUME Inv, [Next]_vars PROVE Inv'
  OBVIOUS
<1>1. IInv /\ IInv'
  BY NextIInv DEF Inv
<1>2. DoneIsGone' /\ SweptApart' /\ StoppedHasPacket'
  BY <1>1, NextContract DEF Inv
<1>3. SurveyReports'
  BY NextSurvey DEF Inv
<1>4. PoolsAccounted'
  BY <1>1, NextAccounts DEF Inv
<1> QED
  BY <1>1, <1>2, <1>3, <1>4 DEF Inv

LEMMA InvHolds == Spec => []Inv
<1>1. Init => Inv
  BY InitIInv, InitAccounts DEF Inv
<1> QED
  BY <1>1, NextInv, PTL DEF Spec

\* The accounts of the pools of rtw_xmit.c balance, so nothing is freed twice and
\* the counts stay within the pools.  What leaks are the frames and buffers that
\* dump_mgntframe drops when the driver has stopped, and the frames pending when
\* _rtw_init_sta_xmit_priv re-initialises the queues of a receiver that left.
THEOREM XmitPools == Spec => [](TypeOK /\ PoolsAccounted)
<1>1. Inv => TypeOK /\ PoolsAccounted
  BY CountsBounded DEF Inv
<1> QED
  BY <1>1, InvHolds, PTL

\* pre_xmitframe and the tasklet keep the packets of a class in their order.
THEOREM XmitQueueOrder == Spec => []QueueOrder
<1>1. Inv => QueueOrder
  BY DEF Inv, IInv
<1> QED
  BY <1>1, InvHolds, PTL

\* Whatever completes between rtw_check_xmit_resource's test and its stopping of
\* the queue, the queue has a packet that will wake it, or its own was refused, or
\* one of its packets was lost with the receiver's queues.
THEOREM XmitStoppedHasPacket == Spec => []StoppedHasPacket
<1>1. Inv => StoppedHasPacket
  BY DEF Inv
<1> QED
  BY <1>1, InvHolds, PTL

\* With two xmit_bufs or more, no frame that pre_xmitframe queued is forgotten:
\* somebody is still to schedule the tasklet or it is still to look, but for the
\* exceptions NoStranded names.  (With one, a sender may queue for want of the very
\* buffer the tasklet is giving back.)
THEOREM XmitNoStranded ==
  ASSUME NrBuf > 1 PROVE Spec => []NoStranded
<1>1. Init => NoStranded
  BY InitAccounts
<1>2. Inv /\ Inv' /\ NoStranded /\ [Next]_vars => NoStranded'
  BY NextStranded DEF Inv
<1> QED
  BY <1>1, <1>2, InvHolds, PTL DEF Spec

\* The transmit path implements the contract of the network layer, TxQueue.
THEOREM XmitImplementsTxQueue == Spec => ImplementsTxQueue
<1>1. Init /\ Inv => Net!Init
  BY InitNet DEF Inv
<1>2. Inv /\ Inv' /\ [Next]_vars => [Net!Next]_<<Fate, stopped>>
  BY NextNet DEF Inv
<1> QED
  BY <1>1, <1>2, InvHolds, PTL DEF Spec, ImplementsTxQueue, Net!Spec
=============================================================================
