-------------------------- MODULE RxReorderProofs --------------------------
(***************************************************************************)
(* Theorems about RxReorder for every sequence space, window and traffic:  *)
(* the state stays well typed, no frame waits in the reorder buffer        *)
(* without somebody who will look at it again, frames go up in the order   *)
(* of their numbers, and none is refused that the window still promises.   *)
(***************************************************************************)
EXTENDS RxReorder, SequenceTheorems, TLAPS

\* The tasklet holds a frame wherever it still has to place one.
RxHoldsFrame == rx.pc \in {"got", "direct", "lock"} => rx.n \in Frames

\* Between its unlock and its del_timer_sync the tasklet has left the buffer
\* empty, and nobody else queues.
CancelsWhenEmpty == rx.pc = "cancel" => pending = << >>

\* The inductive invariant.
IInv == TypeOK /\ RxHoldsFrame /\ CancelsWhenEmpty /\ NoStrandedFrame

\* The 12-bit mask keeps a number inside the sequence space.
LEMMA ModRange ==
  ASSUME NEW a \in Int, NEW b \in Int, b > 0
  PROVE  a % b \in 0 .. b - 1
  OBVIOUS

LEMMA ModulusType == Modulus \in Int /\ Modulus > 0
  BY RxReorderAssumption DEF RxReorderAssumption, Modulus

\* Every sequence number and every new window start is a masked number.
LEMMA MaskType ==
  ASSUME NEW a \in Int
  PROVE  a % Modulus \in 0 .. Modulus - 1
  BY ModRange, ModulusType

LEMMA SeqNumType ==
  ASSUME NEW n \in Int
  PROVE  SeqNum(n) \in 0 .. Modulus - 1
  BY MaskType DEF SeqNum

LEMMA FramesType == Frames \subseteq Int /\ NoFrame \in Int
  BY RxReorderAssumption DEF RxReorderAssumption, Frames, NoFrame

\* check_indicate_seq leaves a window start inside the sequence space.
LEMMA CheckIndicateSeqType ==
  ASSUME NEW ind \in 0 .. Modulus - 1 \cup {UNSET}, NEW s \in 0 .. Modulus - 1
  PROVE  CheckIndicateSeq(ind, s).ind \in 0 .. Modulus - 1
<1> DEFINE start == IF ind = UNSET THEN s ELSE ind
<1>1. start \in 0 .. Modulus - 1
  OBVIOUS
<1>2. (start + 1) % Modulus \in 0 .. Modulus - 1
  BY <1>1, MaskType, ModulusType
<1>3. WinShift(s) \in 0 .. Modulus - 1
  <2>1. s + 1 - WSize \in Int
    BY RxReorderAssumption, ModulusType DEF RxReorderAssumption
  <2> QED
    BY <2>1, MaskType DEF WinShift
<1> QED
  BY <1>1, <1>2, <1>3 DEF CheckIndicateSeq

\* enqueue_reorder_recvframe only inserts.
LEMMA EnqueueType ==
  ASSUME NEW n \in Frames, pending \in Seq(Frames), Enqueue(n)
  PROVE  pending' \in Seq(Frames)
<1>1. PICK i \in 1 .. Len(pending) + 1 :
        pending' = SubSeq(pending, 1, i - 1) \o <<n>>
                      \o SubSeq(pending, i, Len(pending))
  BY DEF Enqueue
<1>2. SubSeq(pending, 1, i - 1) \in Seq(Frames)
  BY SubSeqProperties
<1>3. SubSeq(pending, i, Len(pending)) \in Seq(Frames)
  BY SubSeqProperties
<1>4. <<n>> \in Seq(Frames)
  OBVIOUS
<1> QED
  BY <1>1, <1>2, <1>3, <1>4, ConcatProperties

\* Accepting a frame keeps the history variables typed.
LEMMA AcceptType ==
  ASSUME NEW n \in Frames, got \in SUBSET Frames, Accept(n)
  PROVE  got' \in SUBSET Frames
  BY DEF Accept

LEMMA LargerType ==
  ASSUME NEW m \in Frames, NEW n \in Frames
  PROVE  Larger(m, n) \in Frames
  BY DEF Larger

\* A turn of the indication loop takes the head away and nothing else.
LEMMA IndicateHeadType ==
  ASSUME TypeOK, IndicateHead
  PROVE  /\ pending # << >>
         /\ pending' \in Seq(Frames)
         /\ indicate_seq' \in 0 .. Modulus - 1 \cup {UNSET}
         /\ out' \in [last : Frames \cup {NoFrame}, ok : BOOLEAN]
<1>1. pending # << >> /\ pending \in Seq(Frames)
  BY DEF IndicateHead, HeadIsDue, TypeOK
<1>2. Head(pending) \in Frames /\ Tail(pending) \in Seq(Frames)
  BY <1>1
<1>3. indicate_seq' \in 0 .. Modulus - 1 \cup {UNSET}
  <2>1. CASE indicate_seq = SeqNum(Head(pending))
    <3>1. Head(pending) \in Int
      BY <1>2, FramesType
    <3>2. SeqNum(Head(pending)) \in 0 .. Modulus - 1
      BY <3>1, SeqNumType
    <3>3. indicate_seq + 1 \in Int
      BY <2>1, <3>2, ModulusType
    <3> QED
      BY <2>1, <3>3, MaskType DEF IndicateHead
  <2>2. CASE indicate_seq # SeqNum(Head(pending))
    BY <2>2 DEF IndicateHead, TypeOK
  <2> QED
    BY <2>1, <2>2
<1>4. out' \in [last : Frames \cup {NoFrame}, ok : BOOLEAN]
  <2>1. CASE out' = out
    BY <2>1 DEF TypeOK
  <2>2. CASE out' = [last |-> Head(pending), ok |-> out.ok /\ Head(pending) > out.last]
    BY <1>2, <2>2, Zenon
  <2> QED
    BY <2>1, <2>2, Zenon DEF IndicateHead, Indicate, Deliver
<1> QED
  BY <1>1, <1>2, <1>3, <1>4 DEF IndicateHead

-----------------------------------------------------------------------------
LEMMA InitIInv == Init => IInv
<1> SUFFICES ASSUME Init PROVE IInv
  OBVIOUS
<1>1. UNSET \in 0 .. Modulus - 1 \cup {UNSET}
  OBVIOUS
<1>2. 0 \in Frames /\ 0 \in 0 .. MaxReset
  BY RxReorderAssumption DEF RxReorderAssumption, Frames
<1>3. TypeOK
  <2>1. << >> \in Seq(Frames)
    OBVIOUS
  <2> QED
    BY <1>1, <1>2, <2>1, Zenon DEF Init, TypeOK, Idle
<1> QED
  BY <1>3 DEF Init, IInv, RxHoldsFrame, CancelsWhenEmpty, NoStrandedFrame, Idle

\* Each step keeps the inductive invariant: one case per action.
LEMMA NextIInv == IInv /\ [Next]_vars => IInv'
<1> SUFFICES ASSUME IInv, [Next]_vars PROVE IInv'
  OBVIOUS
<1> USE DEF IInv, RxHoldsFrame, CancelsWhenEmpty, NoStrandedFrame, TypeOK,
            Ctrl, Peer, Past, Idle
<1>1. ASSUME OriginatorAdvance PROVE IInv'
  <2>1. tx' \in Frames
    BY <1>1, RxReorderAssumption DEF OriginatorAdvance, RxReorderAssumption, Frames
  <2> QED
    BY <1>1, <2>1 DEF OriginatorAdvance
<1>2. ASSUME NEW n \in Frames, Receive(n) PROVE IInv'
  <2>1. SeqNum(n) \in 0 .. Modulus - 1
    BY SeqNumType, FramesType
  <2> QED
    BY <1>2, <2>1 DEF Receive
<1>3. ASSUME NEW accept \in BOOLEAN, AddBA(accept) PROVE IInv'
  BY <1>3, RxReorderAssumption DEF AddBA, RxReorderAssumption
<1>4. ASSUME DelBA PROVE IInv'
  <2>1. resets' \in 0 .. MaxReset
    BY <1>4, RxReorderAssumption DEF DelBA, RxReorderAssumption
  <2>2. dirty' \in BOOLEAN
    BY <1>4, Zenon DEF DelBA
  <2>4. TypeOK'
    BY <1>4, <2>1, <2>2, ZenonT(60) DEF DelBA
  <2>5. (RxHoldsFrame /\ CancelsWhenEmpty /\ NoStrandedFrame)'
    BY <1>4, Zenon DEF DelBA
  <2> QED
    BY <2>4, <2>5
<1>5. ASSUME SendDelBA PROVE IInv'
  <2>1. resets' \in 0 .. MaxReset
    BY <1>5, RxReorderAssumption DEF SendDelBA, RxReorderAssumption
  <2>2. dirty' \in BOOLEAN
    BY <1>5, Zenon DEF SendDelBA
  <2>4. TypeOK'
    <3>1. enable' \in BOOLEAN
      BY <1>5, Zenon DEF SendDelBA
    <3>2. indicate_seq' \in 0 .. Modulus - 1 \cup {UNSET}
      BY <1>5, Zenon DEF SendDelBA
    <3> QED
      <4>1. timer' \in BOOLEAN /\ stopped' \in BOOLEAN
        BY <1>5, Zenon DEF SendDelBA
      <4>2. UNCHANGED <<pending, lock, rxcache, rx, th, fr, tx, hi, out, got, floor>>
        BY <1>5 DEF SendDelBA
      <4>3. TypeOK
        BY DEF IInv
      <4> HIDE DEF IInv, RxHoldsFrame, CancelsWhenEmpty, NoStrandedFrame
      <4>4. /\ pending' \in Seq(Frames) /\ lock' \in {"none", "rx", "timer", "free"}
            /\ rxcache' \in 0 .. Modulus - 1 \cup {UNSET}
            /\ rx' \in [pc : {"idle", "got", "direct", "lock", "loop", "cancel"},
                        n : Frames \cup {NoFrame}]
            /\ th' \in {"idle", "lock", "loop"}
            /\ tx' \in Frames /\ hi' \in Frames \cup {NoFrame}
            /\ out' \in [last : Frames \cup {NoFrame}, ok : BOOLEAN]
            /\ got' \in SUBSET Frames /\ floor' \in Frames
            /\ fr' \in {"live", "cancel", "drain", "release", "free"}
        BY <4>2, <4>3 DEF TypeOK
      <4> QED
        BY <2>1, <2>2, <3>1, <3>2, <4>1, <4>4 DEF TypeOK
  <2>5. (RxHoldsFrame /\ CancelsWhenEmpty /\ NoStrandedFrame)'
    BY <1>5, Zenon DEF SendDelBA
  <2> QED
    BY <2>4, <2>5
<1>6. ASSUME RxDirect PROVE IInv'
  <2>1. SeqNum(rx.n) \in 0 .. Modulus - 1
    BY <1>6, SeqNumType, FramesType DEF RxDirect
  <2>2. out' \in [last : Frames \cup {NoFrame}, ok : BOOLEAN]
    <3>1. out' = [last |-> rx.n, ok |-> out.ok /\ rx.n > out.last]
      BY <1>6 DEF RxDirect, Deliver
    <3>2. rx.n \in Frames
      BY <1>6 DEF RxDirect
    <3> QED
      BY <3>1, <3>2, Zenon
  <2>3. got' \in SUBSET Frames /\ floor' \in Frames
    BY <1>6, AcceptType, LargerType DEF RxDirect
  <2> QED
    BY <1>6, <2>1, <2>2, <2>3 DEF RxDirect
<1>7. ASSUME RxDirectDone PROVE IInv'
  <2>1. indicate_seq + 1 \in Int
    BY ModulusType DEF UNSET
  <2>2. indicate_seq' \in 0 .. Modulus - 1
    BY <1>7, <2>1, MaskType DEF RxDirectDone
  <2> QED
    BY <1>7, <2>2 DEF RxDirectDone
<1>8. ASSUME RxEnabled PROVE IInv'
  BY <1>8 DEF RxEnabled
<1>9. ASSUME rx.pc = "lock"
      PROVE  CheckIndicateSeq(indicate_seq, SeqNum(rx.n)).ind \in 0 .. Modulus - 1
  <2>1. SeqNum(rx.n) \in 0 .. Modulus - 1
    BY <1>9, SeqNumType, FramesType
  <2> QED
    BY <2>1, CheckIndicateSeqType
<1>10. ASSUME RxRefuse PROVE IInv'
  <2>1. indicate_seq' \in 0 .. Modulus - 1
    BY <1>9, <1>10 DEF RxRefuse
  <2> QED
    BY <1>10, <2>1 DEF RxRefuse
<1>11. ASSUME RxQueue PROVE IInv'
  <2>1. indicate_seq' \in 0 .. Modulus - 1
    BY <1>9, <1>11 DEF RxQueue
  <2>2. pending' \in Seq(Frames)
    BY <1>11, EnqueueType DEF RxQueue
  <2>3. got' \in SUBSET Frames /\ floor' \in Frames
    BY <1>11, AcceptType, LargerType DEF RxQueue
  <2> QED
    BY <1>11, <2>1, <2>2, <2>3 DEF RxQueue
<1>12. ASSUME RxIndicate PROVE IInv'
  BY <1>12, IndicateHeadType DEF RxIndicate
<1>13. ASSUME RxBuffered PROVE IInv'
  BY <1>13 DEF RxBuffered
<1>14. ASSUME RxEmptied PROVE IInv'
  BY <1>14 DEF RxEmptied
<1>15. ASSUME RxCancelTimer PROVE IInv'
  <2>1. TypeOK'
    <3>1. timer' \in BOOLEAN /\ rx' = [pc |-> "idle", n |-> NoFrame]
      BY <1>15 DEF RxCancelTimer
    <3>2. UNCHANGED <<enable, indicate_seq, pending, lock, rxcache, th, fr,
                      stopped, Past, Peer>>
      BY <1>15 DEF RxCancelTimer
    <3> QED
      BY <3>1, <3>2
  <2>2. (RxHoldsFrame /\ CancelsWhenEmpty /\ NoStrandedFrame)'
    BY <1>15, Zenon DEF RxCancelTimer
  <2> QED
    BY <2>1, <2>2
<1>16. ASSUME TimerFires PROVE IInv'
  <2>1. TypeOK'
    <3>1. timer' \in BOOLEAN /\ th' \in {"idle", "lock", "loop"}
      BY <1>16 DEF TimerFires
    <3> QED
      <4>1. UNCHANGED <<enable, indicate_seq, pending, lock, rxcache, rx, fr,
                        stopped, Past, Peer>>
        BY <1>16 DEF TimerFires
      <4> QED
        BY <3>1, <4>1
  <2>2. (RxHoldsFrame /\ CancelsWhenEmpty /\ NoStrandedFrame)'
    BY <1>16, Zenon DEF TimerFires
  <2> QED
    BY <2>1, <2>2
<1>17. ASSUME TimerLock PROVE IInv'
  <2>1. CASE pending = << >>
    BY <1>17, <2>1 DEF TimerLock
  <2>2. CASE pending # << >>
    <3>1. Head(pending) \in Int
      <4>1. Head(pending) \in Frames
        BY <2>2
      <4> QED
        BY <4>1, FramesType
    <3>2. SeqNum(Head(pending)) \in 0 .. Modulus - 1
      BY <3>1, SeqNumType
    <3>3. floor' \in Frames
      <4>1. Head(pending) \in Frames
        BY <2>2
      <4> QED
        BY <1>17, <2>2, <4>1, LargerType DEF TimerLock
    <3> QED
      BY <1>17, <2>2, <3>2, <3>3 DEF TimerLock
  <2> QED
    BY <2>1, <2>2
<1>18. ASSUME TimerIndicate PROVE IInv'
  BY <1>18, IndicateHeadType DEF TimerIndicate
<1>19. ASSUME TimerDone PROVE IInv'
  <2>1. TypeOK'
    <3>1. timer' \in BOOLEAN
      BY <1>19, Zenon DEF TimerDone
    <3>2. lock' \in {"none", "rx", "timer", "free"} /\ th' \in {"idle", "lock", "loop"}
      BY <1>19 DEF TimerDone
    <3>3. UNCHANGED <<enable, indicate_seq, pending, rxcache, rx, fr, stopped,
                      Past, Peer>>
      BY <1>19 DEF TimerDone
    <3> QED
      BY <3>1, <3>2, <3>3
  <2>2. (RxHoldsFrame /\ CancelsWhenEmpty /\ NoStrandedFrame)'
    BY <1>19, Zenon DEF TimerDone
  <2> QED
    BY <2>1, <2>2
<1>20. ASSUME FreeUnhash PROVE IInv'
  <2>1. 0 \in 0 .. Modulus - 1
    BY ModulusType
  <2> QED
    BY <1>20, <2>1 DEF FreeUnhash
<1>21. ASSUME FreeCancelTimer PROVE IInv'
  <2>1. TypeOK'
    <3>1. timer' \in BOOLEAN /\ fr' \in {"live", "cancel", "drain", "release", "free"}
      BY <1>21 DEF FreeCancelTimer
    <3> QED
      <4>1. enable' \in BOOLEAN /\ stopped' \in BOOLEAN /\ dirty' \in BOOLEAN
        BY <1>21, Zenon DEF FreeCancelTimer
      <4>2. UNCHANGED <<indicate_seq, pending, lock, rxcache, rx, th, tx, hi, out, got, floor,
                        resets>>
        BY <1>21 DEF FreeCancelTimer
      <4>3. TypeOK
        BY DEF IInv
      <4> HIDE DEF IInv, RxHoldsFrame, CancelsWhenEmpty, NoStrandedFrame
      <4>4. /\ pending' \in Seq(Frames) /\ lock' \in {"none", "rx", "timer", "free"}
            /\ rxcache' \in 0 .. Modulus - 1 \cup {UNSET}
            /\ rx' \in [pc : {"idle", "got", "direct", "lock", "loop", "cancel"},
                        n : Frames \cup {NoFrame}]
            /\ th' \in {"idle", "lock", "loop"}
            /\ tx' \in Frames /\ hi' \in Frames \cup {NoFrame}
            /\ out' \in [last : Frames \cup {NoFrame}, ok : BOOLEAN]
            /\ got' \in SUBSET Frames /\ floor' \in Frames
            /\ indicate_seq' \in 0 .. Modulus - 1 \cup {UNSET} /\ resets' \in 0 .. MaxReset
        BY <4>2, <4>3 DEF TypeOK
      <4> QED
        BY <3>1, <4>1, <4>4 DEF TypeOK
  <2>2. (RxHoldsFrame /\ CancelsWhenEmpty /\ NoStrandedFrame)'
    BY <1>21, Zenon DEF FreeCancelTimer
  <2> QED
    BY <2>1, <2>2
<1>22. ASSUME FreeDrain PROVE IInv'
  BY <1>22 DEF FreeDrain
<1>23. ASSUME FreeRelease PROVE IInv'
  BY <1>23 DEF FreeRelease
<1>24. ASSUME AllocStation PROVE IInv'
  <2>1. resets' \in 0 .. MaxReset
    BY <1>24, RxReorderAssumption DEF AllocStation, RxReorderAssumption
  <2>2. dirty' \in BOOLEAN
    BY <1>24, Zenon DEF AllocStation
  <2>3. << >> \in Seq(Frames)
    OBVIOUS
  <2>4. TypeOK'
    BY <1>24, <2>1, <2>2, <2>3, ZenonT(60) DEF AllocStation
  <2>5. (RxHoldsFrame /\ CancelsWhenEmpty /\ NoStrandedFrame)'
    BY <1>24, Zenon DEF AllocStation
  <2> QED
    BY <2>4, <2>5
<1>25. ASSUME DriverStop PROVE IInv'
  BY <1>25 DEF DriverStop
<1>26. CASE UNCHANGED vars
  BY <1>26 DEF vars
<1> QED
  BY <1>1, <1>2, <1>3, <1>4, <1>5, <1>6, <1>7, <1>8, <1>10, <1>11, <1>12,
     <1>13, <1>14, <1>15, <1>16, <1>17, <1>18, <1>19, <1>20, <1>21, <1>22,
     <1>23, <1>24, <1>25, <1>26
  DEF Next, Tasklet, Handler, Station

\* The state of the reorder buffer, its timer and its users is well typed in
\* every behaviour, for every sequence space, window and traffic.
THEOREM ReorderTypeOK == Spec => []TypeOK
<1>1. IInv => TypeOK
  BY DEF IInv
<1> QED
  BY <1>1, InitIInv, NextIInv, PTL DEF Spec

\* No frame is stranded in a reorder buffer: rtw_reordering_ctrl_timer is
\* queued, or its handler or the tasklet is at work, or rtw_free_stainfo is
\* about to drain the queue, or the driver is stopped.
THEOREM ReorderNoStrandedFrame == Spec => []NoStrandedFrame
<1>1. IInv => NoStrandedFrame
  BY DEF IInv
<1> QED
  BY <1>1, InitIInv, NextIInv, PTL DEF Spec
-----------------------------------------------------------------------------
(***************************************************************************)
(* Arithmetic of the sequence space.                                       *)
(***************************************************************************)
LEMMA ModSplit ==
  ASSUME NEW m \in Int, m > 0, NEW a \in Int
  PROVE  a = m * (a \div m) + (a % m) /\ a \div m \in Int
  OBVIOUS

LEMMA ModUnique ==
  ASSUME NEW m \in Int, m > 0, NEW q \in Int, NEW r \in 0 .. m - 1
  PROVE  (m * q + r) % m = r
<1> DEFINE a == m * q + r
           p == a \div m
           s == a % m
<1>1. a \in Int
  OBVIOUS
<1>2. a = m * p + s /\ p \in Int
  BY <1>1, ModSplit
<1>3. s \in 0 .. m - 1
  BY <1>1, ModRange
<1> HIDE DEF p, s
<1>4. m * (q - p) = s - r
  BY <1>2, <1>3
<1>5. q - p \in Int /\ -m < s - r /\ s - r < m
  BY <1>2, <1>3
<1>6. q - p >= 1 => m * (q - p) >= m
  BY <1>5
<1>7. q - p <= -1 => m * (q - p) <= -m
  BY <1>5
<1>8. q - p = 0
  BY <1>4, <1>5, <1>6, <1>7, <1>3
<1> QED
  BY <1>4, <1>8, <1>3 DEF s

LEMMA ModShift ==
  ASSUME NEW m \in Int, m > 0, NEW a \in Int, NEW b \in Int
  PROVE  /\ ((a % m) + b) % m = (a + b) % m
         /\ ((a % m) - (b % m)) % m = (a - b) % m
<1> DEFINE qa == a \div m
           ra == a % m
           qb == b \div m
           rb == b % m
<1>1. a = m * qa + ra /\ qa \in Int /\ ra \in Int
  BY ModSplit, ModRange
<1>2. b = m * qb + rb /\ qb \in Int /\ rb \in Int
  BY ModSplit, ModRange
<1> HIDE DEF qa, ra, qb, rb
<1>3. (ra + b) % m = (a + b) % m
  <2> DEFINE q == (ra + b) \div m
             r == (ra + b) % m
  <2>1. ra + b = m * q + r /\ q \in Int /\ r \in 0 .. m - 1
    BY <1>1, ModSplit, ModRange
  <2> HIDE DEF q, r
  <2>2. a + b = m * (qa + q) + r /\ qa + q \in Int
    BY <1>1, <2>1
  <2>3. (m * (qa + q) + r) % m = r
    BY <2>1, <2>2, ModUnique
  <2> QED
    BY <2>2, <2>3 DEF r
<1>4. (ra - rb) % m = (a - b) % m
  <2> DEFINE q == (ra - rb) \div m
             r == (ra - rb) % m
  <2>1. ra - rb = m * q + r /\ q \in Int /\ r \in 0 .. m - 1
    BY <1>1, <1>2, ModSplit, ModRange
  <2> HIDE DEF q, r
  <2>2. a - b = m * ((qa - qb) + q) + r /\ (qa - qb) + q \in Int
    BY <1>1, <1>2, <2>1
  <2>3. (m * ((qa - qb) + q) + r) % m = r
    BY <2>1, <2>2, ModUnique
  <2> QED
    BY <2>2, <2>3 DEF r
<1> QED
  BY <1>3, <1>4 DEF ra, rb

LEMMA ModSmall ==
  ASSUME NEW m \in Int, m > 0, NEW d \in Int, -m <= d, d < m
  PROVE  d % m = IF d < 0 THEN d + m ELSE d
<1>1. CASE d < 0
  <2>1. d = m * (-1) + (d + m) /\ d + m \in 0 .. m - 1
    BY <1>1
  <2> QED
    BY <1>1, <2>1, ModUnique
<1>2. CASE d >= 0
  <2>1. d = m * 0 + d /\ d \in 0 .. m - 1
    BY <1>2
  <2> QED
    BY <1>2, <2>1, ModUnique
<1> QED
  BY <1>1, <1>2

LEMMA SpaceFacts ==
  /\ Half \in Int /\ WSize \in Int /\ Modulus = 2 * Half
  /\ 0 < WSize /\ WSize < Half /\ 2 * WSize <= Half + 1
  /\ MaxLost = Half - 2 * WSize + 1
  BY RxReorderAssumption DEF RxReorderAssumption, Modulus, MaxLost

\* SN_LESS compares as the unwrapped numbers do, as long as they are less
\* than half of the space apart.
LEMMA SeqOrder ==
  ASSUME NEW a \in Int, NEW b \in Int, -Half <= a - b, a - b < Half
  PROVE  /\ SN_LESS(SeqNum(a), SeqNum(b)) <=> a < b
         /\ SeqNum(a) = SeqNum(b) <=> a = b
<1> DEFINE d == a - b
<1>1. d \in Int /\ -Modulus <= d /\ d < Modulus /\ Modulus \in Int /\ Modulus > 0
  BY SpaceFacts
<1>2. (SeqNum(a) - SeqNum(b)) % Modulus = d % Modulus
  BY <1>1, ModShift DEF SeqNum
<1>3. d % Modulus = IF d < 0 THEN d + Modulus ELSE d
  BY <1>1, ModSmall
<1>4. SN_LESS(SeqNum(a), SeqNum(b)) <=> a < b
  BY <1>2, <1>3, SpaceFacts DEF SN_LESS
<1>5. SeqNum(a) = SeqNum(b) => a = b
  <2> SUFFICES ASSUME SeqNum(a) = SeqNum(b) PROVE a = b
    OBVIOUS
  <2>1. SeqNum(a) \in Int
    BY SeqNumType, ModulusType
  <2>2. SeqNum(a) - SeqNum(b) = 0
    BY <2>1
  <2>3. 0 % Modulus = 0
    BY <1>1, ModSmall
  <2> QED
    BY <1>1, <1>2, <1>3, <2>2, <2>3, SpaceFacts
<1> QED
  BY <1>4, <1>5

\* Masking before or after an addition makes no difference.
LEMMA SeqShift ==
  ASSUME NEW a \in Int, NEW b \in Int
  PROVE  (SeqNum(a) + b) % Modulus = SeqNum(a + b)
  BY ModShift, ModulusType DEF SeqNum

LEMMA SeqIsSet ==
  ASSUME NEW a \in Int
  PROVE  SeqNum(a) # UNSET /\ SeqNum(a) \in Int
  BY SeqNumType, ModulusType DEF UNSET

(***************************************************************************)
(* check_indicate_seq on unwrapped numbers: the new start of a window that *)
(* starts at w, for frame n.                                               *)
(***************************************************************************)
NextStart(w, n) ==
  IF n < w THEN w
  ELSE IF n = w THEN w + 1
  ELSE IF w + WSize <= n THEN n + 1 - WSize
  ELSE w

LEMMA CheckWindow ==
  ASSUME NEW w \in Int, NEW n \in Int, -Half <= n - w, n - w < Half
  PROVE  /\ CheckIndicateSeq(SeqNum(w), SeqNum(n)).ok <=> w <= n
         /\ CheckIndicateSeq(SeqNum(w), SeqNum(n)).ind = SeqNum(NextStart(w, n))
<1> DEFINE c == CheckIndicateSeq(SeqNum(w), SeqNum(n))
           wend == (SeqNum(w) + WSize - 1) % Modulus
<1>1. SeqNum(w) # UNSET /\ SeqNum(w) \in Int /\ SeqNum(n) \in Int
  BY SeqIsSet
<1>2. (SN_LESS(SeqNum(n), SeqNum(w)) <=> n < w) /\ (SeqNum(n) = SeqNum(w) <=> n = w)
  BY SeqOrder
<1>3. wend = SeqNum(w + WSize - 1)
  <2>1. SeqNum(w) + WSize - 1 = SeqNum(w) + (WSize - 1) /\ WSize - 1 \in Int
    BY <1>1, SpaceFacts
  <2>2. (SeqNum(w) + (WSize - 1)) % Modulus = SeqNum(w + (WSize - 1))
    BY <2>1, SeqShift
  <2>3. w + (WSize - 1) = w + WSize - 1
    BY SpaceFacts
  <2> QED
    BY <2>1, <2>2, <2>3
<1>4. (SeqNum(w) + 1) % Modulus = SeqNum(w + 1)
  BY SeqShift
<1>5. WinShift(SeqNum(n)) = SeqNum(n + 1 - WSize)
  <2>1. SeqNum(n) + 1 - WSize = SeqNum(n) + (1 - WSize) /\ 1 - WSize \in Int
    BY <1>1, SpaceFacts
  <2>2. (SeqNum(n) + (1 - WSize)) % Modulus = SeqNum(n + (1 - WSize))
    BY <2>1, SeqShift
  <2>3. n + (1 - WSize) = n + 1 - WSize
    BY SpaceFacts
  <2> QED
    BY <2>1, <2>2, <2>3 DEF WinShift
<1>6. ASSUME n > w PROVE SN_LESS(wend, SeqNum(n)) <=> w + WSize <= n
  <2>1. w + WSize - 1 \in Int /\ -Half <= (w + WSize - 1) - n /\ (w + WSize - 1) - n < Half
    BY <1>6, SpaceFacts
  <2>2. SN_LESS(SeqNum(w + WSize - 1), SeqNum(n)) <=> w + WSize - 1 < n
    BY <2>1, SeqOrder
  <2> QED
    BY <1>3, <2>2, SpaceFacts
<1>7. /\ c.ok = ~SN_LESS(SeqNum(n), SeqNum(w))
      /\ c.ind = IF SN_LESS(SeqNum(n), SeqNum(w)) THEN SeqNum(w)
                 ELSE IF SeqNum(n) = SeqNum(w) THEN (SeqNum(w) + 1) % Modulus
                 ELSE IF SN_LESS(wend, SeqNum(n)) THEN WinShift(SeqNum(n))
                 ELSE SeqNum(w)
  BY <1>1 DEF CheckIndicateSeq
<1> HIDE DEF c, wend
<1>8. c.ok <=> w <= n
  <2>1. n < w <=> ~(w <= n)
    OBVIOUS
  <2> QED
    BY <1>2, <1>7, <2>1, Zenon
<1>9. c.ind = SeqNum(NextStart(w, n))
  <2>1. CASE n < w
    BY <2>1, <1>2, <1>7 DEF NextStart
  <2>2. CASE n = w
    BY <2>2, <1>2, <1>4, <1>7 DEF NextStart
  <2>3. CASE n > w
    BY <2>3, <1>2, <1>5, <1>6, <1>7 DEF NextStart
  <2> QED
    BY <2>1, <2>2, <2>3
<1> QED
  BY <1>8, <1>9 DEF c

\* The first frame after a reset opens the window behind itself.
LEMMA CheckOpening ==
  ASSUME NEW n \in Int
  PROVE  /\ CheckIndicateSeq(UNSET, SeqNum(n)).ok
         /\ CheckIndicateSeq(UNSET, SeqNum(n)).ind = SeqNum(n + 1)
<1>1. ~SN_LESS(SeqNum(n), SeqNum(n))
  BY SeqOrder, SpaceFacts
<1>2. (SeqNum(n) + 1) % Modulus = SeqNum(n + 1)
  BY SeqShift
<1> QED
  BY <1>1, <1>2 DEF CheckIndicateSeq

(***************************************************************************)
(* enqueue_reorder_recvframe on a buffer in order, none of whose frames is *)
(* half of the space away from the new one.                                *)
(***************************************************************************)
Ascending(s) == \A i, j \in 1 .. Len(s) : i < j => s[i] < s[j]

LEMMA DuplicateIsBuffered ==
  ASSUME NEW n \in Int, pending \in Seq(Int), IsDuplicate(n),
         \A i \in 1 .. Len(pending) : -Half <= pending[i] - n /\ pending[i] - n < Half
  PROVE  \E i \in 1 .. Len(pending) : pending[i] = n
<1>1. PICK i \in 1 .. Len(pending) : SeqNum(pending[i]) = SeqNum(n)
  BY DEF IsDuplicate
<1>2. pending[i] \in Int
  OBVIOUS
<1>3. pending[i] = n
  BY <1>1, <1>2, SeqOrder
<1> QED
  BY <1>3

LEMMA EnqueueInOrder ==
  ASSUME NEW n \in Int, pending \in Seq(Int), Ascending(pending),
         ~IsDuplicate(n), Enqueue(n),
         \A i \in 1 .. Len(pending) : -Half <= pending[i] - n /\ pending[i] - n < Half
  PROVE  /\ pending' \in Seq(Int) /\ pending' # << >>
         /\ Ascending(pending')
         /\ \A j \in 1 .. Len(pending') :
              pending'[j] = n \/ \E i \in 1 .. Len(pending) : pending'[j] = pending[i]
<1>1. PICK k \in 1 .. Len(pending) + 1 :
        /\ WalkStops(n, k)
        /\ pending' = SubSeq(pending, 1, k - 1) \o <<n>> \o SubSeq(pending, k, Len(pending))
  BY DEF Enqueue
<1>2. /\ pending' \in Seq(Int) /\ Len(pending') = Len(pending) + 1
      /\ \A j \in 1 .. Len(pending) + 1 :
           pending'[j] = IF j < k THEN pending[j] ELSE IF j = k THEN n ELSE pending[j - 1]
  <2> DEFINE before == SubSeq(pending, 1, k - 1)
             after == SubSeq(pending, k, Len(pending))
  <2>1. /\ before \in Seq(Int) /\ Len(before) = k - 1
        /\ \A j \in 1 .. k - 1 : before[j] = pending[j]
    BY SubSeqProperties
  <2>2. /\ after \in Seq(Int) /\ Len(after) = Len(pending) + 1 - k
        /\ \A j \in 1 .. Len(pending) + 1 - k : after[j] = pending[k + j - 1]
    BY SubSeqProperties
  <2>3. Len(pending) \in Nat
    OBVIOUS
  <2> HIDE DEF before, after
  <2> DEFINE front == before \o <<n>>
  <2>4. /\ front \in Seq(Int) /\ Len(front) = k
        /\ \A j \in 1 .. k : front[j] = IF j < k THEN pending[j] ELSE n
    BY <2>1
  <2>5. pending' = front \o after
    BY <1>1 DEF before, after
  <2> HIDE DEF front
  <2>6. /\ front \o after \in Seq(Int) /\ Len(front \o after) = Len(pending) + 1
        /\ \A j \in 1 .. Len(pending) + 1 :
             (front \o after)[j] = IF j <= k THEN front[j] ELSE after[j - k]
    <3>1. /\ front \o after \in Seq(Int)
          /\ Len(front \o after) = Len(front) + Len(after)
          /\ \A j \in 1 .. Len(front) + Len(after) :
               (front \o after)[j] = IF j <= Len(front) THEN front[j] ELSE after[j - Len(front)]
      BY <2>2, <2>4, ConcatProperties
    <3>2. Len(front) = k /\ Len(front) + Len(after) = Len(pending) + 1
      BY <2>2, <2>3, <2>4
    <3> QED
      BY <3>1, <3>2
  <2>7. ASSUME NEW j \in 1 .. Len(pending) + 1
        PROVE  pending'[j] = IF j < k THEN pending[j] ELSE IF j = k THEN n ELSE pending[j - 1]
    <3>1. pending'[j] = IF j <= k THEN front[j] ELSE after[j - k]
      BY <2>5, <2>6
    <3>2. j > k => after[j - k] = pending[j - 1]
      BY <2>2, <2>3
    <3> QED
      BY <3>1, <3>2, <2>3, <2>4
  <2>8. pending' \in Seq(Int) /\ Len(pending') = Len(pending) + 1
    BY <2>5, <2>6
  <2> QED
    BY <2>7, <2>8
<1>3. \A j \in 1 .. k - 1 : pending[j] < n
  <2> TAKE j \in 1 .. k - 1
  <2>1. j \in 1 .. Len(pending) /\ pending[j] \in Int
    OBVIOUS
  <2>2. SN_LESS(SeqNum(pending[j]), SeqNum(n))
    BY <1>1 DEF WalkStops
  <2> QED
    BY <2>1, <2>2, SeqOrder
<1>4. k <= Len(pending) => n < pending[k]
  <2> SUFFICES ASSUME k <= Len(pending) PROVE n < pending[k]
    OBVIOUS
  <2>1. k \in 1 .. Len(pending) /\ pending[k] \in Int
    OBVIOUS
  <2>2. ~SN_LESS(SeqNum(pending[k]), SeqNum(n))
    BY <1>1 DEF WalkStops
  <2>3. SeqNum(pending[k]) # SeqNum(n)
    BY <1>1, <2>1 DEF IsDuplicate
  <2> QED
    BY <2>1, <2>2, <2>3, SeqOrder
<1>5. \A j \in k .. Len(pending) : n < pending[j]
  <2> TAKE j \in k .. Len(pending)
  <2>1. k \in 1 .. Len(pending) /\ j \in 1 .. Len(pending)
    OBVIOUS
  <2>2. k < j => pending[k] < pending[j]
    BY <2>1 DEF Ascending
  <2>3. pending[k] \in Int /\ pending[j] \in Int
    BY <2>1
  <2> QED
    BY <1>4, <2>1, <2>2, <2>3
<1>6. Ascending(pending')
  <2>0. Len(pending) \in Nat /\ \A j \in 1 .. Len(pending) : pending[j] \in Int
    OBVIOUS
  <2> SUFFICES ASSUME NEW i \in 1 .. Len(pending'), NEW j \in 1 .. Len(pending'), i < j
               PROVE  pending'[i] < pending'[j]
    BY DEF Ascending
  <2>1. CASE j < k
    <3>1. i \in 1 .. Len(pending) /\ j \in 1 .. Len(pending)
      BY <2>0, <2>1, <1>2
    <3>2. pending[i] < pending[j]
      BY <3>1 DEF Ascending
    <3> QED
      BY <2>1, <1>2, <3>1, <3>2, SMTT(60)
  <2>2. CASE j = k
    <3>1. i \in 1 .. k - 1 /\ pending'[i] = pending[i] /\ pending'[j] = n
      BY <2>0, <2>2, <1>2
    <3> QED
      BY <3>1, <1>3
  <2>3. CASE j > k /\ i = k
    <3>1. j - 1 \in k .. Len(pending) /\ pending'[i] = n /\ pending'[j] = pending[j - 1]
      BY <2>0, <2>3, <1>2
    <3> QED
      BY <3>1, <1>5
  <2>4. CASE j > k /\ i < k
    <3>1. i \in 1 .. Len(pending) /\ j - 1 \in 1 .. Len(pending) /\ i < j - 1
      BY <2>4, <1>2
    <3>2. pending[i] < pending[j - 1]
      BY <3>1 DEF Ascending
    <3> QED
      BY <2>4, <1>2, <3>1, <3>2, SMTT(60)
  <2>5. CASE j > k /\ i > k
    <3>1. i - 1 \in 1 .. Len(pending) /\ j - 1 \in 1 .. Len(pending) /\ i - 1 < j - 1
      BY <2>5, <1>2
    <3>2. pending[i - 1] < pending[j - 1]
      BY <3>1 DEF Ascending
    <3>3. pending'[i] = pending[i - 1] /\ pending'[j] = pending[j - 1]
      BY <2>5, <1>2
    <3> QED
      BY <3>2, <3>3
  <2> QED
    BY <2>1, <2>2, <2>3, <2>4, <2>5, <1>2
<1>7. ASSUME NEW j \in 1 .. Len(pending')
      PROVE  pending'[j] = n \/ \E i \in 1 .. Len(pending) : pending'[j] = pending[i]
  <2>1. CASE j < k
    BY <2>1, <1>2
  <2>2. CASE j = k
    BY <2>2, <1>2
  <2>3. CASE j > k
    <3>1. j - 1 \in 1 .. Len(pending) /\ pending'[j] = pending[j - 1]
      BY <2>3, <1>2
    <3> QED
      BY <3>1
  <2> QED
    BY <2>1, <2>2, <2>3, <1>2
<1> QED
  BY <1>2, <1>6, <1>7

-----------------------------------------------------------------------------
(***************************************************************************)
(* Delivery in order.  The invariant speaks of two unwrapped numbers that  *)
(* the code does not have: p, the newest frame the window has seen, and w, *)
(* the frame whose masked number is indicate_seq.                          *)
(***************************************************************************)

\* The tasklet holds a frame that the window has not seen yet.
Holding == rx.pc \in {"got", "lock"}

\* No window is open: the next frame opens it.
Fresh == ~enable \/ indicate_seq = UNSET

\* Who may be where in a session that was not reset.
Places ==
  /\ rx.pc \in {"lock", "loop"} => enable
  /\ rx.pc = "direct" => ~enable
  /\ rx.pc = "loop" => lock = "rx"
  /\ th = "loop" => lock = "timer"
  /\ hi = NoFrame => rx.pc = "idle" /\ th # "loop"

\* What the originator keeps to bounds the distance between the frame in hand
\* and the newest one before it.
Traffic(p) ==
  /\ p <= hi /\ out.last <= p
  /\ ~Holding => p = hi
  /\ Holding => /\ rx.n + WSize > hi
                /\ hi = Larger(p, rx.n)
                /\ p # NoFrame => rx.n <= p + Half - WSize
  /\ hi < tx + WSize
  /\ hi # NoFrame => tx <= hi + MaxLost

\* Until a window opens nothing is buffered and every frame is a new one, by
\* the originator's stop and wait and by rxcache.
Opening(p) ==
  /\ pending = << >>
  /\ rx.pc # "loop"
  /\ Holding => p < rx.n
  /\ ~enable \/ ~Holding => tx >= hi
  /\ fr = "live" /\ hi # NoFrame => rxcache = SeqNum(hi)

\* One buffered frame m, for a window that starts at w.
InBuffer(m, p, w) ==
  /\ out.last < m /\ m <= p /\ w < m + Half
  /\ lock = "none" => w < m
  /\ m \in got \/ m + WSize <= hi

\* An open window starts at w: past all that was passed up, at most a window
\* behind the newest frame, and behind it nothing is missing without a reason.
Window(p, w) ==
  /\ p >= 0
  /\ indicate_seq = SeqNum(w)
  /\ out.last < w /\ w <= p + 1 /\ p < w + WSize
  /\ Ascending(pending)
  /\ \A i \in 1 .. Len(pending) : InBuffer(pending[i], p, w)
  /\ \A m \in Frames : m < w => m \in got \/ m < floor \/ m + WSize <= hi

Session ==
  /\ out.ok
  /\ Places
  /\ \E p, w \in Int : /\ Traffic(p)
                       /\ Fresh => Opening(p)
                       /\ ~Fresh => Window(p, w)

\* The inductive invariant for InOrder and RefusedForAReason, beside IInv.
OInv == ~dirty => Session

LEMMA Numbers ==
  ASSUME TypeOK
  PROVE  /\ hi \in Int /\ tx \in Int /\ out.last \in Int /\ floor \in Int
         /\ rx.n \in Int /\ pending \in Seq(Int)
         /\ NoFrame = -1 /\ hi >= -1 /\ tx >= 0
         /\ \A m \in Frames : m \in Int /\ m >= 0
         /\ \A i \in 1 .. Len(pending) : pending[i] \in Frames
<1>1. NoFrame = -1 /\ \A m \in Frames : m \in Int /\ m >= 0
  BY RxReorderAssumption DEF RxReorderAssumption, Frames, NoFrame
<1>2. hi \in Frames \cup {NoFrame} /\ tx \in Frames /\ floor \in Frames
  BY DEF TypeOK
<1>3. out.last \in Frames \cup {NoFrame} /\ rx.n \in Frames \cup {NoFrame}
  BY DEF TypeOK
<1>4. pending \in Seq(Frames)
  BY DEF TypeOK
<1>5. Frames \subseteq Int
  BY <1>1
<1>6. \A i \in 1 .. Len(pending) : pending[i] \in Frames
  BY <1>4
<1>7. pending \in Seq(Int)
  BY <1>4, <1>5, SeqMonotonic
<1> QED
  BY <1>1, <1>2, <1>3, <1>6, <1>7

\* A step that leaves the window alone.
LEMMA SameSession ==
  ASSUME Session,
         UNCHANGED <<enable, indicate_seq, pending, lock, tx, hi, out, got, floor>>,
         rx' = rx \/ (rx.pc = "cancel" /\ rx' = Idle),
         th' = "loop" => th = "loop",
         fr' = "live" => fr = "live" /\ rxcache' = rxcache
  PROVE  Session'
<1>1. PICK p \in Int, w \in Int : /\ Traffic(p)
                                  /\ Fresh => Opening(p)
                                  /\ ~Fresh => Window(p, w)
  BY DEF Session
<1>2. /\ rx'.pc = rx.pc \/ (rx.pc = "cancel" /\ rx'.pc = "idle")
      /\ Holding' <=> Holding
      /\ Holding => rx' = rx
      /\ Fresh' <=> Fresh
  BY DEF Holding, Fresh, Idle
<1>3. out'.ok
  BY DEF Session
<1>4. Places'
  BY <1>2 DEF Session, Places
<1>5. Traffic(p)'
  BY <1>1, <1>2 DEF Traffic
<1>6. Fresh' => Opening(p)'
  BY <1>1, <1>2 DEF Opening
<1>7. ~Fresh' => Window(p, w)'
  BY <1>1, <1>2 DEF Window, InBuffer
<1> QED
  BY <1>3, <1>4, <1>5, <1>6, <1>7 DEF Session

\* A reset outside a session, or before the first frame.
LEMMA ResetSession ==
  ASSUME TypeOK, Session, rx.pc = "idle" \/ hi = NoFrame, enable => hi = NoFrame,
         Fresh', pending' \in {pending, << >>},
         UNCHANGED <<rx, th, tx, hi, out>>,
         hi # NoFrame => UNCHANGED <<lock, rxcache, fr>>
  PROVE  Session'
<1>1. PICK p \in Int, w \in Int : /\ Traffic(p)
                                  /\ Fresh => Opening(p)
                                  /\ ~Fresh => Window(p, w)
  BY DEF Session
<1>2. rx.pc = "idle" /\ ~Holding /\ ~Holding'
  BY DEF Session, Places, Holding
<1>3. Fresh
  <2>1. hi = NoFrame => ~Window(p, w)
    BY <1>1, Numbers DEF Traffic, Window
  <2> QED
    BY <1>1, <2>1 DEF Fresh
<1>4. out'.ok
  BY DEF Session
<1>5. Places'
  BY <1>2 DEF Session, Places
<1>6. Traffic(p)'
  BY <1>1, <1>2 DEF Traffic
<1>7. Opening(p)'
  BY <1>1, <1>2, <1>3 DEF Opening
<1> QED
  BY <1>4, <1>5, <1>6, <1>7 DEF Session

\* The lock is dropped when no frame is due any more.
LEMMA HeadNotDue ==
  ASSUME TypeOK, NEW p \in Int, NEW w \in Int, Window(p, w), ~HeadIsDue,
         NEW i \in 1 .. Len(pending)
  PROVE  w < pending[i]
<1>1. pending # << >> /\ 1 \in 1 .. Len(pending) /\ Head(pending) = pending[1]
  BY Numbers
<1>2. pending[1] \in Int /\ pending[i] \in Int
  BY <1>1, Numbers
<1>3. SN_LESS(indicate_seq, SeqNum(pending[1]))
  BY <1>1 DEF HeadIsDue
<1>4. pending[1] <= p /\ w < pending[1] + Half /\ p < w + WSize /\ indicate_seq = SeqNum(w)
  BY <1>1 DEF Window, InBuffer
<1>5. -Half <= w - pending[1] /\ w - pending[1] < Half
  BY <1>2, <1>4, SpaceFacts
<1>6. w < pending[1]
  BY <1>2, <1>3, <1>4, <1>5, SeqOrder
<1>7. 1 < i => pending[1] < pending[i]
  BY <1>1 DEF Window, Ascending
<1> QED
  BY <1>2, <1>6, <1>7

LEMMA UnlockSession ==
  ASSUME TypeOK, Session, ~HeadIsDue, lock' = "none",
         UNCHANGED <<enable, indicate_seq, pending, fr, rxcache, tx, hi, out, got, floor>>,
         \/ rx.pc = "loop" /\ rx'.pc \in {"idle", "cancel"} /\ th' = th
         \/ th = "loop" /\ th' = "idle" /\ rx' = rx
  PROVE  Session'
<1>1. PICK p \in Int, w \in Int : /\ Traffic(p)
                                  /\ Fresh => Opening(p)
                                  /\ ~Fresh => Window(p, w)
  BY DEF Session
<1>2. /\ Holding' <=> Holding
      /\ Holding => rx' = rx
      /\ Fresh' <=> Fresh
      /\ rx'.pc = rx.pc \/ rx'.pc \in {"idle", "cancel"}
  BY DEF Holding, Fresh
<1>3. out'.ok
  BY DEF Session
<1>4. Places'
  BY <1>2 DEF Session, Places
<1>5. Traffic(p)'
  BY <1>1, <1>2 DEF Traffic
<1>6. Fresh' => Opening(p)'
  BY <1>1, <1>2 DEF Opening
<1>7. ASSUME ~Fresh PROVE Window(p, w)'
  <2>1. \A i \in 1 .. Len(pending) : w < pending[i]
    BY <1>1, <1>7, HeadNotDue
  <2>2. \A i \in 1 .. Len(pending) : InBuffer(pending[i], p, w)'
    BY <1>1, <1>7, <2>1 DEF Window, InBuffer
  <2> QED
    BY <1>1, <1>7, <2>2 DEF Window
<1> QED
  BY <1>2, <1>3, <1>4, <1>5, <1>6, <1>7 DEF Session

\* The frame in hand is less than half of the space away from the window
\* start and from every buffered frame.
LEMMA FrameInHand ==
  ASSUME TypeOK, NEW p \in Int, NEW w \in Int, Traffic(p), Window(p, w), Holding
  PROVE  /\ -Half <= rx.n - w /\ rx.n - w < Half
         /\ rx.n > p => hi = rx.n
         /\ rx.n <= p => hi = p
         /\ rx.n + WSize > hi
         /\ lock = "none" =>
              \A i \in 1 .. Len(pending) : -Half <= pending[i] - rx.n /\ pending[i] - rx.n < Half
<1>1. /\ rx.n + WSize > hi /\ hi = Larger(p, rx.n) /\ rx.n <= p + Half - WSize
      /\ w <= p + 1 /\ p < w + WSize
  BY Numbers DEF Traffic, Window
<1>2. (rx.n > p => hi = rx.n) /\ (rx.n <= p => hi = p)
  BY <1>1, Numbers DEF Larger
<1>3. -Half <= rx.n - w /\ rx.n - w < Half
  <2>1. /\ rx.n \in Int /\ hi \in Int /\ Half \in Int /\ WSize \in Int
        /\ 0 < WSize /\ 2 * WSize <= Half + 1
    BY Numbers, SpaceFacts
  <2>2. rx.n - w < Half
    BY <1>1, <2>1
  <2>3. p <= hi
    BY <1>1, <1>2, <2>1
  <2>4. -Half <= rx.n - w
    BY <1>1, <2>1, <2>3
  <2> QED
    BY <2>2, <2>4
<1>4. ASSUME lock = "none", NEW i \in 1 .. Len(pending)
      PROVE  -Half <= pending[i] - rx.n /\ pending[i] - rx.n < Half
  <2>1. w < pending[i] /\ pending[i] <= p /\ pending[i] \in Int
    BY <1>4, Numbers DEF Window, InBuffer
  <2>2. hi \in Int /\ rx.n \in Int
    BY Numbers
  <2>3. p + 2 - WSize <= pending[i] /\ p <= hi
    BY <1>1, <1>2, <2>1, <2>2, SpaceFacts
  <2> QED
    BY <1>1, <2>1, <2>2, <2>3, SpaceFacts
<1> QED
  BY <1>1, <1>2, <1>3, <1>4

LEMMA ReceiveSession ==
  ASSUME TypeOK, ~dirty, Session, NEW n \in Frames, Receive(n)
  PROVE  Session'
<1>1. PICK p \in Int, w \in Int : /\ Traffic(p)
                                  /\ Fresh => Opening(p)
                                  /\ ~Fresh => Window(p, w)
  BY DEF Session
<1>2. /\ rx.pc = "idle" /\ ~Holding /\ Holding' /\ rx'.pc = "got" /\ rx'.n = n
      /\ Fresh' <=> Fresh
      /\ UNCHANGED <<enable, indicate_seq, pending, lock, th, fr, tx, out, got, floor>>
  BY DEF Receive, Holding, Fresh, Ctrl, Past
<1>3. n \in Int /\ n >= 0 /\ p = hi /\ hi < tx + WSize /\ (hi # NoFrame => tx <= hi + MaxLost)
  BY <1>1, <1>2, Numbers DEF Traffic
<1>4. n >= tx /\ n < tx + WSize /\ (~enable => n = tx /\ n >= hi)
  BY Numbers, SpaceFacts DEF Receive, OnAir
<1>5. hi' = Larger(p, n) /\ hi' >= hi /\ hi' >= n /\ hi' \in Int
  BY <1>3, Numbers DEF Receive, Larger
<1>6. Fresh => p < n /\ hi' = n
  <2> SUFFICES ASSUME Fresh PROVE p < n
    BY <1>3, <1>5, Numbers DEF Larger
  <2>1. tx >= hi
    BY <1>1, <1>2 DEF Opening
  <2>2. hi # NoFrame => n # hi
    BY <1>1 DEF Opening, Receive
  <2> QED
    BY <1>3, <1>4, <2>1, <2>2, Numbers
<1>7. out'.ok
  BY <1>2 DEF Session
<1>8. Places'
  BY <1>2, <1>3, <1>5, Numbers DEF Session, Places
<1>9. Traffic(p)'
  <2>1. n + WSize > hi' /\ (p # NoFrame => n <= p + Half - WSize)
    BY <1>3, <1>4, <1>5, Numbers, SpaceFacts DEF Larger
  <2>2. hi' < tx + WSize /\ tx <= hi' + MaxLost
    BY <1>3, <1>4, <1>5, Numbers, SpaceFacts DEF Larger
  <2>3. p <= hi' /\ out.last <= p
    BY <1>1, <1>3, <1>5 DEF Traffic
  <2> QED
    BY <1>2, <1>5, <2>1, <2>2, <2>3 DEF Traffic
<1>10. ASSUME Fresh PROVE Opening(p)'
  <2>1. pending' = << >> /\ rx'.pc # "loop" /\ p < rx'.n
    BY <1>1, <1>2, <1>6, <1>10 DEF Opening
  <2>2. ~enable => tx >= hi'
    BY <1>4, <1>6, <1>10, Numbers
  <2>3. rxcache' = SeqNum(hi')
    BY <1>6, <1>10 DEF Receive
  <2> QED
    BY <1>2, <2>1, <2>2, <2>3 DEF Opening
<1>11. ASSUME ~Fresh PROVE Window(p, w)'
  <2>1. \A i \in 1 .. Len(pending) : InBuffer(pending[i], p, w)'
    BY <1>1, <1>2, <1>5, <1>11, Numbers, SpaceFacts, SMTT(60) DEF Window, InBuffer
  <2>2. \A m \in Frames : m < w => m \in got \/ m < floor \/ m + WSize <= hi'
    BY <1>1, <1>5, <1>11, Numbers, SpaceFacts DEF Window
  <2> QED
    BY <1>1, <1>2, <1>11, <2>1, <2>2 DEF Window
<1> QED
  BY <1>2, <1>7, <1>8, <1>9, <1>10, <1>11 DEF Session

LEMMA AdvanceSession ==
  ASSUME TypeOK, Session, OriginatorAdvance
  PROVE  Session'
<1>1. PICK p \in Int, w \in Int : /\ Traffic(p)
                                  /\ Fresh => Opening(p)
                                  /\ ~Fresh => Window(p, w)
  BY DEF Session
<1>2. /\ Holding' <=> Holding
      /\ Fresh' <=> Fresh
      /\ UNCHANGED <<enable, indicate_seq, pending, lock, rxcache, rx, th, fr, hi, out, got, floor>>
      /\ tx' = tx + 1 /\ tx < hi + MaxLost
  BY DEF OriginatorAdvance, Holding, Fresh, Ctrl, Past
<1>3. MaxLost \in Int
  BY SpaceFacts
<1>4. out'.ok /\ Places'
  BY <1>2 DEF Session, Places
<1>5. Traffic(p)'
  BY <1>1, <1>2, <1>3, Numbers, SpaceFacts, SMTT(60) DEF Traffic
<1>6. Fresh => Opening(p)'
  BY <1>1, <1>2, Numbers DEF Opening
<1>7. ~Fresh => Window(p, w)'
  BY <1>1, <1>2 DEF Window, InBuffer
<1> QED
  BY <1>2, <1>4, <1>5, <1>6, <1>7 DEF Session

LEMMA DirectSession ==
  ASSUME TypeOK, Session, RxDirect
  PROVE  Session'
<1>1. PICK p \in Int, w \in Int : /\ Traffic(p)
                                  /\ Fresh => Opening(p)
                                  /\ ~Fresh => Window(p, w)
  BY DEF Session
<1>2. /\ Holding /\ ~Holding' /\ Fresh /\ Fresh' /\ rx'.pc = "direct" /\ ~enable /\ ~enable'
      /\ UNCHANGED <<pending, lock, rxcache, th, fr, tx, hi>>
  BY DEF RxDirect, Holding, Fresh, Peer, TypeOK
<1>3. p < rx.n /\ hi = rx.n /\ out.last < rx.n
  BY <1>1, <1>2, Numbers DEF Opening, Traffic, Larger
<1>4. out' = [last |-> rx.n, ok |-> out.ok /\ rx.n > out.last]
  BY DEF RxDirect, Deliver
<1>5. rx.n > out.last
  BY <1>3, Numbers
<1>6. out'.ok
  BY <1>4, <1>5, Zenon DEF Session
<1>7. out'.last = hi'
  BY <1>2, <1>3, <1>4, Zenon
<1>8. Places'
  BY <1>2, <1>3 DEF Session, Places, RxDirect
<1>9. Traffic(hi)'
  BY <1>1, <1>2, <1>7, Numbers DEF Traffic
<1>10. Opening(hi)'
  BY <1>1, <1>2 DEF Opening
<1>11. hi' \in Int
  BY <1>2, Numbers
<1> QED
  BY <1>2, <1>6, <1>8, <1>9, <1>10, <1>11 DEF Session

LEMMA DirectDoneSession ==
  ASSUME TypeOK, Session, RxDirectDone
  PROVE  Session'
<1>1. PICK p \in Int, w \in Int : /\ Traffic(p)
                                  /\ Fresh => Opening(p)
                                  /\ ~Fresh => Window(p, w)
  BY DEF Session
<1>2. /\ ~Holding /\ ~Holding' /\ Fresh /\ Fresh' /\ rx'.pc = "idle"
      /\ UNCHANGED <<enable, pending, lock, rxcache, th, fr, tx, hi, out>>
  BY DEF RxDirectDone, Holding, Fresh, Peer, Past, Session, Places, Idle
<1>3. out'.ok /\ Places'
  BY <1>2 DEF Session, Places
<1>4. Traffic(p)'
  BY <1>1, <1>2 DEF Traffic
<1>5. Opening(p)'
  BY <1>1, <1>2 DEF Opening
<1> QED
  BY <1>2, <1>3, <1>4, <1>5 DEF Session

LEMMA EnabledSession ==
  ASSUME TypeOK, Session, RxEnabled
  PROVE  Session'
<1>1. PICK p \in Int, w \in Int : /\ Traffic(p)
                                  /\ Fresh => Opening(p)
                                  /\ ~Fresh => Window(p, w)
  BY DEF Session
<1>2. /\ Holding /\ Holding' /\ (Fresh' <=> Fresh) /\ rx.pc = "got" /\ rx'.pc = "lock" /\ rx'.n = rx.n
      /\ UNCHANGED <<enable, indicate_seq, pending, lock, rxcache, th, fr, tx, hi, out, got, floor>>
  BY DEF RxEnabled, Holding, Fresh, Peer, Past, Ctrl, TypeOK
<1>3. out'.ok /\ Places'
  BY <1>2 DEF Session, Places, RxEnabled
<1>4. Traffic(p)'
  BY <1>1, <1>2 DEF Traffic
<1>5. Fresh => Opening(p)'
  BY <1>1, <1>2 DEF Opening
<1>6. ~Fresh => Window(p, w)'
  BY <1>1, <1>2 DEF Window, InBuffer
<1> QED
  BY <1>2, <1>3, <1>4, <1>5, <1>6 DEF Session

\* A frame that is refused is not newer than the newest one, and its refusal
\* moves no window start.
LEMMA Refusal ==
  ASSUME TypeOK, rx.pc = "lock", lock = "none", enable,
         NEW p \in Int, NEW w \in Int, Traffic(p), Fresh => Opening(p), ~Fresh => Window(p, w),
         \/ ~CheckIndicateSeq(indicate_seq, SeqNum(rx.n)).ok
         \/ IsDuplicate(rx.n)
  PROVE  /\ ~Fresh /\ rx.n <= p
         /\ CheckIndicateSeq(indicate_seq, SeqNum(rx.n)).ind = indicate_seq
         /\ rx.n < w \/ \E i \in 1 .. Len(pending) : pending[i] = rx.n
<1>1. Holding
  BY DEF Holding
<1>2. ~Fresh
  <2> SUFFICES ASSUME Fresh PROVE FALSE
    OBVIOUS
  <2>1. pending = << >> /\ indicate_seq = UNSET
    BY DEF Opening, Fresh
  <2>2. ~IsDuplicate(rx.n)
    BY <2>1 DEF IsDuplicate
  <2>3. CheckIndicateSeq(indicate_seq, SeqNum(rx.n)).ok
    BY <2>1, CheckOpening, Numbers
  <2> QED
    BY <2>2, <2>3
<1>3. /\ -Half <= rx.n - w /\ rx.n - w < Half /\ indicate_seq = SeqNum(w)
      /\ \A i \in 1 .. Len(pending) : -Half <= pending[i] - rx.n /\ pending[i] - rx.n < Half
      /\ w <= p + 1 /\ p < w + WSize
  BY <1>1, <1>2, FrameInHand DEF Window
<1>4. /\ CheckIndicateSeq(indicate_seq, SeqNum(rx.n)).ok <=> w <= rx.n
      /\ CheckIndicateSeq(indicate_seq, SeqNum(rx.n)).ind = SeqNum(NextStart(w, rx.n))
  BY <1>3, CheckWindow, Numbers
<1>5. CASE rx.n < w
  <2>1. NextStart(w, rx.n) = w /\ rx.n <= p
    BY <1>3, <1>5, Numbers DEF NextStart
  <2> QED
    BY <1>2, <1>3, <1>4, <1>5, <2>1
<1>6. CASE w <= rx.n
  <2>1. IsDuplicate(rx.n)
    BY <1>4, <1>6
  <2>2. PICK i \in 1 .. Len(pending) : pending[i] = rx.n
    BY <1>3, <2>1, DuplicateIsBuffered, Numbers
  <2>3. w < rx.n /\ rx.n <= p
    BY <1>2, <2>2 DEF Window, InBuffer
  <2>4. NextStart(w, rx.n) = w
    BY <1>3, <2>3, Numbers, SpaceFacts DEF NextStart
  <2> QED
    BY <1>2, <1>3, <1>4, <2>2, <2>3, <2>4
<1> QED
  BY <1>5, <1>6, Numbers

LEMMA RefuseSession ==
  ASSUME TypeOK, Session, RxRefuse
  PROVE  Session'
<1>1. PICK p \in Int, w \in Int : /\ Traffic(p)
                                  /\ Fresh => Opening(p)
                                  /\ ~Fresh => Window(p, w)
  BY DEF Session
<1>2. /\ Holding /\ ~Holding' /\ rx.pc = "lock" /\ rx'.pc = "idle" /\ enable /\ lock = "none"
      /\ UNCHANGED <<enable, pending, lock, rxcache, th, fr, tx, hi, out, got, floor>>
      /\ \/ ~CheckIndicateSeq(indicate_seq, SeqNum(rx.n)).ok
         \/ IsDuplicate(rx.n)
      /\ indicate_seq' = CheckIndicateSeq(indicate_seq, SeqNum(rx.n)).ind
  BY DEF RxRefuse, Holding, Peer, Past, Idle, Session, Places
<1>3. ~Fresh /\ rx.n <= p /\ indicate_seq' = indicate_seq
  BY <1>1, <1>2, Refusal
<1>4. ~Fresh' /\ p = hi
  BY <1>1, <1>2, <1>3, FrameInHand DEF Fresh
<1>5. out'.ok /\ Places'
  BY <1>2 DEF Session, Places
<1>6. Traffic(p)'
  BY <1>1, <1>2, <1>4 DEF Traffic
<1>7. Window(p, w)'
  BY <1>1, <1>2, <1>3 DEF Window, InBuffer
<1> QED
  BY <1>4, <1>5, <1>6, <1>7 DEF Session

\* s2 and s3 of recv_indicatepkt_reorder: the accepted frame is put in its
\* place, and the window start moves past it, up to it, or not at all.
LEMMA QueueSession ==
  ASSUME TypeOK, RxHoldsFrame, Session, RxQueue
  PROVE  Session'
<1>0. PICK n \in Int : n = rx.n
  BY Numbers
<1>1. PICK p \in Int, w \in Int : /\ Traffic(p)
                                  /\ Fresh => Opening(p)
                                  /\ ~Fresh => Window(p, w)
  BY DEF Session
<1>2. /\ Holding /\ ~Holding' /\ rx.pc = "lock" /\ rx'.pc = "loop" /\ enable /\ lock = "none"
      /\ UNCHANGED <<enable, rxcache, th, fr, tx, hi, out>>
      /\ lock' = "rx" /\ n \in Frames
      /\ CheckIndicateSeq(indicate_seq, SeqNum(n)).ok
      /\ indicate_seq' = CheckIndicateSeq(indicate_seq, SeqNum(n)).ind
      /\ ~IsDuplicate(n) /\ Enqueue(n)
      /\ got' = {m \in got \cup {n} : m + WSize > hi}
      /\ floor' = IF indicate_seq = UNSET THEN Larger(floor, n) ELSE floor
  BY <1>0 DEF RxQueue, Holding, Peer, Session, Places, RxHoldsFrame, Accept
<1>3. out'.ok
  BY <1>2 DEF Session
<1>4. n \in Int /\ n >= 0 /\ n + WSize > hi /\ hi \in Int /\ hi = Larger(p, n)
  BY <1>0, <1>1, <1>2, Numbers DEF Traffic
<1>5. hi >= 0 /\ hi >= p /\ hi >= n
  BY <1>4 DEF Larger
<1>6. Places'
  BY <1>2, <1>5, Numbers DEF Session, Places
<1>7. Traffic(hi)'
  BY <1>1, <1>2, <1>5, Numbers DEF Traffic
<1>8. PICK v \in Int : /\ indicate_seq' = SeqNum(v)
                       /\ out.last < v /\ v <= hi + 1 /\ hi < v + WSize
                       /\ Ascending(pending')
                       /\ \A i \in 1 .. Len(pending') : InBuffer(pending[i], hi, v)'
                       /\ \A m \in Frames : m < v => m \in got' \/ m < floor' \/ m + WSize <= hi
  <2>1. CASE Fresh
    <3>1. pending = << >> /\ p < n /\ indicate_seq = UNSET
      BY <1>0, <1>1, <1>2, <2>1 DEF Opening, Fresh
    <3>2. hi = n /\ out.last < n
      BY <1>1, <1>4, <3>1, Numbers DEF Larger, Traffic
    <3>3. indicate_seq' = SeqNum(n + 1)
      BY <1>2, <1>4, <3>1, CheckOpening
    <3>4. Ascending(pending') /\ \A j \in 1 .. Len(pending') : pending'[j] = n
      <4>1. pending \in Seq(Int) /\ Ascending(pending) /\ Len(pending) = 0
        BY <3>1, Numbers DEF Ascending
      <4>2. \A i \in 1 .. Len(pending) : -Half <= pending[i] - n /\ pending[i] - n < Half
        BY <4>1
      <4>3. /\ Ascending(pending')
            /\ \A j \in 1 .. Len(pending') :
                 pending'[j] = n \/ \E i \in 1 .. Len(pending) : pending'[j] = pending[i]
        BY <1>2, <1>4, <4>1, <4>2, EnqueueInOrder
      <4> QED
        BY <4>1, <4>3
    <3>5. n \in got'
      BY <1>2, <1>4
    <3>6. \A i \in 1 .. Len(pending') : InBuffer(pending[i], hi, n + 1)'
      <4> SUFFICES ASSUME NEW i \in 1 .. Len(pending') PROVE InBuffer(pending[i], hi, n + 1)'
        OBVIOUS
      <4>1. pending'[i] = n
        BY <3>4
      <4>2. out'.last < n /\ n <= hi' /\ n + 1 < n + Half /\ lock' # "none"
        BY <1>2, <1>4, <3>2, SpaceFacts
      <4> QED
        BY <3>5, <4>1, <4>2 DEF InBuffer
    <3>7. \A m \in Frames : m < n + 1 => m \in got' \/ m < floor'
      <4>1. floor' >= n
        BY <1>2, <1>4, <3>1, Numbers DEF Larger
      <4>2. floor' \in Int
        BY <1>2, <1>4, <3>1, Numbers DEF Larger
      <4> QED
        BY <1>4, <3>5, <4>1, <4>2, Numbers
    <3>8. n + 1 \in Int /\ out.last < n + 1 /\ n + 1 <= hi + 1 /\ hi < (n + 1) + WSize
      BY <1>4, <3>2, Numbers, SpaceFacts
    <3> QED
      BY <3>3, <3>4, <3>6, <3>7, <3>8
  <2>2. CASE ~Fresh
    <3>0. PICK v \in Int : v = NextStart(w, n)
      <4>1. NextStart(w, n) \in {w, w + 1, n + 1 - WSize}
        BY DEF NextStart
      <4>2. w + 1 \in Int /\ n + 1 - WSize \in Int
        BY SpaceFacts
      <4> QED
        BY <4>1, <4>2
    <3>1. /\ -Half <= n - w /\ n - w < Half /\ indicate_seq = SeqNum(w)
          /\ \A i \in 1 .. Len(pending) : -Half <= pending[i] - n /\ pending[i] - n < Half
          /\ w <= p + 1 /\ p < w + WSize /\ out.last < w
          /\ (n > p => hi = n) /\ (n <= p => hi = p)
      BY <1>0, <1>1, <1>2, <2>2, FrameInHand DEF Window
    <3>2. w <= n /\ indicate_seq' = SeqNum(v)
      BY <1>2, <1>4, <3>0, <3>1, CheckWindow
    <3>3. /\ v \in Int /\ w <= v
          /\ v <= hi + 1 /\ hi < v + WSize /\ v <= n + 1
          /\ v = w \/ (v = w + 1 /\ n = w) \/ v = n + 1 - WSize
      <4>1. CASE n = w
        <5>1. v = w + 1
          BY <3>0, <4>1 DEF NextStart
        <5> QED
          BY <1>4, <1>5, <3>1, <4>1, <5>1, SpaceFacts
      <4>2. CASE n > w /\ w + WSize <= n
        <5>1. v = n + 1 - WSize
          BY <3>0, <4>2 DEF NextStart
        <5> QED
          BY <1>4, <1>5, <3>1, <4>2, <5>1, SpaceFacts
      <4>3. CASE n > w /\ n < w + WSize
        <5>1. v = w
          BY <3>0, <4>3, SpaceFacts DEF NextStart
        <5>2. hi < w + WSize /\ w <= hi + 1
          BY <1>4, <1>5, <3>1, <4>3, SpaceFacts
        <5> QED
          BY <1>4, <4>3, <5>1, <5>2
      <4> QED
        BY <3>2, <4>1, <4>2, <4>3, SpaceFacts
    <3>4. /\ pending \in Seq(Int) /\ Ascending(pending)
          /\ \A i \in 1 .. Len(pending) : InBuffer(pending[i], p, w)
      BY <1>1, <2>2, Numbers DEF Window
    <3>5. /\ Ascending(pending')
          /\ \A j \in 1 .. Len(pending') :
               pending'[j] = n \/ \E i \in 1 .. Len(pending) : pending'[j] = pending[i]
      BY <1>2, <1>4, <3>1, <3>4, EnqueueInOrder
    <3>6. n \in got'
      BY <1>2, <1>4
    <3>7. out.last < v /\ out.last < n /\ out.last \in Int
      BY <1>4, <3>1, <3>2, <3>3, Numbers
    <3>8. ASSUME NEW j \in 1 .. Len(pending')
          PROVE  InBuffer(pending[j], hi, v)'
      <4>1. CASE pending'[j] = n
        <5>1. out'.last < n /\ n <= hi' /\ v < n + Half /\ lock' # "none"
          BY <1>2, <1>4, <1>5, <3>3, <3>7, SpaceFacts
        <5> QED
          BY <3>6, <4>1, <5>1 DEF InBuffer
      <4>2. CASE pending'[j] # n
        <5>1. PICK i \in 1 .. Len(pending) : pending'[j] = pending[i]
          BY <3>5, <4>2
        <5>2. /\ pending[i] \in Int /\ out.last < pending[i] /\ pending[i] <= p /\ w < pending[i]
              /\ pending[i] \in got \/ pending[i] + WSize <= hi
          BY <1>2, <3>4 DEF InBuffer
        <5>3. n <= p + Half - WSize
          BY <1>0, <1>1, <1>2, <2>2, Numbers DEF Traffic, Window
        <5>4. v < pending[i] + Half
          BY <1>4, <3>1, <3>3, <5>2, <5>3, SpaceFacts
        <5>5. pending[i] \in got' \/ pending[i] + WSize <= hi
          BY <1>2, <1>4, <5>2, SpaceFacts
        <5> QED
          BY <1>2, <1>4, <1>5, <5>1, <5>2, <5>4, <5>5 DEF InBuffer
      <4> QED
        BY <4>1, <4>2
    <3>9. ASSUME NEW m \in Frames, m < v
          PROVE  m \in got' \/ m < floor' \/ m + WSize <= hi
      <4>1. m \in Int
        BY Numbers
      <4>2. CASE m < w
        <5>1. m \in got \/ m < floor \/ m + WSize <= hi
          BY <1>1, <2>2, <4>2 DEF Window
        <5>2. floor' = floor
          BY <1>2, <2>2 DEF Fresh
        <5> QED
          BY <1>2, <1>4, <4>1, <5>1, <5>2, SpaceFacts
      <4>3. CASE m >= w /\ v = w + 1 /\ n = w
        <5>1. m = n
          BY <1>4, <3>9, <4>1, <4>3
        <5> QED
          BY <3>6, <5>1
      <4>4. CASE v = n + 1 - WSize
        BY <1>4, <1>5, <3>9, <4>1, <4>4, SpaceFacts
      <4> QED
        BY <3>3, <3>9, <4>1, <4>2, <4>3, <4>4
    <3> QED
      BY <3>2, <3>3, <3>5, <3>7, <3>8, <3>9
  <2> QED
    BY <2>1, <2>2
<1>9. ~Fresh'
  BY <1>2, <1>8, SeqIsSet DEF Fresh
<1>10. Window(hi, v)'
  BY <1>2, <1>5, <1>8 DEF Window
<1>11. hi' \in Int /\ hi' = hi
  BY <1>2, <1>4
<1> QED
  BY <1>3, <1>6, <1>7, <1>9, <1>10, <1>11 DEF Session

\* A turn of recv_indicatepkts_in_order, by the tasklet or by the timer.
LEMMA IndicateSession ==
  ASSUME TypeOK, Session, IndicateHead, lock # "none",
         UNCHANGED <<enable, lock, rxcache, rx, th, fr, tx, hi, got, floor>>
  PROVE  Session'
<1>1. PICK p \in Int, w \in Int : /\ Traffic(p)
                                  /\ Fresh => Opening(p)
                                  /\ ~Fresh => Window(p, w)
  BY DEF Session
<1>0. pending # << >> /\ Head(pending) \in Int
  BY Numbers DEF IndicateHead, HeadIsDue
<1>h. PICK h \in Int : h = Head(pending)
  BY <1>0
<1>2. /\ ~SN_LESS(indicate_seq, SeqNum(h))
      /\ pending' = Tail(pending)
      /\ indicate_seq' = IF indicate_seq = SeqNum(h) THEN (indicate_seq + 1) % Modulus
                         ELSE indicate_seq
  BY <1>h DEF IndicateHead, HeadIsDue
<1>o. out' = out \/ out' = [last |-> h, ok |-> out.ok /\ h > out.last]
  BY <1>h DEF IndicateHead, Indicate, Deliver
<1>3. ~Fresh /\ Window(p, w)
  BY <1>0, <1>1 DEF Opening
<1>4. /\ 1 \in 1 .. Len(pending) /\ h = pending[1] /\ h \in Int /\ h \in Frames
      /\ Len(pending) \in Nat /\ Len(pending') = Len(pending) - 1
      /\ \A i \in 1 .. Len(pending') : i + 1 \in 1 .. Len(pending) /\ pending'[i] = pending[i + 1]
  BY <1>0, <1>h, <1>2, Numbers
<1>5. /\ indicate_seq = SeqNum(w) /\ out.last < w /\ w <= p + 1 /\ p < w + WSize /\ p >= 0
      /\ out.last < h /\ h <= p /\ w < h + Half /\ (h \in got \/ h + WSize <= hi)
  BY <1>3, <1>4 DEF Window, InBuffer
<1>6. out.last \in Int /\ hi \in Int
  BY Numbers
<1>7. -Half <= w - h /\ w - h < Half
  BY <1>4, <1>5, SpaceFacts
<1>8. h <= w /\ (SeqNum(w) = SeqNum(h) <=> w = h)
  BY <1>2, <1>4, <1>5, <1>7, SeqOrder
<1>v. PICK v \in Int : v = IF h = w THEN w + 1 ELSE w
  OBVIOUS
<1>9. indicate_seq' = SeqNum(v)
  <2>1. CASE h = w
    BY <1>2, <1>5, <1>v, <2>1, SeqShift
  <2>2. CASE h # w
    BY <1>2, <1>5, <1>8, <1>v, <2>2
  <2> QED
    BY <2>1, <2>2
<1>10. out'.ok
  <2>1. h > out.last
    BY <1>4, <1>5, <1>6
  <2>2. CASE out' = out
    BY <2>2 DEF Session
  <2>3. CASE out' = [last |-> h, ok |-> out.ok /\ h > out.last]
    BY <2>1, <2>3, Zenon DEF Session
  <2> QED
    BY <1>o, <2>2, <2>3
<1>11. out'.last = out.last \/ out'.last = h
  <2>1. CASE out' = out
    BY <2>1
  <2>2. CASE out' = [last |-> h, ok |-> out.ok /\ h > out.last]
    BY <2>2, Zenon
  <2> QED
    BY <1>o, <2>1, <2>2
<1>12. out'.last \in Int /\ out'.last <= h /\ out'.last < v /\ out'.last <= p
  BY <1>4, <1>5, <1>6, <1>8, <1>11, <1>v
<1>13. /\ Holding' <=> Holding
       /\ ~Fresh'
  BY <1>3, <1>9, SeqIsSet DEF Holding, Fresh
<1>14. Places'
  BY DEF Session, Places
<1>15. Traffic(p)'
  BY <1>1, <1>12, <1>13 DEF Traffic
<1>16. ASSUME NEW i \in 1 .. Len(pending')
       PROVE  InBuffer(pending[i], p, v)' /\ h < pending'[i] /\ pending'[i] \in Int
  <2>1. i + 1 \in 1 .. Len(pending) /\ pending'[i] = pending[i + 1] /\ 1 < i + 1
    BY <1>4
  <2>2. InBuffer(pending[i + 1], p, w) /\ pending[i + 1] \in Int
    BY <1>3, <2>1, Numbers DEF Window
  <2>3. h < pending[i + 1]
    BY <1>3, <1>4, <2>1 DEF Window, Ascending
  <2>4. out'.last < pending'[i] /\ v < pending'[i] + Half
    BY <1>4, <1>5, <1>6, <1>12, <1>v, <2>1, <2>2, <2>3, SpaceFacts, SMTT(60) DEF InBuffer
  <2> QED
    BY <2>1, <2>2, <2>3, <2>4 DEF InBuffer
<1>17. Ascending(pending')
  <2> SUFFICES ASSUME NEW i \in 1 .. Len(pending'), NEW j \in 1 .. Len(pending'), i < j
               PROVE  pending'[i] < pending'[j]
    BY DEF Ascending
  <2>1. /\ i + 1 \in 1 .. Len(pending) /\ j + 1 \in 1 .. Len(pending) /\ i + 1 < j + 1
        /\ pending'[i] = pending[i + 1] /\ pending'[j] = pending[j + 1]
    BY <1>4
  <2> QED
    BY <1>3, <2>1 DEF Window, Ascending
<1>18. ASSUME NEW m \in Frames, m < v
       PROVE  m \in got \/ m < floor \/ m + WSize <= hi
  <2>1. m < w \/ m = h
    BY <1>4, <1>18, <1>v, Numbers
  <2> QED
    BY <1>3, <1>5, <2>1 DEF Window
<1>19. v <= p + 1 /\ p < v + WSize
  BY <1>4, <1>5, <1>8, <1>v, SpaceFacts
<1>20. Window(p, v)'
  BY <1>5, <1>9, <1>12, <1>16, <1>17, <1>18, <1>19 DEF Window
<1> QED
  BY <1>9, <1>10, <1>13, <1>14, <1>15, <1>20 DEF Session

\* The forced pass of the timer opens the window anew at the head.
LEMMA TimerSession ==
  ASSUME TypeOK, Session, TimerLock
  PROVE  Session'
<1>1. PICK p \in Int, w \in Int : /\ Traffic(p)
                                  /\ Fresh => Opening(p)
                                  /\ ~Fresh => Window(p, w)
  BY DEF Session
<1>2. /\ lock = "none"
      /\ UNCHANGED <<enable, pending, rxcache, rx, fr, out, got, tx, hi>>
  BY DEF TimerLock, Peer
<1>3. CASE pending = << >>
  <2>1. UNCHANGED <<indicate_seq, lock, floor>> /\ th' = "idle"
    BY <1>3 DEF TimerLock
  <2> QED
    BY <1>2, <2>1, SameSession
<1>4. CASE pending # << >>
  <2>0. PICK h \in Int : h = Head(pending)
    BY <1>4, Numbers
  <2>1. indicate_seq' = SeqNum(h) /\ floor' = Larger(floor, h) /\ lock' = "timer" /\ th' = "loop"
    BY <1>4, <2>0 DEF TimerLock
  <2>2. ~Fresh /\ Window(p, w)
    BY <1>1, <1>4 DEF Opening
  <2>3. 1 \in 1 .. Len(pending) /\ h = pending[1] /\ h \in Int /\ h \in Frames
    BY <1>4, <2>0, Numbers
  <2>4. out.last < h /\ h <= p /\ w < h /\ out.last < w /\ p < w + WSize /\ p >= 0
    BY <1>2, <2>2, <2>3 DEF Window, InBuffer
  <2>5. p <= hi /\ hi \in Int /\ floor \in Int
    BY <1>1, Numbers DEF Traffic
  <2>6. hi # NoFrame /\ rx.pc # "loop"
    BY <1>2, <2>4, <2>5, Numbers DEF Session, Places
  <2>7. out'.ok /\ Places'
    BY <1>2, <2>1, <2>6 DEF Session, Places
  <2>8. Holding' <=> Holding
    BY <1>2 DEF Holding
  <2>9. Traffic(p)'
    BY <1>1, <1>2, <2>8 DEF Traffic
  <2>10. ~Fresh'
    BY <1>2, <2>1, <2>2, <2>3, SeqIsSet DEF Fresh
  <2>11. \A i \in 1 .. Len(pending) : InBuffer(pending[i], p, h)'
    <3> SUFFICES ASSUME NEW i \in 1 .. Len(pending) PROVE InBuffer(pending[i], p, h)'
      OBVIOUS
    <3>1. h <= pending[i] /\ pending[i] \in Int
      BY <2>2, <2>3, Numbers DEF Window, Ascending
    <3>2. InBuffer(pending[i], p, w)
      BY <2>2 DEF Window
    <3>3. h < pending[i] + Half
      BY <2>3, <3>1, SpaceFacts
    <3> QED
      BY <1>2, <2>1, <3>2, <3>3 DEF InBuffer
  <2>12. \A m \in Frames : m < h => m < floor'
    BY <2>1, <2>3, <2>5, Numbers DEF Larger
  <2>13. h <= p + 1 /\ p < h + WSize
    BY <2>3, <2>4, SpaceFacts
  <2>14. Window(p, h)'
    BY <1>2, <2>1, <2>2, <2>4, <2>11, <2>12, <2>13 DEF Window, Ascending
  <2> QED
    BY <2>3, <2>7, <2>9, <2>10, <2>14 DEF Session
<1> QED
  BY <1>3, <1>4

LEMMA DrainSession ==
  ASSUME TypeOK, Session, FreeDrain
  PROVE  Session'
<1>1. PICK p \in Int, w \in Int : /\ Traffic(p)
                                  /\ Fresh => Opening(p)
                                  /\ ~Fresh => Window(p, w)
  BY DEF Session
<1>2. /\ Holding' <=> Holding
      /\ Fresh' <=> Fresh
      /\ UNCHANGED <<enable, indicate_seq, lock, rxcache, rx, th, tx, hi, out, got, floor>>
      /\ pending' = << >> /\ fr' = "release"
  BY DEF FreeDrain, Holding, Fresh, Peer, Past
<1>3. out'.ok /\ Places'
  BY <1>2 DEF Session, Places
<1>4. Traffic(p)'
  BY <1>1, <1>2 DEF Traffic
<1>5. Fresh => Opening(p)'
  BY <1>1, <1>2 DEF Opening
<1>6. Ascending(pending') /\ Len(pending') = 0
  BY <1>2 DEF Ascending
<1>7. ~Fresh => Window(p, w)'
  BY <1>1, <1>2, <1>6 DEF Window
<1> QED
  BY <1>2, <1>3, <1>4, <1>5, <1>7 DEF Session

LEMMA InitOrder == Init => OInv
<1> SUFFICES ASSUME Init PROVE Session
  BY DEF OInv
<1>1. TypeOK
  BY InitIInv DEF IInv
<1>2. ~Holding /\ Fresh /\ pending = << >> /\ rx.pc = "idle" /\ out.last = NoFrame /\ hi = NoFrame
  BY DEF Init, Holding, Fresh, Idle
<1>3. out.ok
  BY Zenon DEF Init
<1>4. Places
  BY DEF Init, Places, Idle
<1>5. Traffic(hi)
  BY <1>1, <1>2, Numbers, SpaceFacts DEF Traffic
<1>6. Opening(hi)
  BY <1>1, <1>2, Numbers DEF Opening
<1>7. hi \in Int
  BY <1>1, Numbers
<1> QED
  BY <1>2, <1>3, <1>4, <1>5, <1>6, <1>7 DEF Session

LEMMA NextOrder == IInv /\ OInv /\ [Next]_vars => OInv'
<1> SUFFICES ASSUME IInv, OInv, [Next]_vars, ~dirty' PROVE Session'
  BY DEF OInv
<1>1. TypeOK /\ RxHoldsFrame
  BY DEF IInv
<1>2. CASE UNCHANGED vars
  BY <1>2, SameSession DEF vars, OInv
<1> SUFFICES ASSUME Next PROVE Session'
  BY <1>2
<1>3. ~dirty
  BY DEF Next, Tasklet, Handler, Station, OriginatorAdvance, Receive, AddBA, DelBA, RxDirect,
         RxDirectDone, RxEnabled, RxRefuse, RxQueue, RxIndicate, RxBuffered, RxEmptied,
         RxCancelTimer, TimerFires, TimerLock, TimerIndicate, TimerDone, SendDelBA, FreeUnhash,
         FreeCancelTimer, FreeDrain, FreeRelease, AllocStation, DriverStop, Peer
<1>4. Session
  BY <1>3 DEF OInv
<1>5. CASE OriginatorAdvance
  BY <1>1, <1>4, <1>5, AdvanceSession
<1>6. CASE \E n \in Frames : Receive(n)
  BY <1>1, <1>3, <1>4, <1>6, ReceiveSession
<1>7. ASSUME NEW accept \in BOOLEAN, AddBA(accept) PROVE Session'
  BY <1>1, <1>4, <1>7, ResetSession DEF AddBA, Fresh, Past
<1>8. CASE DelBA
  BY <1>1, <1>4, <1>8, ResetSession DEF DelBA, Fresh, Past
<1>9. CASE RxDirect
  BY <1>1, <1>4, <1>9, DirectSession
<1>10. CASE RxDirectDone
  BY <1>1, <1>4, <1>10, DirectDoneSession
<1>11. CASE RxEnabled
  BY <1>1, <1>4, <1>11, EnabledSession
<1>12. CASE RxRefuse
  BY <1>1, <1>4, <1>12, RefuseSession
<1>13. CASE RxQueue
  BY <1>1, <1>4, <1>13, QueueSession
<1>14. CASE RxIndicate
  BY <1>1, <1>4, <1>14, IndicateSession DEF RxIndicate, Session, Places, Peer
<1>15. CASE RxBuffered
  BY <1>1, <1>4, <1>15, UnlockSession DEF RxBuffered, Past, Peer, Idle
<1>16. CASE RxEmptied
  BY <1>1, <1>4, <1>16, UnlockSession DEF RxEmptied, HeadIsDue, Past, Peer, TypeOK
<1>17. CASE RxCancelTimer
  BY <1>4, <1>17, SameSession DEF RxCancelTimer, Past, Peer
<1>18. CASE TimerFires
  BY <1>4, <1>18, SameSession DEF TimerFires, Past, Peer
<1>19. CASE TimerLock
  BY <1>1, <1>4, <1>19, TimerSession
<1>20. CASE TimerIndicate
  BY <1>1, <1>4, <1>20, IndicateSession DEF TimerIndicate, Session, Places, Peer
<1>21. CASE TimerDone
  BY <1>1, <1>4, <1>21, UnlockSession DEF TimerDone, Past, Peer
<1>22. CASE SendDelBA
  <2>1. hi = NoFrame /\ enable /\ enable' = FALSE
    BY <1>22 DEF SendDelBA
  <2> QED
    BY <1>1, <1>4, <1>22, <2>1, ResetSession DEF SendDelBA, Fresh, Past
<1>23. CASE FreeUnhash
  BY <1>4, <1>23, SameSession DEF FreeUnhash, Ctrl, Past, Peer
<1>24. CASE FreeCancelTimer
  BY <1>4, <1>24, SameSession DEF FreeCancelTimer, Past, Peer
<1>25. CASE FreeDrain
  BY <1>1, <1>4, <1>25, DrainSession
<1>26. CASE FreeRelease
  BY <1>4, <1>26, SameSession DEF FreeRelease, Ctrl, Past, Peer
<1>27. CASE AllocStation
  <2>1. hi = NoFrame /\ enable' = FALSE
    BY <1>27 DEF AllocStation
  <2> QED
    BY <1>1, <1>4, <1>27, <2>1, ResetSession DEF AllocStation, Fresh, Past
<1>28. CASE DriverStop
  BY <1>4, <1>28, SameSession DEF DriverStop, Ctrl, Past, Peer
<1> QED
  BY <1>5, <1>6, <1>7, <1>8, <1>9, <1>10, <1>11, <1>12, <1>13, <1>14, <1>15, <1>16, <1>17,
     <1>18, <1>19, <1>20, <1>21, <1>22, <1>23, <1>24, <1>25, <1>26, <1>27, <1>28
     DEF Next, Tasklet, Handler, Station

\* A frame is refused only if it was accepted before or the window gave it up.
LEMMA RefusalHasReason ==
  ASSUME TypeOK, OInv
  PROVE  RefusedForAReason
<1> SUFFICES ASSUME rx.pc = "lock", lock = "none", ~dirty,
                    \/ ~CheckIndicateSeq(indicate_seq, SeqNum(rx.n)).ok
                    \/ IsDuplicate(rx.n)
             PROVE  rx.n \in got \/ rx.n + WSize <= hi \/ rx.n < floor
  BY DEF RefusedForAReason
<1>1. Session
  BY DEF OInv
<1>2. PICK p \in Int, w \in Int : /\ Traffic(p)
                                  /\ Fresh => Opening(p)
                                  /\ ~Fresh => Window(p, w)
  BY <1>1 DEF Session
<1>3. enable
  BY <1>1 DEF Session, Places
<1>4. ~Fresh /\ (rx.n < w \/ \E i \in 1 .. Len(pending) : pending[i] = rx.n) /\ rx.n <= p
  BY <1>2, <1>3, Refusal
<1>5. CASE \E i \in 1 .. Len(pending) : pending[i] = rx.n
  BY <1>2, <1>4, <1>5 DEF Window, InBuffer
<1>6. CASE rx.n < w
  <2>1. rx.n + WSize > hi
    BY <1>2 DEF Traffic, Holding
  <2>2. rx.n \in Frames \/ rx.n = NoFrame
    BY DEF TypeOK
  <2>3. rx.n = NoFrame => rx.n < floor
    BY Numbers DEF TypeOK
  <2> QED
    BY <1>2, <1>4, <1>6, <2>2, <2>3 DEF Window
<1> QED
  BY <1>4, <1>5, <1>6

LEMMA OrderInvariant == Spec => [](IInv /\ OInv)
<1>1. Init => IInv /\ OInv
  BY InitIInv, InitOrder
<1>2. (IInv /\ OInv) /\ [Next]_vars => (IInv /\ OInv)'
  BY NextIInv, NextOrder
<1> QED
  BY <1>1, <1>2, PTL DEF Spec

(***************************************************************************)
(* recv_indicatepkts_in_order keeps its name: in a session that was not    *)
(* reset in the middle, frames go up in the order of the originator's      *)
(* numbers and none twice, across any number of wraps of the 12-bit space, *)
(* timeouts, removals of the station and stops of the driver, for an       *)
(* originator that keeps to its window and loses at most MaxLost in a row. *)
(***************************************************************************)
THEOREM ReorderInOrder == Spec => []InOrder
<1>1. OInv => InOrder
  BY DEF OInv, Session, InOrder
<1> QED
  BY <1>1, OrderInvariant, PTL

(***************************************************************************)
(* check_indicate_seq and enqueue_reorder_recvframe refuse no frame that   *)
(* the window still promises, although they compare masked numbers only.   *)
(***************************************************************************)
THEOREM ReorderRefusedForAReason == Spec => []RefusedForAReason
<1>1. IInv /\ OInv => RefusedForAReason
  BY RefusalHasReason DEF IInv
<1> QED
  BY <1>1, OrderInvariant, PTL

=============================================================================
