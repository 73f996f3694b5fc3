--------------------------- MODULE ApSleepProofs ---------------------------
(***************************************************************************)
(* Proofs about ApSleep, for any number of stations, frames and received   *)
(* frames: a frame is held back only for a station that dozes, the         *)
(* counters of a sleep queue count its frames, and the beacon on air shows *)
(* the stations that frames are held for.                                  *)
(***************************************************************************)
EXTENDS ApSleep, FiniteSetTheorems, SequenceTheorems, TLAPS

-----------------------------------------------------------------------------
(* Lists: the positions of the frames of a set.                            *)

At(q, E) == {i \in DOMAIN q : q[i] \in E}

\* The positions of a list of any length are finitely many.
LEMMA AtFinite ==
  ASSUME NEW S, NEW q \in Seq(S), NEW I \in SUBSET (DOMAIN q)
  PROVE  IsFiniteSet(I) /\ Cardinality(I) \in Nat /\ I \subseteq Nat
<1>1. DOMAIN q = 1 .. Len(q) /\ Len(q) \in Nat
  BY LenProperties
<1>2. IsFiniteSet(1 .. Len(q))
  BY <1>1, FS_Interval
<1>3. IsFiniteSet(I)
  BY <1>1, <1>2, FS_Subset
<1> QED
  BY <1>1, <1>3, FS_CardinalityType

\* Nth finds the k-th position: ranks are an injection, hence a bijection.
LEMMA NthPosition ==
  ASSUME NEW I \in SUBSET Nat, IsFiniteSet(I), NEW k \in 1 .. Cardinality(I)
  PROVE  Nth(I, k) \in I
<1> DEFINE Below(i) == {j \in I : j <= i}
           rank == [i \in I |-> Cardinality(Below(i))]
<1>1. Cardinality(I) \in Nat
  BY FS_CardinalityType
<1>2. \A i \in I : IsFiniteSet(Below(i)) /\ Cardinality(Below(i)) \in 1 .. Cardinality(I)
  <2>1. TAKE i \in I
  <2>2. IsFiniteSet(Below(i)) /\ Cardinality(Below(i)) <= Cardinality(I)
    BY FS_Subset
  <2>3. Cardinality(Below(i)) \in Nat
    BY <2>2, FS_CardinalityType
  <2>4. i \in Below(i)
    OBVIOUS
  <2>5. Cardinality(Below(i)) # 0
    BY <2>2, <2>4, FS_EmptySet
  <2> QED
    BY <1>1, <2>2, <2>3, <2>5
<1>3. \A i, j \in I : i < j => Cardinality(Below(i)) # Cardinality(Below(j))
  <2>1. SUFFICES ASSUME NEW i \in I, NEW j \in I, i < j,
                        Cardinality(Below(i)) = Cardinality(Below(j))
                 PROVE  FALSE
    OBVIOUS
  <2>2. Below(i) \in SUBSET Below(j)
    <3>1. \A x \in I : x \in Nat
      OBVIOUS
    <3>2. \A x \in I : x <= i => x <= j
      BY <2>1, <3>1
    <3> QED
      BY <3>2
  <2>3. Below(i) = Below(j)
    BY <1>2, <2>1, <2>2, FS_Subset
  <2> QED
    BY <2>1, <2>3
<1>4. rank \in Injection(I, 1 .. Cardinality(I))
  <2>1. rank \in [I -> 1 .. Cardinality(I)]
    BY <1>2
  <2>2. \A i, j \in I : rank[i] = rank[j] => i = j
    BY <1>3
  <2> HIDE DEF rank
  <2> QED
    BY <2>1, <2>2 DEF Injection, IsInjective
<1>5. IsFiniteSet(1 .. Cardinality(I)) /\ Cardinality(1 .. Cardinality(I)) = Cardinality(I)
  BY <1>1, FS_Interval
<1>6. rank \in Surjection(I, 1 .. Cardinality(I))
  BY <1>4, <1>5, FS_Injection
<1>7. PICK i \in I : rank[i] = k
  BY <1>6 DEF Surjection
<1>8. Cardinality({j \in I : j <= i}) = k
  BY <1>7
<1> QED
  BY <1>8 DEF Nth

\* What is picked from a list is a list of as many of its frames.
LEMMA PickProperties ==
  ASSUME NEW S, NEW q \in Seq(S), NEW I \in SUBSET (DOMAIN q)
  PROVE  Pick(q, I) \in Seq(S) /\ Len(Pick(q, I)) = Cardinality(I)
<1>1. IsFiniteSet(I) /\ Cardinality(I) \in Nat /\ I \in SUBSET Nat
  BY AtFinite
<1>2. DOMAIN q = 1 .. Len(q) /\ q \in [1 .. Len(q) -> S]
  BY LenProperties
<1>3. \A k \in 1 .. Cardinality(I) : q[Nth(I, k)] \in S
  BY <1>1, <1>2, NthPosition
<1> DEFINE n == Cardinality(I)  p == [k \in 1 .. n |-> q[Nth(I, k)]]
<1>4. p \in [1 .. n -> S]
  BY <1>3
<1>5. Pick(q, I) = p
  BY DEF Pick
<1> HIDE DEF p, n
<1>6. n \in Nat
  BY <1>1 DEF n
<1>7. p \in Seq(S) /\ Len(p) = n
  BY <1>4, <1>6
<1> QED
  BY <1>5, <1>7 DEF n

\* What RemoveAt leaves, position by position.
LEMMA RemoveAtProperties ==
  ASSUME NEW S, NEW q \in Seq(S), NEW i \in DOMAIN q
  PROVE  /\ RemoveAt(q, i) \in Seq(S)
         /\ Len(RemoveAt(q, i)) = Len(q) - 1
         /\ \A j \in 1 .. Len(q) - 1 :
              RemoveAt(q, i)[j] = IF j < i THEN q[j] ELSE q[j + 1]
<1> DEFINE l == SubSeq(q, 1, i - 1)  r == SubSeq(q, i + 1, Len(q))
<1>1. Len(q) \in Nat /\ i \in 1 .. Len(q) /\ \A j \in 1 .. Len(q) : q[j] \in S
  BY LenProperties, ElementOfSeq
<1>2. /\ l \in Seq(S) /\ Len(l) = i - 1
      /\ \A j \in 1 .. i - 1 : l[j] = q[j]
  <2>1. \A j \in 1 .. i - 1 : q[j] \in S
    BY <1>1
  <2>2. i - 1 \in Int /\ 1 \in Int
    BY <1>1
  <2>3. /\ l \in Seq(S)
        /\ Len(l) = IF 1 <= i - 1 THEN (i - 1) - 1 + 1 ELSE 0
        /\ \A j \in 1 .. (i - 1) - 1 + 1 : l[j] = q[1 + j - 1]
    BY <2>1, <2>2, SubSeqProperties
  <2> HIDE DEF l
  <2> QED
    BY <1>1, <2>3
<1>3. /\ r \in Seq(S) /\ Len(r) = Len(q) - i
      /\ \A j \in 1 .. Len(q) - i : r[j] = q[i + j]
  <2>1. \A j \in i + 1 .. Len(q) : q[j] \in S
    BY <1>1
  <2>2. i + 1 \in Int /\ Len(q) \in Int
    BY <1>1
  <2>3. /\ r \in Seq(S)
        /\ Len(r) = IF i + 1 <= Len(q) THEN Len(q) - (i + 1) + 1 ELSE 0
        /\ \A j \in 1 .. Len(q) - (i + 1) + 1 : r[j] = q[(i + 1) + j - 1]
    BY <2>1, <2>2, SubSeqProperties
  <2> HIDE DEF r
  <2> QED
    BY <1>1, <2>3
<1>4. RemoveAt(q, i) = l \o r
  BY DEF RemoveAt
<1> HIDE DEF l, r
<1>5. /\ l \o r \in Seq(S)
      /\ Len(l \o r) = Len(l) + Len(r)
      /\ \A j \in 1 .. Len(l) + Len(r) :
           (l \o r)[j] = IF j <= Len(l) THEN l[j] ELSE r[j - Len(l)]
  BY <1>2, <1>3, ConcatProperties
<1> DEFINE c == l \o r
<1> HIDE DEF c
<1>6. /\ c \in Seq(S) /\ Len(c) = Len(q) - 1
      /\ \A j \in 1 .. Len(q) - 1 : c[j] = IF j <= i - 1 THEN l[j] ELSE r[j - (i - 1)]
  <2>1. Len(l) + Len(r) = Len(q) - 1 /\ Len(l) = i - 1
    BY <1>1, <1>2, <1>3
  <2>2. /\ c \in Seq(S) /\ Len(c) = Len(l) + Len(r)
        /\ \A j \in 1 .. Len(l) + Len(r) :
             c[j] = IF j <= Len(l) THEN l[j] ELSE r[j - Len(l)]
    BY ONLY <1>5 DEF c
  <2> QED
    BY ONLY <2>1, <2>2
<1>7. ASSUME NEW j \in 1 .. Len(q) - 1
      PROVE  c[j] = IF j < i THEN q[j] ELSE q[j + 1]
  <2>1. CASE j < i
    <3>1. j \in 1 .. i - 1 /\ j <= i - 1
      BY <1>1, <2>1
    <3>2. c[j] = l[j] /\ l[j] = q[j]
      BY <1>2, <1>6, <3>1
    <3> QED
      BY <2>1, <3>2
  <2>2. CASE j >= i
    <3>1. j - (i - 1) \in 1 .. Len(q) - i /\ i + (j - (i - 1)) = j + 1
      BY <1>1, <2>2
    <3>2. r[j - (i - 1)] = q[j + 1]
      BY <1>3, <3>1
    <3> QED
      BY <1>1, <1>6, <2>2, <3>2
  <2> QED
    BY <1>1, <2>1, <2>2
<1> QED
  BY <1>4, <1>6, <1>7 DEF c

\* A frame added to a list counts once, where it is of the set.
LEMMA CountAppend ==
  ASSUME NEW S, NEW E, NEW q \in Seq(S), NEW f \in S
  PROVE  Cardinality(At(Append(q, f), E)) = Cardinality(At(q, E)) + (IF f \in E THEN 1 ELSE 0)
<1> DEFINE p == Append(q, f)  n == Len(q)
<1>1. /\ p \in Seq(S) /\ Len(p) = n + 1 /\ p[n + 1] = f
      /\ \A i \in 1 .. n : p[i] = q[i]
  BY AppendProperties
<1>2. n \in Nat /\ DOMAIN q = 1 .. n
  BY LenProperties
<1> HIDE DEF p, n
<1>3. DOMAIN p = 1 .. n + 1
  BY <1>1, LenProperties
<1>4. At(p, E) = IF f \in E THEN At(q, E) \cup {n + 1} ELSE At(q, E)
  BY <1>1, <1>2, <1>3 DEF At
<1>5. IsFiniteSet(At(q, E)) /\ Cardinality(At(q, E)) \in Nat
  BY AtFinite DEF At
<1>6. n + 1 \notin At(q, E)
  BY <1>2 DEF At
<1>7. Cardinality(At(q, E) \cup {n + 1}) = Cardinality(At(q, E)) + 1
  BY <1>5, <1>6, FS_AddElement
<1>8. Cardinality(At(p, E)) = Cardinality(At(q, E)) + (IF f \in E THEN 1 ELSE 0)
  BY <1>4, <1>5, <1>7
<1> QED
  BY <1>8 DEF p

\* The counts of two lists add up.
LEMMA CountConcat ==
  ASSUME NEW S, NEW E, NEW q \in Seq(S), NEW r \in Seq(S)
  PROVE  Cardinality(At(q \o r, E)) = Cardinality(At(q, E)) + Cardinality(At(r, E))
<1> DEFINE p == q \o r  n == Len(q)  m == Len(r)
           late == {n + i : i \in At(r, E)}
           shift == [i \in At(r, E) |-> n + i]
<1>1. /\ p \in Seq(S) /\ Len(p) = n + m
      /\ \A i \in 1 .. n + m : p[i] = IF i <= n THEN q[i] ELSE r[i - n]
  BY ConcatProperties
<1>2. /\ n \in Nat /\ m \in Nat /\ DOMAIN q = 1 .. n /\ DOMAIN r = 1 .. m
  BY LenProperties
<1> HIDE DEF p, n, m
<1>3. DOMAIN p = 1 .. n + m
  BY <1>1, LenProperties
<1>4. At(q, E) \subseteq 1 .. n /\ At(r, E) \subseteq 1 .. m
  BY <1>2 DEF At
<1>5. At(p, E) = At(q, E) \cup late
  <2>1. ASSUME NEW i \in At(p, E) PROVE i \in At(q, E) \cup late
    <3>1. i \in 1 .. n + m /\ p[i] \in E
      BY <1>3 DEF At
    <3>2. CASE i <= n
      BY <1>1, <1>2, <3>1, <3>2 DEF At
    <3>3. CASE i > n
      <4>1. i - n \in 1 .. m /\ r[i - n] \in E
        BY <1>1, <1>2, <3>1, <3>3
      <4>2. i - n \in At(r, E) /\ i = n + (i - n)
        BY <1>2, <3>1, <4>1 DEF At
      <4> QED
        BY <4>2
    <3> QED
      BY <1>2, <3>1, <3>2, <3>3
  <2>2. ASSUME NEW i \in At(q, E) PROVE i \in At(p, E)
    BY <1>1, <1>2, <1>3 DEF At
  <2>3. ASSUME NEW i \in late PROVE i \in At(p, E)
    <3>1. PICK j \in At(r, E) : i = n + j
      OBVIOUS
    <3>2. j \in 1 .. m /\ r[j] \in E
      BY <1>2 DEF At
    <3>3. i \in 1 .. n + m /\ ~(i <= n) /\ i - n = j
      BY <1>2, <3>1, <3>2
    <3> QED
      BY <1>1, <1>3, <3>2, <3>3 DEF At
  <2> QED
    BY <2>1, <2>2, <2>3
<1>6. At(q, E) \cap late = {}
  BY <1>2, <1>4
<1>7. /\ IsFiniteSet(At(q, E)) /\ Cardinality(At(q, E)) \in Nat
      /\ IsFiniteSet(At(r, E)) /\ Cardinality(At(r, E)) \in Nat
  BY AtFinite DEF At
<1>8. IsFiniteSet(late) /\ Cardinality(late) = Cardinality(At(r, E))
  <2>1. \A i, j \in At(r, E) : n + i = n + j => i = j
    BY <1>2, <1>4
  <2>2. shift \in Bijection(At(r, E), late)
    BY <2>1 DEF Bijection, Injection, Surjection, IsInjective
  <2>3. ExistsBijection(At(r, E), late)
    BY <2>2 DEF ExistsBijection
  <2> QED
    BY <1>7, <2>3, FS_Bijection
<1> HIDE DEF late
<1>9. Cardinality(At(p, E)) =
        Cardinality(At(q, E)) + Cardinality(late) - Cardinality(At(q, E) \cap late)
  BY <1>5, <1>7, <1>8, FS_Union
<1>10. Cardinality(At(p, E)) = Cardinality(At(q, E)) + Cardinality(At(r, E))
  <2>1. Cardinality(At(q, E) \cap late) = 0
    BY <1>6, FS_EmptySet
  <2> QED
    BY <1>7, <1>8, <1>9, <2>1
<1> QED
  BY <1>10 DEF p

\* A frame removed from a list no longer counts, where it was of the set.
LEMMA CountRemove ==
  ASSUME NEW S, NEW E, NEW q \in Seq(S), NEW i \in DOMAIN q
  PROVE  Cardinality(At(RemoveAt(q, i), E)) =
           Cardinality(At(q, E)) - (IF q[i] \in E THEN 1 ELSE 0)
<1> DEFINE p == RemoveAt(q, i)  n == Len(q)
           rest == At(q, E) \ {i}
           shift == [j \in rest |-> IF j < i THEN j ELSE j - 1]
<1>1. /\ p \in Seq(S) /\ Len(p) = n - 1
      /\ \A j \in 1 .. n - 1 : p[j] = IF j < i THEN q[j] ELSE q[j + 1]
  BY RemoveAtProperties
<1>2. n \in Nat /\ DOMAIN q = 1 .. n /\ i \in 1 .. n
  BY LenProperties
<1> HIDE DEF p, n
<1>3. DOMAIN p = 1 .. n - 1
  BY <1>1, LenProperties
<1>4. rest \subseteq 1 .. n
  BY <1>2 DEF At
<1>5. /\ IsFiniteSet(At(q, E)) /\ Cardinality(At(q, E)) \in Nat
      /\ IsFiniteSet(rest)
      /\ Cardinality(rest) = Cardinality(At(q, E)) - (IF q[i] \in E THEN 1 ELSE 0)
  <2>1. IsFiniteSet(At(q, E)) /\ Cardinality(At(q, E)) \in Nat
    BY AtFinite DEF At
  <2>2. i \in At(q, E) <=> q[i] \in E
    BY DEF At
  <2> QED
    BY <2>1, <2>2, FS_RemoveElement
<1>6. \A j \in rest : shift[j] \in At(p, E)
  <2>1. SUFFICES ASSUME NEW j \in rest PROVE shift[j] \in At(p, E)
    OBVIOUS
  <2>2. j \in 1 .. n /\ j # i /\ q[j] \in E
    BY <1>2 DEF At
  <2>3. CASE j < i
    <3>1. j \in 1 .. n - 1 /\ p[j] = q[j]
      BY <1>1, <1>2, <2>2, <2>3
    <3> QED
      BY <1>3, <2>2, <2>3, <3>1 DEF At
  <2>4. CASE j > i
    <3>1. j - 1 \in 1 .. n - 1 /\ ~(j - 1 < i) /\ (j - 1) + 1 = j /\ ~(j < i)
      BY <1>2, <2>2, <2>4
    <3>2. p[j - 1] = q[j]
      BY <1>1, <3>1
    <3> QED
      BY <1>3, <2>2, <3>1, <3>2 DEF At
  <2> QED
    BY <1>2, <2>2, <2>3, <2>4
<1>7. \A j, k \in rest : shift[j] = shift[k] => j = k
  <2>1. \A j \in rest : j # i
    OBVIOUS
  <2> QED
    BY <1>2, <1>4, <2>1
<1>8. \A k \in At(p, E) : \E j \in rest : shift[j] = k
  <2>1. SUFFICES ASSUME NEW k \in At(p, E) PROVE \E j \in rest : shift[j] = k
    OBVIOUS
  <2>2. k \in 1 .. n - 1 /\ p[k] \in E
    BY <1>3 DEF At
  <2>3. CASE k < i
    <3>1. k \in rest
      BY <1>1, <1>2, <2>2, <2>3 DEF At
    <3> QED
      BY <2>3, <3>1
  <2>4. CASE k >= i
    <3>1. k + 1 \in rest
      <4>1. k + 1 \in 1 .. n /\ k + 1 # i /\ ~(k < i)
        BY <1>2, <2>2, <2>4
      <4>2. q[k + 1] \in E
        BY <1>1, <2>2, <4>1
      <4> QED
        BY <1>2, <4>1, <4>2 DEF At
    <3>2. shift[k + 1] = k
      BY <1>2, <2>2, <2>4, <3>1
    <3> QED
      BY <3>1, <3>2
  <2> QED
    BY <1>2, <2>2, <2>3, <2>4
<1>9. shift \in Bijection(rest, At(p, E))
  <2>1. shift \in [rest -> At(p, E)]
    BY <1>6
  <2> HIDE DEF shift, rest
  <2> QED
    BY <1>7, <1>8, <2>1 DEF Bijection, Injection, Surjection, IsInjective
<1>10. Cardinality(At(p, E)) = Cardinality(rest)
  <2>1. ExistsBijection(rest, At(p, E))
    BY <1>9 DEF ExistsBijection
  <2> QED
    BY <1>5, <2>1, FS_Bijection
<1> QED
  BY <1>5, <1>10 DEF p

-----------------------------------------------------------------------------
(***************************************************************************)
(* The invariant.  A list holds frames for its own receiver; a sender has  *)
(* a frame of its class in hand; the loop of wakeup_sta_to_xmit keeps its  *)
(* next frame over the unlocked rtw_hal_xmit, and that frame is still on   *)
(* the list, because none but the receive tasklet takes frames from the    *)
(* list of a station; and sleepq_len counts the frames.                    *)
(***************************************************************************)
For(r) == [id : Nat, ra : {r}, ac : Class, trig : BOOLEAN, hiq : BOOLEAN]

Lists ==
  /\ uapsd \in [Sta -> Offers] /\ sleep \subseteq Sta
  /\ DOMAIN sleepq = Rcv /\ len \in [Rcv -> Int] /\ aclen \in [Rcv -> Int]
  /\ \A r \in Rcv : sleepq[r] \in Seq(For(r)) /\ len[r] = Len(sleepq[r])

Waiting ==
  /\ pend \in [Rcv -> [Class -> Seq(Frame)]]
  /\ \A r \in Rcv : \A a \in Class : pend[r][a] \in Seq(For(r))

Senders ==
  /\ tx \in [Class -> [pc : {"idle", "look", "hal"}, f : Frame \cup {NoFrame}]]
  /\ \A a \in Class : tx[a].pc # "idle" => tx[a].f \in Frame /\ tx[a].f.ac = a
  /\ frames \in Nat /\ mcasts \in Nat

Commands ==
  /\ cmd \in [pc : {"idle", "atim", "hal", "relock", "hiq"},
              f : Frame \cup {NoFrame}, next : Frame \cup {NoFrame}]
  /\ cmd.pc = "hal" => cmd.f \in Frame

Receiver ==
  /\ rx \in [pc : {"idle", "wake", "hal", "relock", "bmc", "mhal", "mrelock", "wmm",
                   "deliver"},
             s : Rcv, f : Frame \cup {NoFrame}, next : Frame \cup {NoFrame},
             upd : BOOLEAN, trig : BOOLEAN]
  /\ rx.pc # "idle" => rx.s \in Sta
  /\ rx.pc \in {"hal", "mhal"} => rx.f \in Frame

NextIsLinked ==
  rx.pc \in {"hal", "relock"} /\ rx.next # NoFrame => rx.next \in Linked(sleepq[rx.s])

\* An update of sta_dz_bitmap that is lost is the one way to hold a frame for
\* a station that does not count as dozing.
Asleep == Races \/ HeldOnlyAsleep

IInv ==
  /\ Lists /\ Waiting /\ Senders /\ Commands /\ Receiver /\ NextIsLinked
  /\ Asleep

LEMMA ForFrames ==
  /\ \A r \in Rcv : For(r) \subseteq Frame
  /\ \A f \in Frame : f.ra \in Rcv /\ f.ac \in Class /\ f \in For(f.ra)
BY DEF For, Frame

LEMMA FramesOfLists ==
  ASSUME Lists, NEW r \in Rcv
  PROVE  /\ sleepq[r] \in Seq(For(r)) /\ sleepq[r] \in Seq(Frame)
         /\ Len(sleepq[r]) \in Nat /\ DOMAIN sleepq[r] = 1 .. Len(sleepq[r])
         /\ \A i \in DOMAIN sleepq[r] : sleepq[r][i] \in For(r)
<1>1. sleepq[r] \in Seq(For(r))
  BY DEF Lists
<1> QED
  BY <1>1, ForFrames, SeqMonotonic, LenProperties, ElementOfSeq

LEMMA InitIInv == Init => IInv
<1> SUFFICES ASSUME Init PROVE IInv
  OBVIOUS
<1>1. Lists
  BY ApSleepAssumption DEF Init, Lists, Rcv
<1>2. Waiting
  BY DEF Init, Waiting
<1>3. Senders
  BY DEF Init, Senders, TxIdle
<1>4. Commands
  BY DEF Init, Commands, CmdIdle
<1>5. Receiver /\ NextIsLinked
  BY DEF Init, Receiver, NextIsLinked, RxIdle, Rcv
<1>6. Asleep
  BY DEF Init, Asleep, HeldOnlyAsleep, Rcv
<1> QED
  BY <1>1, <1>2, <1>3, <1>4, <1>5, <1>6 DEF IInv

-----------------------------------------------------------------------------
(* The frames that wait for the chip.                                      *)

LEMMA AppendWaiting ==
  ASSUME Waiting, NEW f \in Frame, Classify(f)
  PROVE  Waiting'
<1>1. f.ra \in Rcv /\ f.ac \in Class /\ f \in For(f.ra)
  BY ForFrames
<1>2. ASSUME NEW r \in Rcv, NEW a \in Class
      PROVE  pend'[r][a] \in Seq(For(r)) /\ pend'[r][a] \in Seq(Frame)
  <2>1. pend[r][a] \in Seq(For(r)) /\ pend[f.ra][f.ac] \in Seq(For(f.ra))
    BY <1>1, <1>2 DEF Waiting
  <2>2. Append(pend[f.ra][f.ac], f) \in Seq(For(f.ra))
    BY <1>1, <2>1, AppendProperties
  <2>3. pend'[r][a] = IF r = f.ra /\ a = f.ac THEN Append(pend[r][a], f) ELSE pend[r][a]
    BY <1>1, <1>2 DEF Classify, Waiting
  <2>4. pend'[r][a] \in Seq(For(r))
    BY <2>1, <2>2, <2>3
  <2> QED
    BY <2>4, <1>2, ForFrames, SeqMonotonic
<1>3. pend' \in [Rcv -> [Class -> Seq(Frame)]]
  <2>1. pend' = [pend EXCEPT ![f.ra][f.ac] = Append(@, f)]
    BY DEF Classify
  <2>2. pend[f.ra][f.ac] \in Seq(Frame) /\ pend \in [Rcv -> [Class -> Seq(Frame)]]
    BY <1>1 DEF Waiting
  <2>3. Append(pend[f.ra][f.ac], f) \in Seq(Frame)
    BY <2>2, AppendProperties
  <2> QED
    BY <1>1, <2>1, <2>2, <2>3
<1> QED
  BY <1>2, <1>3 DEF Waiting

\* rtw_hal_xmit changes nothing but what waits.
LEMMA HalWaiting ==
  ASSUME Waiting, NEW f \in Frame, HalXmit(f)
  PROVE  Waiting'
<1>1. CASE Direct(f)
  BY <1>1 DEF Direct, Waiting, pending
<1>2. CASE Classify(f)
  BY <1>2, AppendWaiting
<1> QED
  BY <1>1, <1>2 DEF HalXmit

\* The frames that wait for one receiver and class.
LEMMA WaitingFor ==
  ASSUME Waiting, NEW r \in Rcv, NEW a \in Class
  PROVE  pend[r][a] \in Seq(For(r)) /\ pend[r][a] \in Seq(Frame)
<1>1. pend[r][a] \in Seq(For(r))
  BY DEF Waiting
<1> QED
  BY <1>1, ForFrames, SeqMonotonic

-----------------------------------------------------------------------------
(* The lists.                                                              *)

\* list_del_init takes one frame, and the frame read before it is still there.
LEMMA UnlinkProperties ==
  ASSUME Lists, NEW r \in Rcv, NEW f \in Linked(sleepq[r])
  PROVE  /\ f \in For(r) /\ f \in Frame
         /\ Position(sleepq[r], f) \in DOMAIN sleepq[r]
         /\ sleepq[r][Position(sleepq[r], f)] = f
         /\ Unlink(sleepq[r], f) \in Seq(For(r))
         /\ Len(Unlink(sleepq[r], f)) = Len(sleepq[r]) - 1
         /\ After(sleepq[r], f) \in Frame \cup {NoFrame}
         /\ After(sleepq[r], f) # NoFrame =>
              After(sleepq[r], f) \in Linked(Unlink(sleepq[r], f))
<1> DEFINE q == sleepq[r]  i == Position(q, f)  p == Unlink(q, f)
<1>1. /\ q \in Seq(For(r)) /\ Len(q) \in Nat /\ DOMAIN q = 1 .. Len(q)
      /\ \A j \in DOMAIN q : q[j] \in For(r)
  BY FramesOfLists
<1>2. i \in DOMAIN q /\ q[i] = f
  <2>1. \E j \in DOMAIN q : q[j] = f
    BY DEF Linked
  <2> QED
    BY <2>1 DEF Position
<1>3. p = RemoveAt(q, i)
  BY DEF Unlink
<1>4. f \in For(r) /\ f \in Frame
  BY <1>1, <1>2, ForFrames
<1> HIDE DEF q, i, p
<1>5. /\ p \in Seq(For(r)) /\ Len(p) = Len(q) - 1
      /\ \A j \in 1 .. Len(q) - 1 : p[j] = IF j < i THEN q[j] ELSE q[j + 1]
  BY <1>1, <1>2, <1>3, RemoveAtProperties
<1>6. After(q, f) = IF i = Len(q) THEN NoFrame ELSE q[i + 1]
  BY DEF After, i
<1>7. After(q, f) \in Frame \cup {NoFrame} /\ (After(q, f) # NoFrame => After(q, f) \in Linked(p))
  <2>1. CASE i = Len(q)
    BY <1>6, <2>1
  <2>2. CASE i # Len(q)
    <3>1. i + 1 \in DOMAIN q /\ i \in 1 .. Len(q) - 1
      BY <1>1, <1>2, <2>2
    <3>2. After(q, f) = q[i + 1] /\ p[i] = q[i + 1]
      BY <1>5, <1>6, <2>2, <3>1
    <3>3. i \in DOMAIN p
      BY <1>5, <3>1, LenProperties
    <3>4. p[i] \in Linked(p)
      BY <3>3 DEF Linked
    <3> QED
      BY <1>1, <3>1, <3>2, <3>4, ForFrames
  <2> QED
    BY <2>1, <2>2
<1> QED
  BY <1>2, <1>4, <1>5, <1>7 DEF q, i, p

\* One list is replaced and its length with it.
LEMMA ReplaceList ==
  ASSUME Lists, NEW r \in Rcv, NEW q \in Seq(For(r)),
         uapsd' = uapsd, sleep' \subseteq Sta,
         sleepq' = [sleepq EXCEPT ![r] = q],
         len' = [len EXCEPT ![r] = Len(q)],
         aclen' \in [Rcv -> Int]
  PROVE  Lists'
<1>1. Len(q) \in Nat
  BY LenProperties
<1>2. len' \in [Rcv -> Int]
  BY <1>1 DEF Lists
<1>3. ASSUME NEW t \in Rcv
      PROVE  sleepq'[t] \in Seq(For(t)) /\ len'[t] = Len(sleepq'[t])
  <2>1. CASE t = r
    BY <2>1 DEF Lists
  <2>2. CASE t # r
    BY <2>2 DEF Lists
  <2> QED
    BY <2>1, <2>2
<1> QED
  BY <1>2, <1>3 DEF Lists

\* Nothing of the lists changes but who is asleep.
LEMMA SameLists ==
  ASSUME Lists, UNCHANGED <<uapsd, queues>>, sleep' \subseteq Sta
  PROVE  Lists'
BY DEF Lists, queues

\* A frame is added to a list, under its lock.
LEMMA AddFrame ==
  ASSUME Lists, NextIsLinked, Asleep, NEW r \in Rcv, NEW f \in For(r),
         r \in Sta => r \in sleep' \cap dz',
         sleep \subseteq sleep', Races \/ dz \subseteq dz', sleep' \subseteq Sta,
         uapsd' = uapsd, rx' = rx,
         sleepq' = [sleepq EXCEPT ![r] = Append(@, f)],
         len' = [len EXCEPT ![r] = @ + 1],
         aclen' \in [Rcv -> Int]
  PROVE  Lists' /\ NextIsLinked' /\ Asleep'
<1> DEFINE q == Append(sleepq[r], f)
<1>1. sleepq[r] \in Seq(For(r)) /\ len[r] = Len(sleepq[r])
  BY DEF Lists
<1>2. /\ q \in Seq(For(r)) /\ Len(q) = Len(sleepq[r]) + 1
      /\ \A i \in 1 .. Len(sleepq[r]) : q[i] = sleepq[r][i]
  BY <1>1, AppendProperties
<1>3. sleepq' = [sleepq EXCEPT ![r] = q] /\ DOMAIN sleepq = Rcv
  BY DEF Lists
<1> HIDE DEF q
<1>4. Lists'
  <2>1. len' = [len EXCEPT ![r] = Len(q)]
    BY <1>1, <1>2
  <2> QED
    BY <1>2, <1>3, <2>1, ReplaceList
<1>5. NextIsLinked'
  <2>1. ASSUME NEW g \in Linked(sleepq[r]) PROVE g \in Linked(q)
    <3>1. PICK i \in DOMAIN sleepq[r] : g = sleepq[r][i]
      BY DEF Linked
    <3>2. i \in DOMAIN q /\ q[i] = g
      <4>1. PICK k : k = Len(sleepq[r])
        OBVIOUS
      <4>2. k \in Nat /\ DOMAIN sleepq[r] = 1 .. k
        BY <1>1, <4>1, LenProperties
      <4>3. DOMAIN q = 1 .. (k + 1)
        BY <1>2, <4>1, LenProperties
      <4>4. q[i] = sleepq[r][i]
        BY <1>2, <3>1, <4>1, <4>2
      <4>5. i \in 1 .. (k + 1)
        BY <3>1, <4>2
      <4> QED
        BY <3>1, <4>3, <4>4, <4>5
    <3> QED
      BY <3>2 DEF Linked
  <2>2. CASE rx.s = r
    BY <1>3, <2>1, <2>2 DEF NextIsLinked
  <2>3. CASE rx.s # r
    <3>1. sleepq'[rx.s] = sleepq[rx.s]
      BY <1>3, <2>3
    <3> QED
      BY <3>1 DEF NextIsLinked
  <2> QED
    BY <2>2, <2>3
<1>6. Asleep'
  <2>1. ASSUME ~Races, NEW s \in Sta, sleepq'[s] # << >> PROVE s \in sleep' \cap dz'
    <3>1. CASE s = r
      BY <3>1
    <3>2. CASE s # r
      <4>1. sleepq'[s] = sleepq[s]
        BY <1>3, <3>2 DEF Rcv
      <4> QED
        BY <2>1, <4>1 DEF Asleep, HeldOnlyAsleep
    <3> QED
      BY <3>1, <3>2
  <2> QED
    BY <2>1 DEF Asleep, HeldOnlyAsleep
<1> QED
  BY <1>4, <1>5, <1>6

\* A frame is taken from a list, and nobody wakes up.
LEMMA TakeFrame ==
  ASSUME Lists, Asleep, NEW r \in Rcv, NEW q \in Seq(For(r)),
         sleepq[r] # << >>, Len(q) = Len(sleepq[r]) - 1,
         UNCHANGED <<uapsd, sleep, dz>>,
         sleepq' = [sleepq EXCEPT ![r] = q],
         len' = [len EXCEPT ![r] = @ - 1],
         aclen' \in [Rcv -> Int]
  PROVE  Lists' /\ Asleep'
<1>1. len' = [len EXCEPT ![r] = Len(q)]
  BY DEF Lists
<1>2. Lists'
  BY <1>1, ReplaceList DEF Lists
<1>3. ASSUME ~Races, NEW s \in Sta, sleepq'[s] # << >> PROVE s \in sleep' \cap dz'
  <2>1. sleepq[s] # << >>
    <3>1. CASE s = r
      BY <3>1
    <3>2. CASE s # r
      <4>1. sleepq'[s] = sleepq[s]
        BY <3>2 DEF Rcv, Lists
      <4> QED
        BY <1>3, <4>1
    <3> QED
      BY <3>1, <3>2
  <2> QED
    BY <1>3, <2>1 DEF Asleep, HeldOnlyAsleep
<1> QED
  BY <1>2, <1>3 DEF Asleep, HeldOnlyAsleep

-----------------------------------------------------------------------------
(* The steps of rtw_xmit and of the transmit tasklet.                      *)

LEMMA TxStartIInv ==
  ASSUME IInv, NEW a \in Class, NEW r \in Rcv, TxStart(a, r)
  PROVE  IInv'
<1> DEFINE f == [id |-> frames + mcasts + 1, ra |-> r, ac |-> a, trig |-> FALSE,
                 hiq |-> FALSE]
<1>1. UNCHANGED <<bits, queues, pending, rx, cmd>>
  BY DEF TxStart
<1>2. frames' \in Nat /\ mcasts' \in Nat /\ frames + mcasts + 1 \in Nat
  BY DEF TxStart, IInv, Senders
<1>3. f \in Frame /\ f.ac = a
  BY <1>2 DEF Frame
<1>4. tx' = [tx EXCEPT ![a] = [pc |-> "look", f |-> f]]
  BY DEF TxStart
<1> HIDE DEF f
<1>5. Senders'
  BY <1>2, <1>3, <1>4 DEF IInv, Senders
<1> QED
  BY <1>1, <1>5 DEF IInv, Lists, Waiting, Commands, Receiver, NextIsLinked, Asleep, HeldOnlyAsleep,
     bits, queues, pending

LEMMA TxSleepsIInv ==
  ASSUME IInv, NEW a \in Class, TxSleeps(a)
  PROVE  IInv'
<1>1. PICK f : f = tx[a].f
  OBVIOUS
<1>2. PICK s : s = f.ra
  OBVIOUS
<1>3. f \in Frame /\ s \in sleep \cap dz /\ s \in Sta /\ s \in Rcv /\ f \in For(s)
  BY <1>1, <1>2, ForFrames DEF TxSleeps, IInv, Senders, Lists, Rcv
<1>4. /\ sleepq' = [sleepq EXCEPT ![s] = Append(@, f)]
      /\ len' = [len EXCEPT ![s] = @ + 1]
      /\ aclen' = [aclen EXCEPT ![s] = @ + (IF Uapsd(s, a) THEN 1 ELSE 0)]
      /\ tx' = [tx EXCEPT ![a] = TxIdle]
      /\ UNCHANGED <<uapsd, sleep, dz, pending, rx, cmd, count>>
  BY <1>1, <1>2 DEF TxSleeps
<1>5. aclen' \in [Rcv -> Int]
  <2>1. aclen[s] + (IF Uapsd(s, a) THEN 1 ELSE 0) \in Int
    BY <1>3 DEF IInv, Lists
  <2> QED
    BY <1>3, <1>4, <2>1 DEF IInv, Lists
<1>6. Lists' /\ NextIsLinked' /\ Asleep'
  <2>1. sleep' \subseteq Sta
    BY <1>4 DEF IInv, Lists
  <2> QED
    BY <1>3, <1>4, <1>5, <2>1, AddFrame DEF IInv
<1>7. Senders'
  BY <1>4 DEF IInv, Senders, TxIdle, count
<1> QED
  BY <1>4, <1>6, <1>7 DEF IInv, Waiting, Commands, Receiver, pending

LEMMA TxMcastSleepsIInv ==
  ASSUME IInv, NEW a \in Class, TxMcastSleeps(a)
  PROVE  IInv'
<1>1. PICK f : f = tx[a].f
  OBVIOUS
<1>2. f \in Frame /\ f \in For(Bmc) /\ Bmc \in Rcv /\ Bmc \notin Sta
  BY <1>1, ForFrames, ApSleepAssumption DEF TxMcastSleeps, IInv, Senders, Rcv
<1>3. /\ sleepq' = [sleepq EXCEPT ![Bmc] = Append(@, f)]
      /\ len' = [len EXCEPT ![Bmc] = @ + 1]
      /\ Races \/ dz' = dz \cup {Bmc}
      /\ tx' = [tx EXCEPT ![a] = TxIdle]
      /\ UNCHANGED <<uapsd, sleep, aclen, pending, rx, cmd, count>>
  BY <1>1 DEF TxMcastSleeps, Lands
<1>4. Lists' /\ NextIsLinked' /\ Asleep'
  <2>1. sleep' \subseteq Sta /\ aclen' \in [Rcv -> Int]
    BY <1>3 DEF IInv, Lists
  <2> QED
    BY <1>2, <1>3, <2>1, AddFrame DEF IInv
<1>5. Senders'
  BY <1>3 DEF IInv, Senders, TxIdle, count
<1> QED
  BY <1>3, <1>4, <1>5 DEF IInv, Waiting, Commands, Receiver, pending

LEMMA TxAwakeIInv ==
  ASSUME IInv, NEW a \in Class, TxAwake(a)
  PROVE  IInv'
<1>1. UNCHANGED <<bits, queues, pending, rx, cmd, count>>
  BY DEF TxAwake
<1>2. tx' = [tx EXCEPT ![a].pc = "hal"] /\ tx[a].pc = "look"
  BY DEF TxAwake
<1>3. Senders'
  <2>1. tx[a] \in [pc : {"idle", "look", "hal"}, f : Frame \cup {NoFrame}]
    BY DEF IInv, Senders
  <2>2. tx'[a].pc = "hal" /\ tx'[a].f = tx[a].f
    BY <1>2, <2>1 DEF IInv, Senders
  <2>3. tx' \in [Class -> [pc : {"idle", "look", "hal"}, f : Frame \cup {NoFrame}]]
    BY <1>2, <2>1 DEF IInv, Senders
  <2>4. ASSUME NEW b \in Class, tx'[b].pc # "idle"
        PROVE  tx'[b].f \in Frame /\ tx'[b].f.ac = b
    <3>1. CASE b = a
      BY <1>2, <2>2, <3>1 DEF IInv, Senders
    <3>2. CASE b # a
      <4>1. tx'[b] = tx[b]
        BY <1>2, <3>2 DEF IInv, Senders
      <4> QED
        BY <2>4, <4>1 DEF IInv, Senders
    <3> QED
      BY <3>1, <3>2
  <2> QED
    BY <1>1, <2>3, <2>4 DEF IInv, Senders, count
<1> QED
  BY <1>1, <1>3 DEF IInv, Lists, Waiting, Commands, Receiver, NextIsLinked, Asleep, HeldOnlyAsleep,
     bits, queues, pending

LEMMA TxHalIInv ==
  ASSUME IInv, NEW a \in Class, TxHal(a)
  PROVE  IInv'
<1>1. UNCHANGED <<bits, queues, rx, cmd, count>> /\ tx' = [tx EXCEPT ![a] = TxIdle]
  BY DEF TxHal
<1>2. tx[a].f \in Frame /\ HalXmit(tx[a].f)
  BY DEF TxHal, IInv, Senders
<1>3. Waiting'
  BY <1>2, HalWaiting DEF IInv
<1>4. Senders'
  BY <1>1 DEF IInv, Senders, TxIdle, count
<1> QED
  BY <1>1, <1>3, <1>4 DEF IInv, Lists, Commands, Receiver, NextIsLinked, Asleep, HeldOnlyAsleep,
     bits, queues

LEMMA DequeueIInv ==
  ASSUME IInv, NEW a \in Class, NEW r \in Rcv, Dequeue(r, a)
  PROVE  IInv'
<1>1. UNCHANGED <<bits, queues, tx, rx, cmd, count>>
  BY DEF Dequeue
<1>2. pend' = [pend EXCEPT ![r][a] = Tail(@)] /\ pend[r][a] # << >>
  BY DEF Dequeue
<1>3. Tail(pend[r][a]) \in Seq(For(r)) /\ Tail(pend[r][a]) \in Seq(Frame)
  BY <1>2, WaitingFor, HeadTailProperties DEF IInv
<1>4. Waiting'
  <2>1. pend' \in [Rcv -> [Class -> Seq(Frame)]]
    BY <1>2, <1>3 DEF IInv, Waiting
  <2>2. ASSUME NEW t \in Rcv, NEW b \in Class
        PROVE  pend'[t][b] \in Seq(For(t))
    <3>1. pend'[t][b] = IF t = r /\ b = a THEN Tail(pend[r][a]) ELSE pend[t][b]
      BY <1>2 DEF IInv, Waiting
    <3>2. pend[t][b] \in Seq(For(t))
      BY DEF IInv, Waiting
    <3> QED
      BY <1>3, <3>1, <3>2
  <2> QED
    BY <2>1, <2>2 DEF Waiting
<1> QED
  BY <1>1, <1>4 DEF IInv, Lists, Senders, Commands, Receiver, NextIsLinked, Asleep, HeldOnlyAsleep,
     bits, queues, count

-----------------------------------------------------------------------------
(* The steps of the receive tasklet.                                       *)

\* A step that moves the receive tasklet only.
LEMMA RxMoves ==
  ASSUME IInv, UNCHANGED <<uapsd, sleep, dz, queues, pending, tx, cmd, frames, mcasts>>,
         Receiver', NextIsLinked'
  PROVE  IInv'
BY DEF IInv, Lists, Waiting, Senders, Commands, Asleep, HeldOnlyAsleep, queues, pending

LEMMA RxNextOK ==
  ASSUME NEW s \in Sta, NEW t \in BOOLEAN, rx' = RxNext(s, t)
  PROVE  Receiver' /\ NextIsLinked' /\ rx'.pc \in {"idle", "wmm"}
<1>1. CASE t
  BY <1>1 DEF RxNext, RxIdle, Receiver, NextIsLinked, Rcv
<1>2. CASE ~t
  BY <1>2 DEF RxNext, RxIdle, Receiver, NextIsLinked, Rcv
<1> QED
  BY <1>1, <1>2

LEMMA RxSameIInv ==
  ASSUME IInv, NEW s \in Sta, NEW t \in BOOLEAN, RxSame(s, t)
  PROVE  IInv'
BY RxNextOK, RxMoves DEF RxSame, bits

LEMMA RxWakeIInv ==
  ASSUME IInv, NEW s \in Sta, NEW t \in BOOLEAN, RxWake(s, t)
  PROVE  IInv'
<1>1. rx' = [RxIdle EXCEPT !.pc = "wake", !.s = s, !.trig = t]
  BY DEF RxWake
<1>2. Receiver' /\ NextIsLinked'
  BY <1>1 DEF RxIdle, Receiver, NextIsLinked, Rcv
<1> QED
  BY <1>2, RxMoves DEF RxWake, bits

LEMMA RxTriggerIInv ==
  ASSUME IInv, RxTrigger
  PROVE  IInv'
<1>1. rx.pc = "wmm" /\ rx.s \in Sta
  BY DEF RxTrigger, IInv, Receiver
<1>2. rx' = [rx EXCEPT !.pc = "deliver"] \/ rx' = RxIdle
  BY DEF RxTrigger
<1>3. Receiver' /\ NextIsLinked'
  <2>1. CASE rx' = RxIdle
    BY <2>1 DEF RxIdle, Receiver, NextIsLinked, Rcv
  <2>2. CASE rx' = [rx EXCEPT !.pc = "deliver"]
    BY <1>1, <2>2 DEF Receiver, NextIsLinked, IInv
  <2> QED
    BY <1>2, <2>1, <2>2
<1> QED
  BY <1>3, RxMoves DEF RxTrigger, bits, count

LEMMA DeliveredIInv ==
  ASSUME IInv, Delivered
  PROVE  IInv'
<1>1. Receiver' /\ NextIsLinked'
  BY DEF Delivered, RxIdle, Receiver, NextIsLinked, Rcv
<1> QED
  BY <1>1, RxMoves DEF Delivered, bits, count

\* wakeup_sta_to_xmit: the frame the loop takes is on the list.
LEMMA WakeNextLinked ==
  ASSUME IInv, rx.pc \in {"wake", "relock"}, WakeNext(rx.s) # NoFrame
  PROVE  rx.s \in Sta /\ rx.s \in Rcv /\ WakeNext(rx.s) \in Linked(sleepq[rx.s])
<1>1. rx.s \in Sta /\ rx.s \in Rcv
  BY DEF IInv, Receiver, Rcv
<1>2. CASE rx.pc = "relock"
  BY <1>1, <1>2 DEF WakeNext, IInv, NextIsLinked
<1>3. CASE rx.pc = "wake"
  <2>1. sleepq[rx.s] # << >> /\ WakeNext(rx.s) = Head(sleepq[rx.s])
    BY <1>3 DEF WakeNext, First
  <2>2. Len(sleepq[rx.s]) \in Nat /\ DOMAIN sleepq[rx.s] = 1 .. Len(sleepq[rx.s])
        /\ sleepq[rx.s] \in Seq(Frame)
    BY <1>1, FramesOfLists DEF IInv
  <2>3. 1 \in DOMAIN sleepq[rx.s] /\ Head(sleepq[rx.s]) = sleepq[rx.s][1]
    BY <2>1, <2>2, EmptySeq
  <2> QED
    BY <1>1, <2>1, <2>3 DEF Linked
<1> QED
  BY <1>2, <1>3

LEMMA NonEmptyLinked ==
  ASSUME NEW q, NEW f \in Linked(q), q = << >>
  PROVE  FALSE
<1>1. DOMAIN q = {}
  OBVIOUS
<1> QED
  BY <1>1 DEF Linked

LEMMA WakeTakeIInv ==
  ASSUME IInv, WakeTake
  PROVE  IInv'
<1>1. PICK s : s = rx.s
  OBVIOUS
<1>2. PICK f : f = WakeNext(s)
  OBVIOUS
<1>3. PICK g : g = After(sleepq[s], f)
  OBVIOUS
<1>4. PICK q : q = Unlink(sleepq[s], f)
  OBVIOUS
<1>5. s \in Sta /\ s \in Rcv /\ f \in Linked(sleepq[s])
  BY <1>1, <1>2, WakeNextLinked DEF WakeTake
<1>6. /\ f \in Frame /\ q \in Seq(For(s)) /\ Len(q) = Len(sleepq[s]) - 1
      /\ g \in Frame \cup {NoFrame} /\ (g # NoFrame => g \in Linked(q))
  BY <1>3, <1>4, <1>5, UnlinkProperties DEF IInv
<1>7. /\ sleepq' = [sleepq EXCEPT ![s] = q]
      /\ len' = [len EXCEPT ![s] = @ - 1]
      /\ aclen' = [aclen EXCEPT ![s] = @ - (IF Uapsd(s, f.ac) THEN 1 ELSE 0)]
      /\ rx' = [rx EXCEPT !.pc = "hal", !.f = [f EXCEPT !.trig = TRUE], !.next = g]
      /\ UNCHANGED <<uapsd, sleep, dz, pending, tx, cmd, frames, mcasts>>
  BY <1>1, <1>2, <1>3, <1>4 DEF WakeTake, bits, count
<1>8. aclen' \in [Rcv -> Int]
  <2>1. aclen[s] - (IF Uapsd(s, f.ac) THEN 1 ELSE 0) \in Int
    BY <1>5 DEF IInv, Lists
  <2> QED
    BY <1>5, <1>7, <2>1 DEF IInv, Lists
<1>9. sleepq[s] # << >>
  BY <1>5, NonEmptyLinked
<1>10. Lists' /\ Asleep'
  BY <1>5, <1>6, <1>7, <1>8, <1>9, TakeFrame DEF IInv
<1>11. [f EXCEPT !.trig = TRUE] \in Frame
  BY <1>6 DEF Frame
<1>12. Receiver' /\ rx'.next = g /\ rx'.s = s
  BY <1>1, <1>5, <1>6, <1>7, <1>11 DEF IInv, Receiver
<1>13. sleepq'[s] = q
  BY <1>5, <1>7 DEF IInv, Lists
<1>14. NextIsLinked'
  BY <1>6, <1>12, <1>13 DEF NextIsLinked
<1> QED
  BY <1>7, <1>10, <1>12, <1>14 DEF IInv, Waiting, Senders, Commands, pending

LEMMA WakeHalIInv ==
  ASSUME IInv, WakeHal
  PROVE  IInv'
<1>1. /\ UNCHANGED <<bits, queues, tx, cmd, count>>
      /\ rx.pc \in {"hal", "mhal"} /\ HalXmit(rx.f)
      /\ rx' = [rx EXCEPT !.pc = IF @ = "hal" THEN "relock" ELSE "mrelock", !.f = NoFrame]
  BY DEF WakeHal
<1>2. Waiting'
  <2>1. rx.f \in Frame
    BY <1>1 DEF IInv, Receiver
  <2> QED
    BY <1>1, <2>1, HalWaiting DEF IInv
<1>3. Receiver' /\ NextIsLinked'
  <2>1. CASE rx.pc = "hal"
    BY <1>1, <2>1 DEF IInv, Receiver, NextIsLinked, queues
  <2>2. CASE rx.pc = "mhal"
    BY <1>1, <2>2 DEF IInv, Receiver, NextIsLinked, queues
  <2> QED
    BY <1>1, <2>1, <2>2
<1> QED
  BY <1>1, <1>2, <1>3 DEF IInv, Lists, Senders, Commands, Asleep, HeldOnlyAsleep, bits, queues, count

LEMMA WakeEndIInv ==
  ASSUME IInv, WakeEnd
  PROVE  IInv'
<1>1. PICK s : s = rx.s
  OBVIOUS
<1>2. PICK done : done = IF len[s] = 0 THEN {s} ELSE {}
  OBVIOUS
<1>3. /\ sleep' = sleep \ done /\ (Races \/ dz' = dz \ done)
      /\ rx' = [rx EXCEPT !.pc = "bmc", !.next = NoFrame, !.upd = (done # {})]
      /\ rx.pc \in {"wake", "relock"}
      /\ UNCHANGED <<uapsd, queues, pending, tx, cmd, frames, mcasts>>
  BY <1>1, <1>2 DEF WakeEnd, Lands, count
<1>4. (done # {}) \in BOOLEAN
  OBVIOUS
<1>5. PICK u \in BOOLEAN : u = (done # {})
  BY <1>4
<1>6. rx' = [rx EXCEPT !.pc = "bmc", !.next = NoFrame, !.upd = u]
  BY <1>3, <1>5
<1>7. Receiver' /\ NextIsLinked'
  BY <1>3, <1>6 DEF IInv, Receiver, NextIsLinked
<1>8. s \in Sta /\ s \in Rcv
  BY <1>1, <1>3 DEF IInv, Receiver, Rcv
<1>9. Lists'
  <2>1. sleep' \subseteq Sta
    BY <1>3 DEF IInv, Lists
  <2> QED
    BY <1>3, <2>1, SameLists DEF IInv
<1>10. Asleep'
  <2>1. ASSUME NEW t \in Sta, sleepq[t] # << >> PROVE t \notin done
    <3>1. SUFFICES ASSUME t \in done PROVE FALSE
      OBVIOUS
    <3>2. t = s /\ len[s] = 0
      BY <1>2, <3>1
    <3>3. Len(sleepq[s]) = 0 /\ sleepq[s] \in Seq(For(s))
      BY <1>8, <3>2 DEF IInv, Lists
    <3> QED
      BY <2>1, <3>2, <3>3, EmptySeq
  <2> QED
    BY <1>3, <2>1 DEF IInv, Asleep, HeldOnlyAsleep, queues
<1> QED
  BY <1>3, <1>7, <1>9, <1>10 DEF IInv, Waiting, Senders, Commands, pending

LEMMA WakeMcastIInv ==
  ASSUME IInv, WakeMcast
  PROVE  IInv'
<1>1. PICK f : f = WakeNext(Bmc)
  OBVIOUS
<1>2. PICK g : g = After(sleepq[Bmc], f)
  OBVIOUS
<1>3. PICK q : q = Unlink(sleepq[Bmc], f)
  OBVIOUS
<1>4. f \in Linked(sleepq[Bmc]) /\ Bmc \in Rcv /\ Bmc \notin Sta
  BY <1>1, ApSleepAssumption DEF WakeMcast, Linked, Rcv
<1>5. /\ f \in Frame /\ q \in Seq(For(Bmc)) /\ Len(q) = Len(sleepq[Bmc]) - 1
      /\ g \in Frame \cup {NoFrame}
  BY <1>2, <1>3, <1>4, UnlinkProperties DEF IInv
<1>6. /\ sleepq' = [sleepq EXCEPT ![Bmc] = q]
      /\ len' = [len EXCEPT ![Bmc] = @ - 1]
      /\ rx' = [rx EXCEPT !.pc = "mhal", !.f = [f EXCEPT !.trig = TRUE], !.next = g]
      /\ UNCHANGED <<uapsd, sleep, dz, aclen, pending, tx, cmd, frames, mcasts>>
      /\ rx.pc \in {"bmc", "mrelock"}
  BY <1>1, <1>2, <1>3 DEF WakeMcast, bits, count
<1>7. sleepq[Bmc] # << >> /\ aclen' \in [Rcv -> Int]
  BY <1>4, <1>6, NonEmptyLinked DEF IInv, Lists
<1>8. Lists' /\ Asleep'
  BY <1>4, <1>5, <1>6, <1>7, TakeFrame DEF IInv
<1>9. [f EXCEPT !.trig = TRUE] \in Frame
  BY <1>5 DEF Frame
<1>10. Receiver' /\ NextIsLinked'
  BY <1>5, <1>6, <1>9 DEF IInv, Receiver, NextIsLinked
<1> QED
  BY <1>6, <1>8, <1>10 DEF IInv, Waiting, Senders, Commands, pending

\* The bits of the bc/mc station say nothing of the others.
LEMMA McastBit ==
  ASSUME Lists, Asleep, UNCHANGED <<uapsd, sleep, queues>>,
         Races \/ dz \ {Bmc} \subseteq dz'
  PROVE  Lists' /\ Asleep'
BY ApSleepAssumption DEF Lists, Asleep, HeldOnlyAsleep, queues

LEMMA WakeDoneIInv ==
  ASSUME IInv, WakeDone
  PROVE  IInv'
<1>1. rx.pc \in {"bmc", "mrelock"} /\ rx' = RxNext(rx.s, rx.trig)
  BY DEF WakeDone
<1>2. rx.s \in Sta /\ rx.trig \in BOOLEAN
  BY <1>1 DEF IInv, Receiver
<1>3. Receiver' /\ NextIsLinked'
  BY <1>1, <1>2, RxNextOK
<1>4. /\ UNCHANGED <<uapsd, sleep, queues, pending, tx, cmd, frames, mcasts>>
      /\ Races \/ dz \ {Bmc} \subseteq dz'
  BY DEF WakeDone, Lands, count
<1> QED
  BY <1>3, <1>4, McastBit DEF IInv, Waiting, Senders, Commands, pending

LEMMA DeliverIInv ==
  ASSUME IInv, Deliver
  PROVE  IInv'
<1>1. PICK s : s = rx.s
  OBVIOUS
<1>2. PICK f : f = sleepq[s][Nth(EnabledAt(sleepq[s]), 1)]
  OBVIOUS
<1>3. PICK q : q = Unlink(sleepq[s], f)
  OBVIOUS
<1>4. rx.pc = "deliver" /\ s \in Sta /\ s \in Rcv /\ EnabledAt(sleepq[s]) # {}
  BY <1>1 DEF Deliver, IInv, Receiver, Rcv
<1>5. f \in Linked(sleepq[s])
  <2> DEFINE I == EnabledAt(sleepq[s])
  <2>1. I \in SUBSET (DOMAIN sleepq[s])
    BY DEF EnabledAt
  <2>2. IsFiniteSet(I) /\ Cardinality(I) \in Nat /\ I \in SUBSET Nat
    BY <1>4, <2>1, AtFinite, FramesOfLists DEF IInv
  <2>3. Cardinality(I) # 0
    BY <1>4, <2>2, FS_EmptySet
  <2>4. 1 \in 1 .. Cardinality(I)
    BY <2>2, <2>3
  <2>5. Nth(I, 1) \in I
    BY <2>2, <2>4, NthPosition
  <2> QED
    BY <1>2, <2>1, <2>5 DEF Linked
<1>6. f \in Frame /\ q \in Seq(For(s)) /\ Len(q) = Len(sleepq[s]) - 1
  BY <1>3, <1>4, <1>5, UnlinkProperties DEF IInv
<1>7. /\ sleepq' = [sleepq EXCEPT ![s] = q]
      /\ len' = [len EXCEPT ![s] = @ - 1]
      /\ aclen' = [aclen EXCEPT ![s] = @ - 1]
      /\ HalXmit([f EXCEPT !.trig = TRUE])
      /\ UNCHANGED <<uapsd, sleep, dz, tx, rx, cmd, frames, mcasts>>
  BY <1>1, <1>2, <1>3 DEF Deliver, count
<1>8. aclen' \in [Rcv -> Int]
  BY <1>4, <1>7 DEF IInv, Lists
<1>9. sleepq[s] # << >>
  BY <1>5, NonEmptyLinked
<1>10. Lists' /\ Asleep'
  BY <1>4, <1>6, <1>7, <1>8, <1>9, TakeFrame DEF IInv
<1>11. Waiting'
  <2>1. [f EXCEPT !.trig = TRUE] \in Frame
    BY <1>6 DEF Frame
  <2> QED
    BY <1>7, <2>1, HalWaiting DEF IInv
<1>12. NextIsLinked'
  BY <1>4, <1>7 DEF NextIsLinked
<1> QED
  BY <1>7, <1>10, <1>11, <1>12 DEF IInv, Senders, Commands, Receiver

LEMMA RxPollIInv ==
  ASSUME IInv, NEW s \in Sta, RxPoll(s)
  PROVE  IInv'
<1>1. /\ rx.pc = "idle"
      /\ UNCHANGED <<uapsd, sleep, dz, aclen, pending, tx, rx, cmd, frames, mcasts>>
  BY DEF RxPoll, RxFrame
<1>2. s \in Rcv /\ sleepq[s] \in Seq(For(s)) /\ len[s] = Len(sleepq[s])
      /\ DOMAIN sleepq = Rcv /\ len \in [Rcv -> Int] /\ aclen' \in [Rcv -> Int]
  BY <1>1 DEF IInv, Lists, Rcv
<1>3. CASE s \in sleep \cap dz /\ sleepq[s] # << >>
  <2>1. sleepq' = [sleepq EXCEPT ![s] = Tail(@)] /\ len' = [len EXCEPT ![s] = @ - 1]
    BY <1>3 DEF RxPoll
  <2>2. Tail(sleepq[s]) \in Seq(For(s)) /\ Len(Tail(sleepq[s])) = Len(sleepq[s]) - 1
    BY <1>2, <1>3, HeadTailProperties
  <2>3. PICK q : q = Tail(sleepq[s])
    OBVIOUS
  <2>4. Lists' /\ Asleep'
    BY <1>1, <1>2, <1>3, <2>1, <2>2, <2>3, TakeFrame DEF IInv
  <2> QED
    BY <1>1, <2>4 DEF IInv, Waiting, Senders, Commands, Receiver, NextIsLinked, pending
<1>4. CASE ~(s \in sleep \cap dz /\ sleepq[s] # << >>)
  <2>1. sleepq' = sleepq
    BY <1>4 DEF RxPoll
  <2>2. len' = len
    <3>1. \/ len' = [len EXCEPT ![s] = @]
          \/ len' = [len EXCEPT ![s] = 0] /\ s \in sleep \cap dz
      BY <1>4 DEF RxPoll
    <3>2. CASE len' = [len EXCEPT ![s] = @]
      BY <1>2, <3>2
    <3>3. CASE len' = [len EXCEPT ![s] = 0] /\ s \in sleep \cap dz
      <4>1. len[s] = 0
        BY <1>2, <1>4, <3>3, EmptySeq
      <4> QED
        BY <1>2, <3>3, <4>1
    <3> QED
      BY <3>1, <3>2, <3>3
  <2> QED
    BY <1>1, <2>1, <2>2, RxMoves DEF IInv, Receiver, NextIsLinked, queues
<1> QED
  BY <1>3, <1>4

-----------------------------------------------------------------------------
(* The steps of the command thread and of the chip.                        *)

\* A step that moves the command thread only.
LEMMA CmdMoves ==
  ASSUME IInv, UNCHANGED <<uapsd, sleep, queues, pending, tx, rx, frames, mcasts>>,
         Races \/ dz \ {Bmc} \subseteq dz', Commands'
  PROVE  IInv'
<1>1. Lists' /\ Asleep'
  BY McastBit DEF IInv
<1> QED
  BY <1>1 DEF IInv, Waiting, Senders, Receiver, NextIsLinked, queues, pending

LEMMA CmdTakeIInv ==
  ASSUME IInv, CmdTake
  PROVE  IInv'
<1>1. PICK f : f = CmdNext
  OBVIOUS
<1>2. PICK g : g = After(sleepq[Bmc], f)
  OBVIOUS
<1>3. PICK q : q = Unlink(sleepq[Bmc], f)
  OBVIOUS
<1>4. f \in Linked(sleepq[Bmc]) /\ Bmc \in Rcv /\ Bmc \notin Sta
  BY <1>1, ApSleepAssumption DEF CmdTake, Linked, Rcv
<1>5. /\ f \in Frame /\ q \in Seq(For(Bmc)) /\ Len(q) = Len(sleepq[Bmc]) - 1
      /\ g \in Frame \cup {NoFrame}
  BY <1>2, <1>3, <1>4, UnlinkProperties DEF IInv
<1>6. /\ sleepq' = [sleepq EXCEPT ![Bmc] = q]
      /\ len' = [len EXCEPT ![Bmc] = @ - 1]
      /\ cmd' = [pc |-> "hal", f |-> [f EXCEPT !.trig = TRUE, !.hiq = TRUE], next |-> g]
      /\ UNCHANGED <<uapsd, sleep, dz, aclen, pending, tx, rx, frames, mcasts>>
  BY <1>1, <1>2, <1>3 DEF CmdTake, bits, count
<1>7. sleepq[Bmc] # << >> /\ aclen' \in [Rcv -> Int]
  BY <1>4, <1>6, NonEmptyLinked DEF IInv, Lists
<1>8. Lists' /\ Asleep'
  BY <1>4, <1>5, <1>6, <1>7, TakeFrame DEF IInv
<1>9. [f EXCEPT !.trig = TRUE, !.hiq = TRUE] \in Frame
  BY <1>5 DEF Frame
<1>10. Commands'
  BY <1>5, <1>6, <1>9 DEF Commands
<1>11. NextIsLinked'
  <2>1. SUFFICES ASSUME rx.pc \in {"hal", "relock"}, rx.next # NoFrame
                 PROVE  rx.next \in Linked(sleepq'[rx.s])
    BY <1>6 DEF NextIsLinked
  <2>2. rx.s \in Rcv /\ rx.s # Bmc
    BY <1>4, <2>1 DEF IInv, Receiver
  <2>3. sleepq'[rx.s] = sleepq[rx.s]
    BY <1>6, <2>2 DEF IInv, Lists
  <2> QED
    BY <2>1, <2>3 DEF IInv, NextIsLinked
<1> QED
  BY <1>6, <1>8, <1>10, <1>11 DEF IInv, Waiting, Senders, Receiver, pending

LEMMA CmdHalIInv ==
  ASSUME IInv, CmdHal
  PROVE  IInv'
<1>1. /\ UNCHANGED <<bits, queues, tx, rx, count>>
      /\ cmd.pc = "hal" /\ HalXmit(cmd.f)
      /\ cmd' = [cmd EXCEPT !.pc = "relock", !.f = NoFrame]
  BY DEF CmdHal
<1>2. Waiting'
  <2>1. cmd.f \in Frame
    BY <1>1 DEF IInv, Commands
  <2> QED
    BY <1>1, <2>1, HalWaiting DEF IInv
<1>3. Commands'
  BY <1>1 DEF IInv, Commands
<1> QED
  BY <1>1, <1>2, <1>3 DEF IInv, Lists, Senders, Receiver, NextIsLinked, Asleep, HeldOnlyAsleep,
     bits, queues, count

LEMMA CmdStepIInv ==
  ASSUME IInv, CmdStep \/ CmdBeaconFails \/ HiqComplete \/ ChipDtim
                 \/ \E s \in Sta : AliveCheck(s)
  PROVE  IInv'
<1>1. CASE CmdBeacon
  BY <1>1, CmdMoves DEF CmdBeacon, CmdIdle, Commands, bits, count
<1>2. CASE CmdTake
  BY <1>2, CmdTakeIInv
<1>3. CASE CmdHal
  BY <1>3, CmdHalIInv
<1>4. CASE CmdSent
  BY <1>4, CmdMoves DEF CmdSent, CmdIdle, Commands, bits, count
<1>5. CASE CmdChkHiq
  BY <1>5, CmdMoves DEF CmdChkHiq, CmdIdle, Commands, bits, count
<1>6. CASE CmdHiqEmpty
  BY <1>6, CmdMoves DEF CmdHiqEmpty, Lands, CmdIdle, Commands, count
<1>7. CASE CmdHiqBusy
  BY <1>7, CmdMoves DEF CmdHiqBusy, CmdIdle, Commands, bits, count
<1>8. CASE CmdBeaconFails
  BY <1>8, CmdMoves DEF CmdBeaconFails, IInv, Commands, bits, count
<1>9. CASE HiqComplete
  BY <1>9, CmdMoves DEF HiqComplete, IInv, Commands, bits, count
<1>10. CASE ChipDtim
  BY <1>10, CmdMoves DEF ChipDtim, IInv, Commands, bits, count
<1>11. CASE \E s \in Sta : AliveCheck(s)
  BY <1>11, CmdMoves DEF AliveCheck, IInv, Commands, count
<1> QED
  BY <1>1, <1>2, <1>3, <1>4, <1>5, <1>6, <1>7, <1>8, <1>9, <1>10, <1>11 DEF CmdStep

-----------------------------------------------------------------------------
(* stop_sta_xmit.                                                          *)

LEMMA TriggeredList ==
  ASSUME NEW S, NEW q \in Seq(S)
  PROVE  Triggered(q) \in Seq(S) /\ Untriggered(q) \in Seq(S)
<1>1. /\ {i \in DOMAIN q : q[i].trig} \in SUBSET (DOMAIN q)
      /\ {i \in DOMAIN q : ~q[i].trig} \in SUBSET (DOMAIN q)
  OBVIOUS
<1> QED
  BY <1>1, PickProperties DEF Triggered, Untriggered

LEMMA ForHiqList ==
  ASSUME NEW r \in Rcv, NEW q \in Seq(For(r))
  PROVE  ForHiq(q) \in Seq(For(r))
<1> DEFINE n == Len(q)
<1>1. n \in Nat /\ DOMAIN q = 1 .. n /\ \A i \in 1 .. n : q[i] \in For(r)
  BY LenProperties, ElementOfSeq
<1> HIDE DEF n
<1>2. \A i \in 1 .. n : [q[i] EXCEPT !.hiq = TRUE] \in For(r)
  BY <1>1 DEF For
<1>3. ForHiq(q) = [i \in 1 .. n |-> [q[i] EXCEPT !.hiq = TRUE]]
  BY <1>1 DEF ForHiq
<1> QED
  BY <1>1, <1>2, <1>3, IsASeq

\* What stop_sta_xmit moves to the two sleep queues.
LEMMA MovedLists ==
  ASSUME Waiting, NEW s \in Sta
  PROVE  Moved(s) \in Seq(For(s)) /\ Untriggered(pend[Bmc]["be"]) \in Seq(For(Bmc))
<1>1. s \in Rcv /\ Bmc \in Rcv /\ "vo" \in Class /\ "be" \in Class
  BY DEF Rcv, Class
<1>2. /\ pend[s]["vo"] \in Seq(For(s)) /\ pend[s]["be"] \in Seq(For(s))
      /\ pend[Bmc]["be"] \in Seq(For(Bmc))
  BY <1>1, WaitingFor
<1> QED
  BY <1>2, TriggeredList, ConcatProperties DEF Moved

LEMMA RxDozeIInv ==
  ASSUME IInv, NEW s \in Sta, NEW t \in BOOLEAN, RxDoze(s, t)
  PROVE  IInv'
<1>1. PICK mine : mine = Moved(s)
  OBVIOUS
<1>2. PICK mc : mc = Untriggered(pend[Bmc]["be"])
  OBVIOUS
<1>3. /\ sleep' = sleep \cup {s}
      /\ Races \/ dz' = dz \cup {s} \cup (IF mc # << >> THEN {Bmc} ELSE {})
      /\ sleepq' = [sleepq EXCEPT ![s] = @ \o mine, ![Bmc] = @ \o mc]
      /\ len' = [len EXCEPT ![s] = @ + Len(mine), ![Bmc] = @ + Len(mc)]
      /\ aclen' = [aclen EXCEPT ![s] = @ + NrEnabled(mine)]
      /\ rx' = RxNext(s, t)
      /\ UNCHANGED <<uapsd, tx, cmd, frames, mcasts>>
  BY <1>1, <1>2 DEF RxDoze, Lands
<1>4. pend' = [pend EXCEPT ![s] = [a \in Class |-> Triggered(@[a])],
                           ![Bmc]["be"] = ForHiq(Triggered(@))]
  BY DEF RxDoze
<1>5. s \in Rcv /\ Bmc \in Rcv /\ s # Bmc
  BY ApSleepAssumption DEF Rcv
<1>6. mine \in Seq(For(s)) /\ mc \in Seq(For(Bmc)) /\ Len(mine) \in Nat /\ Len(mc) \in Nat
  BY <1>1, <1>2, MovedLists, LenProperties DEF IInv
<1>7. Waiting'
  <2>1. ASSUME NEW r \in Rcv, NEW a \in Class
        PROVE  /\ Triggered(pend[r][a]) \in Seq(For(r))
               /\ Triggered(pend[r][a]) \in Seq(Frame)
               /\ ForHiq(Triggered(pend[r][a])) \in Seq(For(r))
               /\ ForHiq(Triggered(pend[r][a])) \in Seq(Frame)
    <3>1. /\ Triggered(pend[r][a]) \in Seq(For(r))
          /\ Triggered(pend[r][a]) \in Seq(Frame)
      BY WaitingFor, TriggeredList DEF IInv
    <3>2. ForHiq(Triggered(pend[r][a])) \in Seq(For(r))
      BY <3>1, ForHiqList
    <3> QED
      BY <3>1, <3>2, ForFrames, SeqMonotonic
  <2>2. ASSUME NEW r \in Rcv, NEW a \in Class
        PROVE  pend'[r][a] = IF r = s \/ (r = Bmc /\ a = "be")
                               THEN IF r = s THEN Triggered(pend[r][a])
                                             ELSE ForHiq(Triggered(pend[r][a]))
                               ELSE pend[r][a]
    BY <1>4, <1>5 DEF IInv, Waiting
  <2>3. \A r \in Rcv : \A a \in Class : pend'[r][a] \in Seq(For(r))
    BY <2>1, <2>2 DEF IInv, Waiting
  <2>4. [a \in Class |-> Triggered(pend[s][a])] \in [Class -> Seq(Frame)]
    BY <1>5, <2>1
  <2>5. "be" \in Class /\ ForHiq(Triggered(pend[Bmc]["be"])) \in Seq(Frame)
    BY <1>5, <2>1 DEF Class
  <2>6. pend' \in [Rcv -> [Class -> Seq(Frame)]]
    BY <1>4, <1>5, <2>4, <2>5 DEF IInv, Waiting
  <2> QED
    BY <2>3, <2>6 DEF Waiting
<1>8. Lists'
  <2>1. aclen' \in [Rcv -> Int] /\ len' \in [Rcv -> Int]
    <3>1. NrEnabled(mine) \in Nat
      BY <1>6, AtFinite DEF NrEnabled, EnabledAt
    <3>2. /\ aclen[s] + NrEnabled(mine) \in Int
          /\ len[s] + Len(mine) \in Int /\ len[Bmc] + Len(mc) \in Int
      BY <1>5, <1>6, <3>1 DEF IInv, Lists
    <3>3. aclen \in [Rcv -> Int] /\ len \in [Rcv -> Int]
      BY DEF IInv, Lists
    <3> QED
      BY <1>3, <1>5, <3>2, <3>3
  <2>2. ASSUME NEW r \in Rcv
        PROVE  sleepq'[r] \in Seq(For(r)) /\ len'[r] = Len(sleepq'[r])
    <3>1. sleepq[r] \in Seq(For(r)) /\ len[r] = Len(sleepq[r])
      BY DEF IInv, Lists
    <3>2. CASE r = s
      <4>1. sleepq'[r] = sleepq[r] \o mine /\ len'[r] = len[r] + Len(mine)
        BY <1>3, <1>5, <3>2 DEF IInv, Lists
      <4> QED
        BY <1>6, <3>1, <3>2, <4>1, ConcatProperties
    <3>3. CASE r = Bmc
      <4>1. sleepq'[r] = sleepq[r] \o mc /\ len'[r] = len[r] + Len(mc)
        BY <1>3, <1>5, <3>3 DEF IInv, Lists
      <4> QED
        BY <1>6, <3>1, <3>3, <4>1, ConcatProperties
    <3>4. CASE r # s /\ r # Bmc
      <4>1. sleepq'[r] = sleepq[r] /\ len'[r] = len[r]
        BY <1>3, <1>5, <3>4 DEF IInv, Lists
      <4> QED
        BY <3>1, <4>1
    <3> QED
      BY <3>2, <3>3, <3>4
  <2> QED
    BY <1>3, <2>1, <2>2 DEF IInv, Lists
<1>9. Asleep'
  <2>1. ASSUME ~Races, NEW r \in Sta, sleepq'[r] # << >> PROVE r \in sleep' \cap dz'
    <3>1. CASE r = s
      BY <1>3, <2>1, <3>1
    <3>2. CASE r # s
      <4>1. r \in Rcv /\ r # Bmc
        BY ApSleepAssumption DEF Rcv
      <4>2. sleepq'[r] = sleepq[r]
        BY <1>3, <1>5, <3>2, <4>1 DEF IInv, Lists
      <4> QED
        BY <1>3, <2>1, <4>2 DEF IInv, Asleep, HeldOnlyAsleep
    <3> QED
      BY <3>1, <3>2
  <2> QED
    BY <2>1 DEF Asleep, HeldOnlyAsleep
<1>10. Receiver' /\ NextIsLinked'
  BY <1>3, RxNextOK
<1> QED
  BY <1>3, <1>7, <1>8, <1>9, <1>10 DEF IInv, Senders, Commands

LEMMA NextIInv == IInv /\ [Next]_vars => IInv'
<1> SUFFICES ASSUME IInv, [Next]_vars PROVE IInv'
  OBVIOUS
<1>1. CASE \E a \in Traffic : TxNext(a) \/ \E r \in Rcv : TxStart(a, r) \/ Dequeue(r, a)
  <2>1. PICK a \in Traffic : TxNext(a) \/ \E r \in Rcv : TxStart(a, r) \/ Dequeue(r, a)
    BY <1>1
  <2>2. a \in Class
    BY ApSleepAssumption
  <2> QED
    BY <2>1, <2>2, TxStartIInv, TxSleepsIInv, TxMcastSleepsIInv, TxAwakeIInv, TxHalIInv,
       DequeueIInv DEF TxNext
<1>2. CASE \E s \in Sta, t \in BOOLEAN : RxDoze(s, t) \/ RxSame(s, t) \/ RxWake(s, t)
  BY <1>2, RxDozeIInv, RxSameIInv, RxWakeIInv
<1>3. CASE \E s \in Sta : RxPoll(s) \/ AliveCheck(s)
  BY <1>3, RxPollIInv, CmdStepIInv
<1>4. CASE RxStep
  BY <1>4, WakeTakeIInv, WakeHalIInv, WakeEndIInv, WakeMcastIInv, WakeDoneIInv,
     RxTriggerIInv, DeliverIInv, DeliveredIInv DEF RxStep
<1>5. CASE CmdStep \/ CmdBeaconFails \/ HiqComplete \/ ChipDtim
  BY <1>5, CmdStepIInv
<1>6. CASE UNCHANGED vars
  BY <1>6 DEF vars, bits, queues, pending, count, IInv, Lists, Waiting, Senders, Commands,
     Receiver, NextIsLinked, Asleep, HeldOnlyAsleep
<1> QED
  BY <1>1, <1>2, <1>3, <1>4, <1>5, <1>6 DEF Next

LEMMA ApSleepInvariant == Spec => []IInv
BY InitIInv, NextIInv, PTL DEF Spec

(***************************************************************************)
(* wakeup_sta_to_xmit against rtw_xmit: for any number of stations and     *)
(* frames, a frame is held back only for a station that counts as dozing,  *)
(* also one that arrives while the loop has dropped the lock; where no two *)
(* contexts update sta_dz_bitmap at the same moment.                       *)
(***************************************************************************)
THEOREM SleepHeldOnlyAsleep ==
  ASSUME ~Races
  PROVE  Spec => []HeldOnlyAsleep
<1>1. IInv => HeldOnlyAsleep
  BY DEF IInv, Asleep
<1> QED
  BY <1>1, ApSleepInvariant, PTL

-----------------------------------------------------------------------------
(***************************************************************************)
(* sleepq_ac_len.  validate_recv_ctrl_frame takes the first frame of any   *)
(* class and lowers sleepq_len only; it is reached where best effort is    *)
(* not delivery enabled, so that the count is right as long as no other    *)
(* class is then.                                                          *)
(***************************************************************************)
PollsCountNothing == \A u \in Offers : "be" \in u \/ u = {}

EnabledFrames == {f \in Frame : Uapsd(f.ra, f.ac)}

CountedIn(s) == aclen[s] = Cardinality(At(sleepq[s], EnabledFrames))

AInv == \A s \in Sta : CountedIn(s)

LEMMA EnabledIsAt ==
  ASSUME NEW q \in Seq(Frame)
  PROVE  EnabledAt(q) = At(q, EnabledFrames) /\ NrEnabled(q) = Cardinality(At(q, EnabledFrames))
<1>1. DOMAIN q = 1 .. Len(q) /\ \A i \in 1 .. Len(q) : q[i] \in Frame
  BY LenProperties, ElementOfSeq
<1>2. EnabledAt(q) = At(q, EnabledFrames)
  BY <1>1 DEF EnabledAt, At, EnabledFrames
<1> QED
  BY <1>2 DEF NrEnabled

\* The lists of the stations are as before.
LEMMA SameCount ==
  ASSUME AInv, uapsd' = uapsd, aclen' = aclen, \A s \in Sta : sleepq'[s] = sleepq[s]
  PROVE  AInv'
BY DEF AInv, CountedIn, EnabledFrames, Uapsd

\* The list of one station changes, and the count with it.
LEMMA OneCount ==
  ASSUME Lists, AInv, uapsd' = uapsd, NEW s \in Sta, NEW q, NEW n \in Int,
         \A r \in Sta \ {s} : sleepq'[r] = sleepq[r],
         sleepq'[s] = q, aclen' = [aclen EXCEPT ![s] = n],
         n = Cardinality(At(q, EnabledFrames))
  PROVE  AInv'
<1>1. EnabledFrames' = EnabledFrames
  BY DEF EnabledFrames, Uapsd
<1>2. ASSUME NEW r \in Sta
      PROVE  aclen'[r] = Cardinality(At(sleepq'[r], EnabledFrames))
  <2>1. r \in Rcv /\ s \in Rcv /\ DOMAIN aclen = Rcv
    BY DEF Rcv, Lists
  <2>2. CASE r = s
    BY <2>1, <2>2
  <2>3. CASE r # s
    BY <2>1, <2>3 DEF AInv, CountedIn
  <2> QED
    BY <2>2, <2>3
<1> QED
  BY <1>1, <1>2 DEF AInv, CountedIn

LEMMA EnabledCard ==
  ASSUME Lists, NEW r \in Rcv
  PROVE  Cardinality(At(sleepq[r], EnabledFrames)) \in Nat
<1>1. sleepq[r] \in Seq(Frame)
  BY FramesOfLists
<1> QED
  BY <1>1, AtFinite DEF At

\* A frame of a station's list.
LEMMA EnabledFrame ==
  ASSUME NEW s \in Sta, NEW f \in For(s)
  PROVE  f \in EnabledFrames <=> Uapsd(s, f.ac)
<1>1. f \in Frame /\ f.ra = s
  BY ForFrames DEF For, Rcv
<1> QED
  BY <1>1 DEF EnabledFrames

LEMMA UnlinkCount ==
  ASSUME Lists, NEW s \in Sta, NEW f \in Linked(sleepq[s])
  PROVE  Cardinality(At(Unlink(sleepq[s], f), EnabledFrames)) =
           Cardinality(At(sleepq[s], EnabledFrames)) - (IF Uapsd(s, f.ac) THEN 1 ELSE 0)
<1>1. s \in Rcv
  BY DEF Rcv
<1>2. PICK i : i = Position(sleepq[s], f)
  OBVIOUS
<1>3. f \in For(s) /\ i \in DOMAIN sleepq[s] /\ sleepq[s][i] = f
  BY <1>1, <1>2, UnlinkProperties
<1>4. sleepq[s] \in Seq(For(s))
  BY <1>1, FramesOfLists
<1>5. Cardinality(At(RemoveAt(sleepq[s], i), EnabledFrames)) =
        Cardinality(At(sleepq[s], EnabledFrames)) - (IF f \in EnabledFrames THEN 1 ELSE 0)
  BY <1>3, <1>4, CountRemove
<1>6. f \in EnabledFrames <=> Uapsd(s, f.ac)
  BY <1>3, EnabledFrame
<1> QED
  BY <1>2, <1>5, <1>6 DEF Unlink

LEMMA TxSleepsCount ==
  ASSUME IInv, AInv, NEW a \in Class, TxSleeps(a)
  PROVE  AInv'
<1>1. PICK f : f = tx[a].f
  OBVIOUS
<1>2. PICK s : s = f.ra
  OBVIOUS
<1>3. f \in Frame /\ s \in Sta /\ s \in Rcv /\ f \in For(s) /\ f.ac = a
  BY <1>1, <1>2, ForFrames DEF TxSleeps, IInv, Senders, Lists, Rcv
<1>4. /\ sleepq' = [sleepq EXCEPT ![s] = Append(@, f)]
      /\ aclen' = [aclen EXCEPT ![s] = @ + (IF Uapsd(s, a) THEN 1 ELSE 0)]
      /\ uapsd' = uapsd
  BY <1>1, <1>2 DEF TxSleeps
<1>5. sleepq[s] \in Seq(For(s)) /\ DOMAIN sleepq = Rcv
  BY <1>3 DEF IInv, Lists
<1>6. Cardinality(At(Append(sleepq[s], f), EnabledFrames)) =
        Cardinality(At(sleepq[s], EnabledFrames)) + (IF f \in EnabledFrames THEN 1 ELSE 0)
  BY <1>3, <1>5, CountAppend
<1>7. f \in EnabledFrames <=> Uapsd(s, a)
  BY <1>3, EnabledFrame
<1>8. aclen[s] = Cardinality(At(sleepq[s], EnabledFrames)) /\ aclen[s] \in Int
  BY <1>3 DEF IInv, Lists, AInv, CountedIn
<1>9. PICK n : n = aclen[s] + (IF Uapsd(s, a) THEN 1 ELSE 0)
  OBVIOUS
<1>10. /\ n \in Int /\ aclen' = [aclen EXCEPT ![s] = n]
       /\ n = Cardinality(At(Append(sleepq[s], f), EnabledFrames))
  BY <1>4, <1>6, <1>7, <1>8, <1>9
<1>11. /\ sleepq'[s] = Append(sleepq[s], f)
       /\ \A r \in Sta \ {s} : sleepq'[r] = sleepq[r]
  BY <1>3, <1>4, <1>5 DEF Rcv
<1> QED
  BY <1>3, <1>4, <1>10, <1>11, OneCount DEF IInv

LEMMA WakeTakeCount ==
  ASSUME IInv, AInv, WakeTake
  PROVE  AInv'
<1>1. PICK s : s = rx.s
  OBVIOUS
<1>2. PICK f : f = WakeNext(s)
  OBVIOUS
<1>3. s \in Sta /\ s \in Rcv /\ f \in Linked(sleepq[s])
  BY <1>1, <1>2, WakeNextLinked DEF WakeTake
<1>4. /\ sleepq' = [sleepq EXCEPT ![s] = Unlink(@, f)]
      /\ aclen' = [aclen EXCEPT ![s] = @ - (IF Uapsd(s, f.ac) THEN 1 ELSE 0)]
      /\ uapsd' = uapsd
  BY <1>1, <1>2 DEF WakeTake, bits
<1>5. Cardinality(At(Unlink(sleepq[s], f), EnabledFrames)) =
        Cardinality(At(sleepq[s], EnabledFrames)) - (IF Uapsd(s, f.ac) THEN 1 ELSE 0)
  BY <1>3, UnlinkCount DEF IInv
<1>6. aclen[s] = Cardinality(At(sleepq[s], EnabledFrames)) /\ aclen[s] \in Int
  BY <1>3 DEF IInv, Lists, AInv, CountedIn
<1>7. PICK n : n = aclen[s] - (IF Uapsd(s, f.ac) THEN 1 ELSE 0)
  OBVIOUS
<1>8. /\ n \in Int /\ aclen' = [aclen EXCEPT ![s] = n]
      /\ n = Cardinality(At(Unlink(sleepq[s], f), EnabledFrames))
  BY <1>4, <1>5, <1>6, <1>7
<1>9. /\ sleepq'[s] = Unlink(sleepq[s], f)
      /\ \A r \in Sta \ {s} : sleepq'[r] = sleepq[r]
  BY <1>3, <1>4 DEF IInv, Lists, Rcv
<1> QED
  BY <1>3, <1>4, <1>8, <1>9, OneCount DEF IInv

LEMMA DeliverCount ==
  ASSUME IInv, AInv, Deliver
  PROVE  AInv'
<1>1. PICK s : s = rx.s
  OBVIOUS
<1>2. PICK f : f = sleepq[s][Nth(EnabledAt(sleepq[s]), 1)]
  OBVIOUS
<1>3. s \in Sta /\ s \in Rcv /\ EnabledAt(sleepq[s]) # {}
  BY <1>1 DEF Deliver, IInv, Receiver, Rcv
<1>4. f \in Linked(sleepq[s]) /\ Uapsd(s, f.ac)
  <2> DEFINE I == EnabledAt(sleepq[s])
  <2>1. I \in SUBSET (DOMAIN sleepq[s])
    BY DEF EnabledAt
  <2>2. IsFiniteSet(I) /\ Cardinality(I) \in Nat /\ I \in SUBSET Nat
    BY <1>3, <2>1, AtFinite, FramesOfLists DEF IInv
  <2>3. Cardinality(I) # 0
    BY <1>3, <2>2, FS_EmptySet
  <2>4. 1 \in 1 .. Cardinality(I)
    BY <2>2, <2>3
  <2>5. Nth(I, 1) \in I
    BY <2>2, <2>4, NthPosition
  <2>6. f \in Linked(sleepq[s]) /\ Uapsd(f.ra, f.ac)
    BY <1>2, <2>1, <2>5 DEF Linked, EnabledAt
  <2>7. f \in For(s)
    BY <1>3, <2>6, UnlinkProperties DEF IInv
  <2> QED
    BY <2>6, <2>7 DEF For
<1>5. /\ sleepq' = [sleepq EXCEPT ![s] = Unlink(@, f)]
      /\ aclen' = [aclen EXCEPT ![s] = @ - 1]
      /\ uapsd' = uapsd
  BY <1>1, <1>2 DEF Deliver
<1>6. Cardinality(At(Unlink(sleepq[s], f), EnabledFrames)) =
        Cardinality(At(sleepq[s], EnabledFrames)) - 1
  BY <1>3, <1>4, UnlinkCount DEF IInv
<1>7. aclen[s] = Cardinality(At(sleepq[s], EnabledFrames)) /\ aclen[s] \in Int
  BY <1>3 DEF IInv, Lists, AInv, CountedIn
<1>8. PICK n : n = aclen[s] - 1
  OBVIOUS
<1>9. /\ n \in Int /\ aclen' = [aclen EXCEPT ![s] = n]
      /\ n = Cardinality(At(Unlink(sleepq[s], f), EnabledFrames))
  BY <1>5, <1>6, <1>7, <1>8
<1>10. /\ sleepq'[s] = Unlink(sleepq[s], f)
       /\ \A r \in Sta \ {s} : sleepq'[r] = sleepq[r]
  BY <1>3, <1>5 DEF IInv, Lists, Rcv
<1> QED
  BY <1>3, <1>5, <1>9, <1>10, OneCount DEF IInv

\* No frame of a station without U-APSD is delivery enabled.
LEMMA RxPollCount ==
  ASSUME PollsCountNothing, IInv, AInv, NEW s \in Sta, RxPoll(s)
  PROVE  AInv'
<1>1. uapsd' = uapsd /\ aclen' = aclen /\ "be" \notin uapsd[s]
  BY DEF RxPoll
<1>2. uapsd[s] = {}
  BY <1>1 DEF PollsCountNothing, IInv, Lists
<1>3. ASSUME NEW q \in Seq(For(s)) PROVE At(q, EnabledFrames) = {}
  <2>1. \A i \in DOMAIN q : q[i] \in For(s)
    BY LenProperties, ElementOfSeq
  <2>2. \A f \in For(s) : f \notin EnabledFrames
    BY <1>2, EnabledFrame DEF Uapsd
  <2> QED
    BY <2>1, <2>2 DEF At
<1>4. s \in Rcv /\ DOMAIN sleepq = Rcv /\ sleepq[s] \in Seq(For(s))
  BY DEF IInv, Lists, Rcv
<1>5. /\ \A r \in Sta \ {s} : sleepq'[r] = sleepq[r]
      /\ sleepq'[s] = sleepq[s] \/ (sleepq[s] # << >> /\ sleepq'[s] = Tail(sleepq[s]))
  BY <1>4 DEF RxPoll, Rcv
<1>6. sleepq'[s] \in Seq(For(s))
  <2>1. ASSUME sleepq[s] # << >> PROVE Tail(sleepq[s]) \in Seq(For(s))
    BY <1>4, <2>1, HeadTailProperties
  <2> QED
    BY <1>4, <1>5, <2>1
<1>7. At(sleepq'[s], EnabledFrames) = {} /\ At(sleepq[s], EnabledFrames) = {}
  BY <1>3, <1>4, <1>6
<1>8. aclen[s] = Cardinality(At(sleepq'[s], EnabledFrames)) /\ aclen[s] \in Int
  BY <1>4, <1>7 DEF AInv, CountedIn, IInv, Lists
<1>9. aclen' = [aclen EXCEPT ![s] = aclen[s]]
  BY <1>1, <1>4 DEF IInv, Lists
<1>10. PICK q : q = sleepq'[s]
  OBVIOUS
<1>11. PICK n : n = aclen[s]
  OBVIOUS
<1>12. n \in Int /\ aclen' = [aclen EXCEPT ![s] = n] /\ n = Cardinality(At(q, EnabledFrames))
  BY <1>8, <1>9, <1>10, <1>11
<1>13. Lists
  BY DEF IInv
<1> QED
  BY <1>1, <1>5, <1>10, <1>12, <1>13, OneCount

LEMMA RxDozeCount ==
  ASSUME IInv, AInv, NEW s \in Sta, NEW t \in BOOLEAN, RxDoze(s, t)
  PROVE  AInv'
<1>1. PICK mine : mine = Moved(s)
  OBVIOUS
<1>2. PICK mc : mc = Untriggered(pend[Bmc]["be"])
  OBVIOUS
<1>3. /\ sleepq' = [sleepq EXCEPT ![s] = @ \o mine, ![Bmc] = @ \o mc]
      /\ aclen' = [aclen EXCEPT ![s] = @ + NrEnabled(mine)]
      /\ uapsd' = uapsd
  BY <1>1, <1>2 DEF RxDoze
<1>4. s \in Rcv /\ Bmc \in Rcv /\ s # Bmc /\ Bmc \notin Sta
  BY ApSleepAssumption DEF Rcv
<1>5. mine \in Seq(Frame)
  BY <1>1, <1>4, MovedLists, ForFrames, SeqMonotonic DEF IInv
<1>6. sleepq[s] \in Seq(Frame) /\ DOMAIN sleepq = Rcv
  BY <1>4, FramesOfLists DEF IInv, Lists
<1>7. Cardinality(At(sleepq[s] \o mine, EnabledFrames)) =
        Cardinality(At(sleepq[s], EnabledFrames)) + Cardinality(At(mine, EnabledFrames))
  BY <1>5, <1>6, CountConcat
<1>8. NrEnabled(mine) = Cardinality(At(mine, EnabledFrames)) /\ NrEnabled(mine) \in Nat
  <2>1. NrEnabled(mine) = Cardinality(At(mine, EnabledFrames))
    BY <1>5, EnabledIsAt
  <2>2. Cardinality(At(mine, EnabledFrames)) \in Nat
    BY <1>5, AtFinite DEF At
  <2> QED
    BY <2>1, <2>2
<1>9. aclen[s] = Cardinality(At(sleepq[s], EnabledFrames)) /\ aclen[s] \in Int
  BY <1>4 DEF IInv, Lists, AInv, CountedIn
<1>10. PICK n : n = aclen[s] + NrEnabled(mine)
  OBVIOUS
<1>11. /\ n \in Int /\ aclen' = [aclen EXCEPT ![s] = n]
       /\ n = Cardinality(At(sleepq[s] \o mine, EnabledFrames))
  BY <1>3, <1>7, <1>8, <1>9, <1>10
<1>12. /\ sleepq'[s] = sleepq[s] \o mine
       /\ \A r \in Sta \ {s} : sleepq'[r] = sleepq[r]
  BY <1>3, <1>4, <1>6 DEF Rcv
<1> QED
  BY <1>3, <1>11, <1>12, OneCount DEF IInv

\* The steps that leave the lists of stations alone.
LEMMA OtherCount ==
  ASSUME IInv, AInv,
         \/ TxMcastSleeps("be") \/ TxMcastSleeps("vo") \/ WakeMcast \/ CmdTake
         \/ UNCHANGED <<uapsd, queues>>
  PROVE  AInv'
<1>1. uapsd' = uapsd /\ aclen' = aclen
  BY DEF TxMcastSleeps, WakeMcast, CmdTake, bits, queues
<1>2. DOMAIN sleepq = Rcv /\ \A s \in Sta : s \in Rcv /\ s # Bmc
  BY ApSleepAssumption DEF IInv, Lists, Rcv
<1>3. \/ \E q : sleepq' = [sleepq EXCEPT ![Bmc] = q]
      \/ sleepq' = sleepq
  BY DEF TxMcastSleeps, WakeMcast, CmdTake, queues
<1>4. \A s \in Sta : sleepq'[s] = sleepq[s]
  BY <1>2, <1>3
<1> QED
  BY <1>1, <1>4, SameCount

LEMMA NextAInv ==
  ASSUME PollsCountNothing
  PROVE  IInv /\ AInv /\ [Next]_vars => AInv'
<1> SUFFICES ASSUME IInv, AInv, [Next]_vars PROVE AInv'
  OBVIOUS
<1>1. CASE \E a \in Traffic : TxNext(a) \/ \E r \in Rcv : TxStart(a, r) \/ Dequeue(r, a)
  <2>1. PICK a \in Traffic : TxNext(a) \/ \E r \in Rcv : TxStart(a, r) \/ Dequeue(r, a)
    BY <1>1
  <2>2. a \in Class /\ (a = "vo" \/ a = "be")
    BY ApSleepAssumption DEF Class
  <2>3. CASE TxSleeps(a)
    BY <2>2, <2>3, TxSleepsCount
  <2>4. CASE TxMcastSleeps(a)
    BY <2>2, <2>4, OtherCount
  <2>5. CASE TxAwake(a) \/ TxHal(a) \/ \E r \in Rcv : TxStart(a, r) \/ Dequeue(r, a)
    <3>1. UNCHANGED <<uapsd, queues>>
      BY <2>5 DEF TxAwake, TxHal, TxStart, Dequeue, bits
    <3> QED
      BY <3>1, OtherCount
  <2> QED
    BY <2>1, <2>3, <2>4, <2>5 DEF TxNext
<1>2. CASE \E s \in Sta, t \in BOOLEAN : RxDoze(s, t) \/ RxSame(s, t) \/ RxWake(s, t)
  <2>1. PICK s \in Sta, t \in BOOLEAN : RxDoze(s, t) \/ RxSame(s, t) \/ RxWake(s, t)
    BY <1>2
  <2>2. CASE RxDoze(s, t)
    BY <2>2, RxDozeCount
  <2>3. CASE RxSame(s, t) \/ RxWake(s, t)
    <3>1. UNCHANGED <<uapsd, queues>>
      BY <2>3 DEF RxSame, RxWake, bits
    <3> QED
      BY <3>1, OtherCount
  <2> QED
    BY <2>1, <2>2, <2>3
<1>3. CASE \E s \in Sta : RxPoll(s)
  BY <1>3, RxPollCount
<1>4. CASE \E s \in Sta : AliveCheck(s)
  BY <1>4, OtherCount DEF AliveCheck
<1>5. CASE RxStep
  <2>1. CASE WakeTake
    BY <2>1, WakeTakeCount
  <2>2. CASE Deliver
    BY <2>2, DeliverCount
  <2>3. CASE WakeMcast
    BY <2>3, OtherCount
  <2>4. CASE WakeHal \/ WakeEnd \/ WakeDone \/ RxTrigger \/ Delivered
    <3>1. UNCHANGED <<uapsd, queues>>
      BY <2>4 DEF WakeHal, WakeEnd, WakeDone, RxTrigger, Delivered, bits
    <3> QED
      BY <3>1, OtherCount
  <2> QED
    BY <1>5, <2>1, <2>2, <2>3, <2>4 DEF RxStep
<1>6. CASE CmdStep \/ CmdBeaconFails \/ HiqComplete \/ ChipDtim
  <2>1. CASE CmdTake
    BY <2>1, OtherCount
  <2>2. CASE ~CmdTake
    <3>1. UNCHANGED <<uapsd, queues>>
      BY <1>6, <2>2 DEF CmdStep, CmdBeacon, CmdHal, CmdSent, CmdChkHiq, CmdHiqEmpty,
         CmdHiqBusy, CmdBeaconFails, HiqComplete, ChipDtim, bits
    <3> QED
      BY <3>1, OtherCount
  <2> QED
    BY <2>1, <2>2
<1>7. CASE UNCHANGED vars
  BY <1>7, OtherCount DEF vars, bits
<1> QED
  BY <1>1, <1>2, <1>3, <1>4, <1>5, <1>6, <1>7 DEF Next

LEMMA InitAInv == Init => AInv
<1> SUFFICES ASSUME Init, NEW s \in Sta PROVE CountedIn(s)
  BY DEF AInv
<1>1. aclen[s] = 0 /\ sleepq[s] = << >>
  BY DEF Init, Rcv
<1>2. At(<< >>, EnabledFrames) = {}
  BY DEF At
<1> QED
  BY <1>1, <1>2, FS_EmptySet DEF CountedIn

(***************************************************************************)
(* sleepq_len and sleepq_ac_len count the frames of their list, for any    *)
(* number of stations and frames, although frames are taken in the middle  *)
(* of the list, in loops that drop its lock, and by PS-Poll under another  *)
(* lock; where a station that enables a class enables best effort too.     *)
(***************************************************************************)
THEOREM SleepCounted ==
  ASSUME \A u \in Offers : "be" \in u \/ u = {}
  PROVE  Spec => []SleepqCounted
<1>1. IInv /\ AInv => SleepqCounted
  <2>1. SUFFICES ASSUME IInv, AInv, NEW r \in Rcv
                 PROVE  /\ len[r] = Len(sleepq[r])
                        /\ r # Bmc => aclen[r] = NrEnabled(sleepq[r])
    BY DEF SleepqCounted
  <2>2. len[r] = Len(sleepq[r])
    BY <2>1 DEF IInv, Lists
  <2>3. sleepq[r] \in Seq(Frame)
    BY <2>1, FramesOfLists DEF IInv
  <2>4. ASSUME r # Bmc PROVE aclen[r] = NrEnabled(sleepq[r])
    <3>1. r \in Sta
      BY <2>1, <2>4 DEF Rcv
    <3> QED
      BY <2>1, <2>3, <3>1, EnabledIsAt DEF AInv, CountedIn
  <2> QED
    BY <2>2, <2>4
<1>2. PollsCountNothing
  BY DEF PollsCountNothing
<1>3. IInv /\ AInv /\ [Next]_vars => AInv'
  BY <1>2, NextAInv
<1> QED
  BY <1>1, <1>3, InitIInv, InitAInv, NextIInv, PTL DEF Spec

-----------------------------------------------------------------------------
(***************************************************************************)
(* The beacon.  For stations that enable every class or none, each frame   *)
(* held for a station is announced.  hwtim follows ietim through the       *)
(* command queue (Loaded), ietim follows tim_bitmap but for a station that *)
(* wakeup_sta_to_xmit has just declared awake (Ending), and tim_bitmap     *)
(* shows the stations with frames, those that are probed and one whose     *)
(* frames wakeup_sta_to_xmit is sending (Waking).                          *)
(***************************************************************************)
AllOrNothing == Offers \subseteq {{}, Class}

HasCmd(q, c) == \E i \in DOMAIN q : q[i] = c

Ending(s) == rx.upd /\ rx.s = s /\ rx.pc \in {"bmc", "mhal", "mrelock"}
Waking(s) == rx.s = s /\ rx.pc \in {"wake", "hal", "relock"}

Loaded ==
  /\ cmdq \in Seq({"bcn", "hiq"})
  /\ ~lost /\ ~HasCmd(cmdq, "bcn") => hwtim = ietim

Told(s) == (s \in ietim <=> s \in tim) \/ Ending(s)
Awake(s) == Ending(s) => s \notin tim /\ s \notin sleep
Dozing(s) ==
  /\ s \in dz <=> s \in sleep
  /\ s \in alive => s \in sleep
  /\ s \in tim => s \in sleep
Shown(s) == sleepq[s] # << >> => s \in tim
OnlyHeld(s) == s \in tim => sleepq[s] # << >> \/ s \in alive \/ Waking(s)

Station(s) == Told(s) /\ Awake(s) /\ Dozing(s) /\ Shown(s) /\ OnlyHeld(s)

BInv == ~Races /\ Loaded /\ \A s \in Sta : Station(s)

LEMMA InitBInv == ~Races /\ Init => BInv
<1> SUFFICES ASSUME ~Races, Init PROVE BInv
  OBVIOUS
<1>1. Loaded
  BY DEF Init, Loaded
<1>2. ASSUME NEW s \in Sta PROVE Station(s)
  <2>1. /\ ietim = {} /\ tim = {} /\ dz = {} /\ sleep = {} /\ alive = {}
        /\ sleepq[s] = << >> /\ ~rx.upd
    BY DEF Init, Rcv, RxIdle
  <2> QED
    BY <2>1, Zenon DEF Station, Told, Awake, Dozing, Shown, OnlyHeld, Ending
<1> QED
  BY <1>1, <1>2 DEF BInv

\* Every frame of a station is one the TIM speaks of.
LEMMA AllAnnounced ==
  ASSUME AllOrNothing, Lists, NEW s \in Sta, NEW f \in For(s)
  PROVE  Announced(f)
<1>1. f.ra = s /\ f.ac \in Class
  BY DEF For
<1>2. uapsd[s] = {} \/ uapsd[s] = Class
  BY DEF AllOrNothing, Lists
<1>3. {} # Class
  BY DEF Class
<1> QED
  BY <1>1, <1>2, <1>3 DEF Announced, HasLegacyAc, Uapsd

\* Commands are added at the end, and a beacon is loaded once it is taken.
LEMMA AppendCmd ==
  ASSUME NEW q \in Seq({"bcn", "hiq"}), NEW c \in {"bcn", "hiq"}
  PROVE  /\ Append(q, c) \in Seq({"bcn", "hiq"})
         /\ HasCmd(Append(q, c), c)
         /\ \A d : HasCmd(q, d) => HasCmd(Append(q, c), d)
         /\ \A d : HasCmd(Append(q, c), d) => HasCmd(q, d) \/ d = c
<1>1. PICK p : p = Append(q, c)
  OBVIOUS
<1>2. /\ p \in Seq({"bcn", "hiq"}) /\ Len(p) = Len(q) + 1 /\ p[Len(q) + 1] = c
      /\ \A i \in 1 .. Len(q) : p[i] = q[i]
  BY <1>1, AppendProperties
<1>3. Len(q) \in Nat /\ DOMAIN q = 1 .. Len(q) /\ DOMAIN p = 1 .. (Len(q) + 1)
  BY <1>2, LenProperties
<1>4. Len(q) + 1 \in DOMAIN p
  BY <1>3
<1>5. ASSUME NEW i \in DOMAIN q PROVE i \in DOMAIN p /\ p[i] = q[i]
  BY <1>2, <1>3
<1>6. ASSUME NEW i \in DOMAIN p PROVE i \in DOMAIN q \/ i = Len(q) + 1
  BY <1>3
<1>7. HasCmd(p, c)
  BY <1>2, <1>4 DEF HasCmd
<1>8. ASSUME NEW d, HasCmd(q, d) PROVE HasCmd(p, d)
  BY <1>5, <1>8 DEF HasCmd
<1>9. ASSUME NEW d, HasCmd(p, d) PROVE HasCmd(q, d) \/ d = c
  BY <1>2, <1>5, <1>6, <1>9, Zenon DEF HasCmd
<1> QED
  BY <1>1, <1>2, <1>7, <1>8, <1>9

LEMMA TailCmd ==
  ASSUME NEW q \in Seq({"bcn", "hiq"}), q # << >>
  PROVE  /\ Tail(q) \in Seq({"bcn", "hiq"})
         /\ \A d : HasCmd(q, d) => d = Head(q) \/ HasCmd(Tail(q), d)
         /\ \A d : HasCmd(Tail(q), d) => HasCmd(q, d)
         /\ HasCmd(q, Head(q))
<1>1. PICK p : p = Tail(q)
  OBVIOUS
<1>2. /\ p \in Seq({"bcn", "hiq"}) /\ Len(p) = Len(q) - 1
      /\ \A i \in 1 .. Len(p) : p[i] = q[i + 1]
  BY <1>1, HeadTailProperties
<1>3. Len(q) \in Nat /\ DOMAIN q = 1 .. Len(q) /\ DOMAIN p = 1 .. (Len(q) - 1) /\ Len(q) # 0
  BY <1>2, LenProperties, EmptySeq
<1>4. Head(q) = q[1] /\ 1 \in DOMAIN q
  BY <1>3
<1>5. ASSUME NEW i \in DOMAIN q, i # 1 PROVE i - 1 \in DOMAIN p /\ p[i - 1] = q[i]
  <2>1. i - 1 \in 1 .. Len(p) /\ (i - 1) + 1 = i
    BY <1>2, <1>3, <1>5
  <2> QED
    BY <1>2, <1>3, <2>1
<1>6. ASSUME NEW i \in DOMAIN p PROVE i + 1 \in DOMAIN q /\ p[i] = q[i + 1]
  BY <1>2, <1>3
<1>7. ASSUME NEW d, HasCmd(q, d) PROVE d = Head(q) \/ HasCmd(p, d)
  <2>1. PICK i \in DOMAIN q : q[i] = d
    BY <1>7 DEF HasCmd
  <2>2. CASE i = 1
    BY <1>4, <2>1, <2>2
  <2>3. CASE i # 1
    BY <1>5, <2>1, <2>3 DEF HasCmd
  <2> QED
    BY <2>2, <2>3
<1>8. ASSUME NEW d, HasCmd(p, d) PROVE HasCmd(q, d)
  <2>1. PICK i \in DOMAIN p : p[i] = d
    BY <1>8 DEF HasCmd
  <2> QED
    BY <1>6, <2>1 DEF HasCmd
<1>9. HasCmd(q, Head(q))
  BY <1>4 DEF HasCmd
<1> QED
  BY <1>1, <1>2, <1>7, <1>8, <1>9

\* update_beacon: the command will load what the TIM element says.
LEMMA UpdateLoads ==
  ASSUME Loaded, UpdateBeacon
  PROVE  Loaded' /\ HasCmd(cmdq', "bcn")
BY AppendCmd DEF Loaded, UpdateBeacon

LEMMA SameLoaded ==
  ASSUME Loaded, UNCHANGED <<hwtim, ietim, lost, cmdq>>
  PROVE  Loaded'
BY DEF Loaded

\* A station of which nothing changes but, at most, that the TIM element now
\* says what tim_bitmap says.
LEMMA KeepStation ==
  ASSUME NEW s \in Sta, Station(s),
         s \in sleep' <=> s \in sleep, s \in alive' <=> s \in alive,
         s \in dz' <=> s \in dz, s \in tim' <=> s \in tim, sleepq'[s] = sleepq[s],
         Ending(s)' => Ending(s), Waking(s) => Waking(s)',
         ietim' = tim' \/ (ietim' = ietim /\ (Ending(s) => Ending(s)'))
  PROVE  Station(s)'
<1>1. Told(s)'
  <2>1. CASE ietim' = tim'
    BY <2>1, Zenon DEF Told
  <2>2. CASE ietim' = ietim /\ (Ending(s) => Ending(s)')
    BY <2>2, Zenon DEF Station, Told
  <2> QED
    BY <2>1, <2>2
<1>2. Awake(s)' /\ Dozing(s)'
  BY Zenon DEF Station, Awake, Dozing
<1>3. Shown(s)' /\ OnlyHeld(s)'
  BY Zenon DEF Station, Shown, OnlyHeld
<1> QED
  BY <1>1, <1>2, <1>3 DEF Station

\* The place of the receive tasklet, for the two predicates on it.
LEMMA RxPlaces ==
  ASSUME NEW s, rx.pc \notin {"bmc", "mhal", "mrelock"}
  PROVE  ~Ending(s)
BY DEF Ending

LEMMA RxNextPlace ==
  ASSUME NEW s \in Sta, NEW t \in BOOLEAN, rx' = RxNext(s, t)
  PROVE  rx'.pc = "idle" \/ rx'.pc = "wmm"
<1>1. CASE t
  BY <1>1 DEF RxNext, RxIdle
<1>2. CASE ~t
  BY <1>2 DEF RxNext, RxIdle
<1> QED
  BY <1>1, <1>2

\* The steps that leave the bits of stations, the TIM element and the lists
\* of stations alone, and take the receive tasklet from place to place.
LEMMA QuietBInv ==
  ASSUME BInv, UNCHANGED <<sleep, alive, dz, tim, ietim>>, Loaded',
         \A s \in Sta : sleepq'[s] = sleepq[s],
         \A s \in Sta : (Ending(s)' <=> Ending(s)) /\ (Waking(s) => Waking(s)')
  PROVE  BInv'
<1>1. ASSUME NEW s \in Sta PROVE Station(s)'
  BY KeepStation DEF BInv
<1> QED
  BY <1>1 DEF BInv

LEMMA QuietSteps ==
  ASSUME BInv, UNCHANGED <<bits, beacon, hwtim, queues, lost>>,
         \A s \in Sta : (Ending(s)' <=> Ending(s)) /\ (Waking(s) => Waking(s)')
  PROVE  BInv'
<1>1. UNCHANGED <<sleep, alive, dz, tim, ietim>> /\ sleepq' = sleepq
  BY DEF bits, beacon, queues
<1>2. Loaded'
  BY SameLoaded DEF BInv, beacon
<1> QED
  BY <1>1, <1>2, QuietBInv

LEMMA TxQuietBInv ==
  ASSUME BInv, NEW a \in Class,
         TxAwake(a) \/ TxHal(a) \/ \E r \in Rcv : TxStart(a, r) \/ Dequeue(r, a)
  PROVE  BInv'
<1>1. UNCHANGED <<bits, beacon, hwtim, queues, lost>> /\ rx' = rx
  BY DEF TxAwake, TxHal, TxStart, Dequeue
<1>2. \A s \in Sta : (Ending(s)' <=> Ending(s)) /\ (Waking(s) => Waking(s)')
  BY <1>1, Zenon DEF Ending, Waking
<1> QED
  BY <1>1, <1>2, QuietSteps

LEMMA RxQuietBInv ==
  ASSUME IInv, BInv,
         \/ \E s \in Sta, t \in BOOLEAN : RxSame(s, t) \/ RxWake(s, t)
         \/ RxTrigger \/ Delivered
  PROVE  BInv'
<1>1. UNCHANGED <<bits, beacon, hwtim, queues, lost>>
  BY DEF RxSame, RxWake, RxTrigger, Delivered
<1>2. rx.pc \in {"idle", "wmm", "deliver"}
  BY DEF RxSame, RxWake, RxFrame, RxTrigger, Delivered
<1>3. rx'.pc \in {"idle", "wmm", "wake", "deliver"}
  <2>1. CASE \E s \in Sta, t \in BOOLEAN : RxSame(s, t)
    BY <2>1, RxNextPlace DEF RxSame
  <2>2. CASE \E s \in Sta, t \in BOOLEAN : RxWake(s, t)
    BY <2>2 DEF RxWake, RxIdle
  <2>3. CASE Delivered
    BY <2>3 DEF Delivered, RxIdle
  <2>4. CASE RxTrigger
    <3>1. rx' = [rx EXCEPT !.pc = "deliver"] \/ rx' = RxIdle
      BY <2>4 DEF RxTrigger
    <3> QED
      BY <3>1 DEF IInv, Receiver, RxIdle
  <2> QED
    BY <2>1, <2>2, <2>3, <2>4
<1>4. ASSUME NEW s \in Sta PROVE ~Ending(s) /\ ~Waking(s) /\ ~Ending(s)'
  BY <1>2, <1>3 DEF Ending, Waking
<1> QED
  BY <1>1, <1>4, QuietSteps

LEMMA WakeHalBInv ==
  ASSUME IInv, BInv, WakeHal
  PROVE  BInv'
<1>1. UNCHANGED <<bits, beacon, hwtim, queues, lost>>
  BY DEF WakeHal
<1>2. \/ rx.pc = "hal" /\ rx' = [rx EXCEPT !.pc = "relock", !.f = NoFrame]
      \/ rx.pc = "mhal" /\ rx' = [rx EXCEPT !.pc = "mrelock", !.f = NoFrame]
  BY DEF WakeHal
<1>3. rx'.s = rx.s /\ rx'.upd = rx.upd
      /\ \/ rx.pc = "hal" /\ rx'.pc = "relock"
         \/ rx.pc = "mhal" /\ rx'.pc = "mrelock"
  BY <1>2 DEF IInv, Receiver
<1>4. ASSUME NEW s \in Sta PROVE (Ending(s)' <=> Ending(s)) /\ (Waking(s) => Waking(s)')
  BY <1>3 DEF Ending, Waking
<1> QED
  BY <1>1, <1>4, QuietSteps

\* The list of the bc/mc station is not that of another.
LEMMA McastList ==
  ASSUME Lists, NEW q, sleepq' = [sleepq EXCEPT ![Bmc] = q]
  PROVE  \A s \in Sta : sleepq'[s] = sleepq[s]
BY ApSleepAssumption DEF Lists, Rcv

LEMMA WakeMcastBInv ==
  ASSUME IInv, BInv, WakeMcast
  PROVE  BInv'
<1>1. PICK f : f = WakeNext(Bmc)
  OBVIOUS
<1>2. PICK q : q = Unlink(sleepq[Bmc], f)
  OBVIOUS
<1>3. /\ sleepq' = [sleepq EXCEPT ![Bmc] = q]
      /\ rx' = [rx EXCEPT !.pc = "mhal", !.f = [f EXCEPT !.trig = TRUE],
                          !.next = After(sleepq[Bmc], f)]
      /\ rx.pc \in {"bmc", "mrelock"}
      /\ UNCHANGED <<bits, beacon, hwtim, lost>>
  BY <1>1, <1>2 DEF WakeMcast
<1>4. rx'.s = rx.s /\ rx'.upd = rx.upd /\ rx'.pc = "mhal"
  BY <1>3 DEF IInv, Receiver
<1>5. ASSUME NEW s \in Sta PROVE (Ending(s)' <=> Ending(s)) /\ (Waking(s) => Waking(s)')
  BY <1>3, <1>4 DEF Ending, Waking
<1>6. \A s \in Sta : sleepq'[s] = sleepq[s]
  BY <1>3, McastList DEF IInv
<1>7. Loaded' /\ UNCHANGED <<sleep, alive, dz, tim, ietim>>
  BY <1>3, SameLoaded DEF BInv, beacon, bits
<1> QED
  BY <1>5, <1>6, <1>7, QuietBInv

\* The way out of wakeup_sta_to_xmit updates the beacon of a station that woke.
LEMMA WakeDoneBInv ==
  ASSUME IInv, BInv, WakeDone
  PROVE  BInv'
<1>1. PICK clear : clear = IF (rx.pc = "mrelock" \/ dz \cap Sta = {}) /\ len[Bmc] = 0
                             THEN {Bmc} ELSE {}
  OBVIOUS
<1>2. /\ tim' = tim \ clear /\ dz' = dz \ clear
      /\ IF rx.upd \/ clear # {} THEN UpdateBeacon ELSE UNCHANGED beacon
      /\ rx' = RxNext(rx.s, rx.trig)
      /\ UNCHANGED <<sleep, alive, hwtim, sleepq, lost>>
  BY <1>1 DEF BInv, Lands, WakeDone, queues
<1>3. rx.pc \in {"bmc", "mrelock"} /\ rx.s \in Sta /\ rx.trig \in BOOLEAN
  BY DEF WakeDone, IInv, Receiver
<1>4. rx'.pc = "idle" \/ rx'.pc = "wmm"
  BY <1>2, <1>3, RxNextPlace
<1>5. ASSUME NEW s \in Sta PROVE ~Ending(s)' /\ ~Waking(s) /\ (Ending(s) => rx.upd)
  BY <1>3, <1>4 DEF Ending, Waking
<1>6. Loaded' /\ (ietim' = tim' \/ (ietim' = ietim /\ ~rx.upd))
  <2>1. CASE UpdateBeacon
    BY <2>1, UpdateLoads DEF BInv, UpdateBeacon
  <2>2. CASE UNCHANGED beacon /\ ~rx.upd
    BY <1>2, <2>2, SameLoaded DEF BInv, beacon
  <2> QED
    BY <1>2, <2>1, <2>2
<1>7. ASSUME NEW s \in Sta PROVE Station(s)'
  <2>1. s \notin clear
    BY <1>1, ApSleepAssumption
  <2> QED
    BY <1>2, <1>5, <1>6, <2>1, KeepStation DEF BInv
<1> QED
  BY <1>6, <1>7 DEF BInv

\* The same for a station the step is not about.
LEMMA OtherStation ==
  ASSUME NEW s \in Sta, Station(s),
         s \in sleep' <=> s \in sleep, s \in alive' <=> s \in alive,
         s \in dz' <=> s \in dz, s \in tim' <=> s \in tim, sleepq'[s] = sleepq[s],
         rx' = rx, ietim' = tim' \/ ietim' = ietim
  PROVE  Station(s)'
<1>1. (Ending(s)' <=> Ending(s)) /\ (Waking(s) => Waking(s)')
  BY Zenon DEF Ending, Waking
<1> QED
  BY <1>1, KeepStation

LEMMA TxSleepsBInv ==
  ASSUME AllOrNothing, IInv, BInv, NEW a \in Class, TxSleeps(a)
  PROVE  BInv'
<1>1. PICK f : f = tx[a].f
  OBVIOUS
<1>2. PICK s : s = f.ra
  OBVIOUS
<1>3. f \in Frame /\ s \in sleep /\ s \in Sta /\ s \in Rcv /\ f \in For(s)
  BY <1>1, <1>2, ForFrames DEF TxSleeps, IInv, Senders, Lists, Rcv
<1>4. Announced(f)
  BY <1>3, AllAnnounced DEF IInv
<1>5. /\ sleepq' = [sleepq EXCEPT ![s] = Append(@, f)]
      /\ tim' = tim \cup {s}
      /\ IF len[s] = 0 THEN UpdateBeacon ELSE UNCHANGED beacon
      /\ UNCHANGED <<sleep, alive, dz, hwtim, rx, lost>>
  BY <1>1, <1>2, <1>4 DEF BInv, Lands, TxSleeps
<1>6. /\ sleepq[s] \in Seq(For(s)) /\ len[s] = Len(sleepq[s]) /\ DOMAIN sleepq = Rcv
      /\ Station(s)
  BY <1>3 DEF IInv, Lists, BInv
<1>7. sleepq'[s] # << >>
  <2>1. sleepq'[s] = Append(sleepq[s], f)
    BY <1>3, <1>5, <1>6
  <2>2. Append(sleepq[s], f) \in Seq(For(s)) /\ Len(Append(sleepq[s], f)) = Len(sleepq[s]) + 1
        /\ Len(sleepq[s]) \in Nat
    BY <1>3, <1>6, AppendProperties, LenProperties
  <2>3. Len(Append(sleepq[s], f)) # 0
    BY <2>2
  <2> QED
    BY <2>1, <2>2, <2>3, EmptySeq
<1>8. Loaded' /\ (ietim' = tim' \/ (ietim' = ietim /\ s \in tim))
  <2>1. CASE UpdateBeacon
    BY <2>1, UpdateLoads DEF BInv, UpdateBeacon
  <2>2. CASE len[s] # 0 /\ UNCHANGED beacon
    <3>1. sleepq[s] # << >>
      BY <1>6, <2>2
    <3> QED
      BY <1>5, <1>6, <2>2, <3>1, SameLoaded DEF BInv, beacon, Station, Shown
  <2> QED
    BY <1>5, <2>1, <2>2
<1>9. Station(s)'
  <2>1. ~Ending(s) /\ ~Ending(s)'
    BY <1>3, <1>5, <1>6, Zenon DEF Station, Awake, Ending
  <2>2. s \in ietim' /\ s \in tim'
    <3>1. CASE ietim' = tim'
      BY <1>5, <3>1
    <3>2. CASE ietim' = ietim /\ s \in tim
      BY <1>5, <1>6, <2>1, <3>2 DEF Station, Told
    <3> QED
      BY <1>8, <3>1, <3>2
  <2>3. Told(s)' /\ Awake(s)'
    BY <2>1, <2>2, Zenon DEF Told, Awake
  <2>4. Dozing(s)'
    BY <1>3, <1>5, <1>6, Zenon DEF Station, Dozing
  <2>5. Shown(s)' /\ OnlyHeld(s)'
    BY <1>7, <2>2, Zenon DEF Shown, OnlyHeld
  <2> QED
    BY <2>3, <2>4, <2>5 DEF Station
<1>10. ASSUME NEW r \in Sta, r # s PROVE Station(r)'
  <2>1. sleepq'[r] = sleepq[r] /\ (r \in tim' <=> r \in tim) /\ Station(r)
    BY <1>5, <1>6, <1>10 DEF BInv, Rcv
  <2> QED
    BY <1>5, <1>8, <2>1, OtherStation
<1> QED
  BY <1>8, <1>9, <1>10 DEF BInv

LEMMA TxMcastSleepsBInv ==
  ASSUME IInv, BInv, NEW a \in Class, TxMcastSleeps(a)
  PROVE  BInv'
<1>1. PICK q : q = Append(sleepq[Bmc], tx[a].f)
  OBVIOUS
<1>2. /\ sleepq' = [sleepq EXCEPT ![Bmc] = q]
      /\ tim' = tim \cup {Bmc} /\ dz' = dz \cup {Bmc} /\ UpdateBeacon
      /\ UNCHANGED <<sleep, alive, rx>>
  BY <1>1 DEF BInv, Lands, TxMcastSleeps
<1>3. Loaded' /\ ietim' = tim'
  BY <1>2, UpdateLoads DEF BInv, UpdateBeacon
<1>4. ASSUME NEW s \in Sta PROVE Station(s)'
  <2>1. s # Bmc /\ sleepq'[s] = sleepq[s] /\ Station(s)
    BY <1>2, McastList, ApSleepAssumption DEF IInv, BInv
  <2> QED
    BY <1>2, <1>3, <2>1, OtherStation
<1> QED
  BY <1>3, <1>4 DEF BInv

LEMMA WakeTakeBInv ==
  ASSUME IInv, BInv, WakeTake
  PROVE  BInv'
<1>1. PICK s : s = rx.s
  OBVIOUS
<1>2. PICK f : f = WakeNext(s)
  OBVIOUS
<1>3. PICK q : q = Unlink(sleepq[s], f)
  OBVIOUS
<1>4. s \in Sta /\ s \in Rcv /\ f \in Linked(sleepq[s])
  BY <1>1, <1>2, WakeNextLinked DEF WakeTake
<1>5. /\ sleepq' = [sleepq EXCEPT ![s] = q]
      /\ rx' = [rx EXCEPT !.pc = "hal", !.f = [f EXCEPT !.trig = TRUE],
                          !.next = After(sleepq[s], f)]
      /\ rx.pc \in {"wake", "relock"}
      /\ UNCHANGED <<sleep, alive, dz, tim, beacon, hwtim, lost>>
  BY <1>1, <1>2, <1>3 DEF WakeTake, bits
<1>6. rx'.s = s /\ rx'.pc = "hal"
  BY <1>1, <1>5 DEF IInv, Receiver
<1>7. Loaded' /\ ietim' = ietim
  BY <1>5, SameLoaded DEF BInv, beacon
<1>8. ASSUME NEW r \in Sta
      PROVE  ~Ending(r) /\ ~Ending(r)' /\ (Waking(r) => Waking(r)')
  BY <1>1, <1>5, <1>6 DEF Ending, Waking
<1>9. Station(s)'
  <2>1. Station(s) /\ sleepq[s] # << >>
    BY <1>4, NonEmptyLinked DEF BInv
  <2>2. Waking(s)'
    BY <1>6 DEF Waking
  <2>3. Told(s)' /\ Awake(s)' /\ Dozing(s)'
    BY <1>4, <1>5, <1>7, <1>8, <2>1, Zenon DEF Station, Told, Awake, Dozing
  <2>4. Shown(s)' /\ OnlyHeld(s)'
    BY <1>5, <2>1, <2>2, Zenon DEF Station, Shown, OnlyHeld
  <2> QED
    BY <2>3, <2>4 DEF Station
<1>10. ASSUME NEW r \in Sta, r # s PROVE Station(r)'
  <2>1. sleepq'[r] = sleepq[r] /\ Station(r)
    BY <1>5, <1>10 DEF BInv, IInv, Lists, Rcv
  <2> QED
    BY <1>5, <1>7, <1>8, <2>1, KeepStation
<1> QED
  BY <1>7, <1>9, <1>10 DEF BInv

\* A station that is declared awake is out of tim_bitmap at once, and out of
\* the TIM element on the way out.
LEMMA WakeEndBInv ==
  ASSUME IInv, BInv, WakeEnd
  PROVE  BInv'
<1>1. PICK s : s = rx.s
  OBVIOUS
<1>2. s \in Sta /\ s \in Rcv /\ rx.pc \in {"wake", "relock"}
  BY <1>1 DEF WakeEnd, IInv, Receiver, Rcv
<1>3. UNCHANGED <<ietim, cmdq, hwtim, sleepq, lost>>
  BY DEF WakeEnd, beacon, queues
<1>4. Loaded'
  BY <1>3, SameLoaded DEF BInv
<1>5. len[s] = Len(sleepq[s]) /\ sleepq[s] \in Seq(For(s)) /\ Station(s)
  BY <1>2 DEF IInv, Lists, BInv
<1>6. ASSUME NEW r \in Sta PROVE ~Ending(r)
  BY <1>2, RxPlaces
<1>7. CASE len[s] = 0
  <2>1. /\ tim' = tim \ {s} /\ sleep' = sleep \ {s}
        /\ alive' = alive \ {s} /\ dz' = dz \ {s}
        /\ rx' = [rx EXCEPT !.pc = "bmc", !.next = NoFrame, !.upd = ({s} # {})]
    BY <1>1, <1>7 DEF BInv, Lands, WakeEnd
  <2>2. rx' = [rx EXCEPT !.pc = "bmc", !.next = NoFrame, !.upd = TRUE]
    BY <2>1
  <2>3. rx'.pc = "bmc" /\ rx'.s = s /\ rx'.upd = TRUE
    BY <1>1, <2>2 DEF IInv, Receiver
  <2>4. sleepq[s] = << >>
    BY <1>5, <1>7, EmptySeq
  <2>5. Station(s)'
    <3>1. Ending(s)'
      BY <2>3 DEF Ending
    <3>2. s \notin tim' /\ s \notin sleep' /\ s \notin alive' /\ s \notin dz'
      BY <2>1
    <3> QED
      BY <1>3, <2>4, <3>1, <3>2, Zenon
         DEF Station, Told, Awake, Dozing, Shown, OnlyHeld
  <2>6. ASSUME NEW r \in Sta, r # s PROVE Station(r)'
    <3>1. ~Ending(r)' /\ ~Waking(r)
      BY <1>1, <2>3, <2>6 DEF Ending, Waking
    <3>2. Station(r)
      BY DEF BInv
    <3> QED
      BY <1>3, <1>6, <2>1, <2>6, <3>1, <3>2, KeepStation
  <2> QED
    BY <1>4, <2>5, <2>6 DEF BInv
<1>8. CASE len[s] # 0
  <2>1. /\ tim' = tim /\ sleep' = sleep /\ alive' = alive /\ dz' = dz
        /\ rx' = [rx EXCEPT !.pc = "bmc", !.next = NoFrame, !.upd = ({} # {})]
    BY <1>1, <1>8 DEF BInv, Lands, WakeEnd
  <2>2. rx' = [rx EXCEPT !.pc = "bmc", !.next = NoFrame, !.upd = FALSE]
    BY <2>1
  <2>3. rx'.pc = "bmc" /\ rx'.s = s /\ rx'.upd = FALSE
    BY <1>1, <2>2 DEF IInv, Receiver
  <2>4. sleepq[s] # << >>
    BY <1>5, <1>8
  <2>5. ASSUME NEW r \in Sta PROVE ~Ending(r)' /\ (Waking(r) => r = s)
    BY <1>1, <2>3 DEF Ending, Waking
  <2>6. ASSUME NEW r \in Sta PROVE Station(r)'
    <3>1. Station(r)
      BY DEF BInv
    <3>2. Told(r)' /\ Awake(r)' /\ Dozing(r)' /\ Shown(r)'
      BY <1>3, <1>6, <2>1, <2>5, <3>1, Zenon DEF Station, Told, Awake, Dozing, Shown
    <3>3. OnlyHeld(r)'
      BY <1>3, <2>1, <2>4, <2>5, <3>1, Zenon DEF Station, OnlyHeld
    <3> QED
      BY <3>2, <3>3 DEF Station
  <2> QED
    BY <1>4, <2>6 DEF BInv
<1> QED
  BY <1>7, <1>8

\* The first delivery enabled frame.
LEMMA DeliverFrame ==
  ASSUME IInv, NEW s \in Sta, EnabledAt(sleepq[s]) # {},
         NEW f, f = sleepq[s][Nth(EnabledAt(sleepq[s]), 1)]
  PROVE  f \in Linked(sleepq[s]) /\ f \in For(s) /\ Uapsd(s, f.ac)
<1> DEFINE I == EnabledAt(sleepq[s])
<1>1. I \in SUBSET (DOMAIN sleepq[s]) /\ s \in Rcv
  BY DEF EnabledAt, Rcv
<1>2. IsFiniteSet(I) /\ Cardinality(I) \in Nat /\ I \in SUBSET Nat
  BY <1>1, AtFinite, FramesOfLists DEF IInv
<1>3. Cardinality(I) # 0
  BY <1>2, FS_EmptySet
<1>4. 1 \in 1 .. Cardinality(I)
  BY <1>2, <1>3
<1>5. Nth(I, 1) \in I
  BY <1>2, <1>4, NthPosition
<1>6. f \in Linked(sleepq[s]) /\ Uapsd(f.ra, f.ac)
  BY <1>1, <1>5 DEF Linked, EnabledAt
<1>7. f \in For(s)
  BY <1>1, <1>6, UnlinkProperties DEF IInv
<1> QED
  BY <1>6, <1>7 DEF For

\* Where every class is enabled, sleepq_ac_len is the length of the list.
LEMMA FullCount ==
  ASSUME IInv, AInv, NEW s \in Sta, uapsd[s] = Class
  PROVE  aclen[s] = Len(sleepq[s])
<1>1. s \in Rcv /\ sleepq[s] \in Seq(For(s)) /\ sleepq[s] \in Seq(Frame)
      /\ Len(sleepq[s]) \in Nat /\ DOMAIN sleepq[s] = 1 .. Len(sleepq[s])
      /\ \A i \in DOMAIN sleepq[s] : sleepq[s][i] \in For(s)
  BY FramesOfLists DEF IInv, Rcv
<1>2. ASSUME NEW f \in For(s) PROVE f \in EnabledFrames
  <2>1. f.ac \in Class
    BY DEF For
  <2>2. Uapsd(s, f.ac)
    BY <2>1 DEF Uapsd
  <2> QED
    BY <2>2, EnabledFrame
<1>3. At(sleepq[s], EnabledFrames) = 1 .. Len(sleepq[s])
  BY <1>1, <1>2 DEF At
<1>4. Cardinality(1 .. Len(sleepq[s])) = Len(sleepq[s])
  BY <1>1, FS_Interval
<1> QED
  BY <1>3, <1>4 DEF AInv, CountedIn

\* A station whose list was shortened, and which is in tim_bitmap and in the
\* TIM element as long as the list is not empty.
LEMMA ShortStation ==
  ASSUME NEW s \in Sta, Station(s), sleepq[s] # << >>, rx' = rx,
         s \in sleep' <=> s \in sleep, s \in dz' <=> s \in dz, s \in alive' => s \in alive,
         \/ sleepq'[s] = << >> /\ s \notin tim' /\ ietim' = tim'
         \/ sleepq'[s] # << >> /\ s \in tim' /\ ietim' = ietim
  PROVE  Station(s)'
<1>1. s \in tim /\ s \in sleep
  BY Zenon DEF Station, Shown, Dozing
<1>2. ~Ending(s) /\ ~Ending(s)'
  BY <1>1, Zenon DEF Station, Awake, Ending
<1>3. s \in ietim
  BY <1>1, <1>2, Zenon DEF Station, Told
<1>4. Told(s)' /\ Awake(s)'
  BY <1>2, <1>3, Zenon DEF Told, Awake
<1>5. Dozing(s)'
  BY <1>1, Zenon DEF Station, Dozing
<1>6. Shown(s)' /\ OnlyHeld(s)'
  BY Zenon DEF Shown, OnlyHeld
<1> QED
  BY <1>4, <1>5, <1>6 DEF Station

LEMMA DeliverBInv ==
  ASSUME AllOrNothing, IInv, AInv, BInv, Deliver
  PROVE  BInv'
<1>1. PICK s : s = rx.s
  OBVIOUS
<1>2. PICK f : f = sleepq[s][Nth(EnabledAt(sleepq[s]), 1)]
  OBVIOUS
<1>3. PICK q : q = Unlink(sleepq[s], f)
  OBVIOUS
<1>4. s \in Sta /\ s \in Rcv /\ EnabledAt(sleepq[s]) # {}
  BY <1>1 DEF Deliver, IInv, Receiver, Rcv
<1>5. f \in Linked(sleepq[s]) /\ f \in For(s) /\ Uapsd(s, f.ac)
  BY <1>2, <1>4, DeliverFrame
<1>6. uapsd[s] = Class
  BY <1>4, <1>5 DEF AllOrNothing, IInv, Lists, Uapsd
<1>7. q \in Seq(For(s)) /\ Len(q) = Len(sleepq[s]) - 1 /\ sleepq[s] # << >>
      /\ Len(sleepq[s]) \in Nat
  BY <1>3, <1>4, <1>5, UnlinkProperties, NonEmptyLinked, FramesOfLists DEF IInv
<1>8. aclen[s] = Len(sleepq[s])
  BY <1>4, <1>6, FullCount
<1>9. /\ sleepq' = [sleepq EXCEPT ![s] = q]
      /\ IF aclen[s] = 1 THEN tim' = tim \ {s} /\ UpdateBeacon
                         ELSE UNCHANGED <<tim, beacon>>
      /\ UNCHANGED <<sleep, alive, dz, hwtim, rx, lost>>
  BY <1>1, <1>2, <1>3, <1>6 DEF BInv, Lands, Deliver, HasLegacyAc
<1>10. sleepq'[s] = q /\ \A r \in Sta \ {s} : sleepq'[r] = sleepq[r]
  BY <1>4, <1>9 DEF IInv, Lists, Rcv
<1>11. CASE Len(sleepq[s]) = 1
  <2>1. tim' = tim \ {s} /\ UpdateBeacon
    BY <1>8, <1>9, <1>11
  <2>2. Loaded' /\ ietim' = tim'
    BY <2>1, UpdateLoads DEF BInv, UpdateBeacon
  <2>3. q = << >>
    BY <1>7, <1>11, EmptySeq
  <2>4. Station(s)'
    BY <1>4, <1>7, <1>9, <1>10, <2>1, <2>2, <2>3, ShortStation DEF BInv
  <2>5. ASSUME NEW r \in Sta, r # s PROVE Station(r)'
    <3>1. Station(r) /\ sleepq'[r] = sleepq[r] /\ (r \in tim' <=> r \in tim)
      BY <1>10, <2>1, <2>5 DEF BInv
    <3> QED
      BY <1>9, <2>2, <3>1, OtherStation
  <2> QED
    BY <2>2, <2>4, <2>5 DEF BInv
<1>12. CASE Len(sleepq[s]) # 1
  <2>1. tim' = tim /\ UNCHANGED beacon
    BY <1>8, <1>9, <1>12
  <2>2. Loaded' /\ ietim' = ietim
    BY <1>9, <2>1, SameLoaded DEF BInv, beacon
  <2>3. q # << >>
    <3>1. Len(q) # 0
      BY <1>7, <1>12
    <3> QED
      BY <1>7, <3>1, EmptySeq
  <2>4. Station(s)'
    <3>1. Station(s) /\ s \in tim'
      BY <1>4, <1>7, <2>1 DEF BInv, Station, Shown
    <3> QED
      BY <1>4, <1>7, <1>9, <1>10, <2>2, <2>3, <3>1, ShortStation
  <2>5. ASSUME NEW r \in Sta, r # s PROVE Station(r)'
    <3>1. Station(r) /\ sleepq'[r] = sleepq[r]
      BY <1>10, <2>5 DEF BInv
    <3> QED
      BY <1>9, <2>1, <2>2, <3>1, OtherStation
  <2> QED
    BY <2>2, <2>4, <2>5 DEF BInv
<1> QED
  BY <1>11, <1>12

\* A PS-Poll clears the bit with the last frame, or when there is none.
LEMMA RxPollBInv ==
  ASSUME IInv, BInv, NEW s \in Sta, RxPoll(s)
  PROVE  BInv'
<1>1. /\ rx.pc = "idle" /\ alive' = alive \ {s}
      /\ UNCHANGED <<sleep, dz, hwtim, rx, lost>>
  BY DEF RxPoll, RxFrame
<1>2. /\ s \in Rcv /\ sleepq[s] \in Seq(For(s)) /\ len[s] = Len(sleepq[s])
      /\ Len(sleepq[s]) \in Nat /\ DOMAIN sleepq = Rcv /\ Station(s)
  BY LenProperties DEF IInv, Lists, Rcv, BInv
<1>3. ASSUME NEW r \in Sta PROVE ~Ending(r) /\ ~Ending(r)' /\ ~Waking(r)
  BY <1>1 DEF Ending, Waking
<1>4. /\ \A r \in Sta \ {s} : sleepq'[r] = sleepq[r]
      /\ \/ tim' = tim \ {s} /\ UpdateBeacon
         \/ UNCHANGED <<tim, beacon>>
  BY <1>2 DEF BInv, Lands, RxPoll, Rcv
<1>5. Loaded' /\ (ietim' = tim' \/ ietim' = ietim)
  <2>1. CASE UpdateBeacon
    BY <2>1, UpdateLoads DEF BInv, UpdateBeacon
  <2>2. CASE UNCHANGED beacon
    BY <1>1, <2>2, SameLoaded DEF BInv, beacon
  <2> QED
    BY <1>4, <2>1, <2>2
<1>6. ASSUME NEW r \in Sta, r # s PROVE Station(r)'
  <2>1. Station(r) /\ sleepq'[r] = sleepq[r] /\ (r \in tim' <=> r \in tim)
        /\ (r \in alive' <=> r \in alive)
    BY <1>1, <1>4, <1>6 DEF BInv
  <2> QED
    BY <1>1, <1>5, <2>1, OtherStation
<1>7. Station(s)'
  <2>1. CASE s \in sleep \cap dz /\ sleepq[s] # << >>
    <3>1. sleepq' = [sleepq EXCEPT ![s] = Tail(@)]
      BY <2>1 DEF RxPoll
    <3>2. /\ sleepq'[s] = Tail(sleepq[s]) /\ Tail(sleepq[s]) \in Seq(For(s))
          /\ Len(Tail(sleepq[s])) = Len(sleepq[s]) - 1
      BY <1>2, <2>1, <3>1, HeadTailProperties
    <3>3. CASE len[s] = 1
      <4>1. tim' = tim \ {s} /\ UpdateBeacon
        BY <2>1, <3>3 DEF BInv, Lands, RxPoll
      <4>2. sleepq'[s] = << >>
        BY <1>2, <3>2, <3>3, EmptySeq
      <4>3. s \notin tim' /\ ietim' = tim'
        BY <4>1 DEF UpdateBeacon
      <4> QED
        BY <1>1, <1>2, <2>1, <4>2, <4>3, ShortStation
    <3>4. CASE len[s] # 1
      <4>1. tim' = tim /\ UNCHANGED beacon
        BY <2>1, <3>4 DEF RxPoll
      <4>2. sleepq'[s] # << >>
        BY <1>2, <3>2, <3>4
      <4>3. s \in tim' /\ ietim' = ietim
        BY <1>2, <2>1, <4>1 DEF beacon, Station, Shown
      <4> QED
        BY <1>1, <1>2, <2>1, <4>2, <4>3, ShortStation
    <3> QED
      BY <3>3, <3>4
  <2>2. CASE ~(s \in sleep \cap dz /\ sleepq[s] # << >>)
    <3>1. sleepq' = sleepq
      BY <2>2 DEF RxPoll
    <3>2. sleepq[s] = << >>
      BY <2>2 DEF IInv, BInv, Asleep, HeldOnlyAsleep
    <3>3. s \notin tim' /\ s \notin ietim'
      <4>1. CASE s \in tim
        <5>1. s \in sleep \cap dz
          BY <1>2, <4>1, Zenon DEF Station, Dozing
        <5>2. tim' = tim \ {s} /\ UpdateBeacon
          BY <2>2, <3>2, <4>1, <5>1 DEF BInv, Lands, RxPoll
        <5> QED
          BY <5>2 DEF UpdateBeacon
      <4>2. CASE s \notin tim
        <5>1. s \notin ietim
          BY <1>2, <1>3, <4>2, Zenon DEF Station, Told
        <5> QED
          BY <1>4, <4>2, <5>1 DEF UpdateBeacon, beacon
      <4> QED
        BY <4>1, <4>2
    <3>4. s \notin alive' /\ (s \in dz' <=> s \in sleep')
      BY <1>1, <1>2, Zenon DEF Station, Dozing
    <3> QED
      BY <1>3, <3>1, <3>2, <3>3, <3>4, Zenon
         DEF Station, Told, Awake, Dozing, Shown, OnlyHeld
  <2> QED
    BY <2>1, <2>2
<1> QED
  BY <1>5, <1>6, <1>7 DEF BInv

\* stop_sta_xmit announces what it moves.
LEMMA RxDozeBInv ==
  ASSUME AllOrNothing, IInv, BInv, NEW s \in Sta, NEW t \in BOOLEAN, RxDoze(s, t)
  PROVE  BInv'
<1>1. PICK mine : mine = Moved(s)
  OBVIOUS
<1>2. PICK mc : mc = Untriggered(pend[Bmc]["be"])
  OBVIOUS
<1>3. PICK posts : posts = (IF mine # << >> /\ len[s] = 0 /\ Announced(mine[1])
                              THEN 1 ELSE 0) + Len(mc)
  OBVIOUS
<1>4. /\ sleep' = sleep \cup {s} /\ s \notin sleep
      /\ dz' = dz \cup {s} \cup (IF mc # << >> THEN {Bmc} ELSE {})
      /\ tim' = tim \cup (IF \E i \in DOMAIN mine : Announced(mine[i]) THEN {s} ELSE {})
                    \cup (IF mc # << >> THEN {Bmc} ELSE {})
      /\ sleepq' = [sleepq EXCEPT ![s] = @ \o mine, ![Bmc] = @ \o mc]
      /\ rx' = RxNext(s, t) /\ rx.pc = "idle"
      /\ UNCHANGED <<alive, hwtim, lost>>
  BY <1>1, <1>2 DEF BInv, Lands, RxDoze, RxFrame
<1>5. /\ cmdq' = cmdq \o [i \in 1 .. posts |-> "bcn"]
      /\ ietim' = IF posts > 0 THEN tim' ELSE ietim
  BY <1>1, <1>2, <1>3 DEF RxDoze
<1>6. s \in Rcv /\ Bmc \in Rcv /\ s # Bmc /\ Bmc \notin Sta
  BY ApSleepAssumption DEF Rcv
<1>7. /\ mine \in Seq(For(s)) /\ mc \in Seq(For(Bmc)) /\ Len(mine) \in Nat /\ Len(mc) \in Nat
      /\ DOMAIN mine = 1 .. Len(mine) /\ \A i \in DOMAIN mine : mine[i] \in For(s)
  BY <1>1, <1>2, MovedLists, LenProperties, ElementOfSeq DEF IInv
<1>8. Station(s) /\ sleepq[s] \in Seq(For(s)) /\ len[s] = Len(sleepq[s]) /\ DOMAIN sleepq = Rcv
  BY <1>6 DEF BInv, IInv, Lists
<1>9. s \notin tim /\ s \notin alive /\ sleepq[s] = << >>
  BY <1>4, <1>8, Zenon DEF Station, Dozing, Shown
<1>10. ASSUME NEW r \in Sta PROVE ~Ending(r) /\ ~Ending(r)' /\ ~Waking(r)
  <2>1. rx'.pc = "idle" \/ rx'.pc = "wmm"
    BY <1>4, RxNextPlace
  <2> QED
    BY <1>4, <2>1 DEF Ending, Waking
<1>11. mine # << >> => 1 \in DOMAIN mine /\ Announced(mine[1])
  <2>1. ASSUME mine # << >> PROVE 1 \in DOMAIN mine
    BY <1>7, <2>1, EmptySeq
  <2> QED
    BY <1>7, <2>1, AllAnnounced DEF IInv
<1>12. posts \in Nat /\ (mine # << >> \/ mc # << >> => posts > 0)
  <2>1. CASE mine # << >>
    <3>1. len[s] = 0
      BY <1>8, <1>9
    <3>2. posts = 1 + Len(mc)
      BY <1>3, <1>11, <2>1, <3>1
    <3> QED
      BY <1>7, <3>2
  <2>2. CASE mine = << >>
    <3>1. posts = Len(mc)
      BY <1>3, <1>7, <2>2
    <3>2. mc # << >> => Len(mc) # 0
      BY <1>7, EmptySeq
    <3> QED
      BY <1>7, <2>2, <3>1, <3>2
  <2> QED
    BY <2>1, <2>2
<1>13. s \in tim' <=> mine # << >>
  <2>1. mine = << >> => ~(\E i \in DOMAIN mine : Announced(mine[i]))
    BY <1>7
  <2>2. s \in tim' <=> \E i \in DOMAIN mine : Announced(mine[i])
    BY <1>4, <1>6, <1>9
  <2> QED
    BY <1>11, <2>1, <2>2
<1>14. sleepq'[s] = << >> <=> mine = << >>
  <2>1. sleepq'[s] = sleepq[s] \o mine
    BY <1>4, <1>6, <1>8
  <2>2. << >> \o mine = mine
    BY <1>7
  <2> QED
    BY <1>9, <2>1, <2>2
<1>15. \/ posts > 0 /\ ietim' = tim'
       \/ posts = 0 /\ ietim' = ietim /\ mine = << >> /\ mc = << >>
  BY <1>5, <1>12
<1>16. Loaded'
  <2> DEFINE new == [i \in 1 .. posts |-> "bcn"]
  <2>1. new \in Seq({"bcn", "hiq"}) /\ Len(new) = posts /\ DOMAIN new = 1 .. posts
        /\ \A i \in 1 .. posts : new[i] = "bcn"
    BY <1>12
  <2> HIDE DEF new
  <2>2. cmdq \in Seq({"bcn", "hiq"}) /\ cmdq' = cmdq \o new
    BY <1>5 DEF BInv, Loaded, new
  <2>3. /\ cmdq' \in Seq({"bcn", "hiq"}) /\ Len(cmdq') = Len(cmdq) + posts
        /\ \A i \in 1 .. Len(cmdq) + posts :
             cmdq'[i] = IF i <= Len(cmdq) THEN cmdq[i] ELSE new[i - Len(cmdq)]
    <3>1. /\ cmdq \o new \in Seq({"bcn", "hiq"}) /\ Len(cmdq \o new) = Len(cmdq) + Len(new)
          /\ \A i \in 1 .. Len(cmdq) + Len(new) :
               (cmdq \o new)[i] = IF i <= Len(cmdq) THEN cmdq[i] ELSE new[i - Len(cmdq)]
      BY <2>1, <2>2, ConcatProperties, Zenon
    <3>2. cmdq' = cmdq \o new /\ Len(new) = posts
      BY <2>1, <2>2
    <3> QED
      BY <3>1, <3>2, Zenon
  <2>4. Len(cmdq) \in Nat /\ DOMAIN cmdq' = 1 .. (Len(cmdq) + posts)
    BY <2>2, <2>3, LenProperties
  <2>5. CASE posts > 0
    <3>1. /\ Len(cmdq) + 1 \in 1 .. (Len(cmdq) + posts) /\ ~(Len(cmdq) + 1 <= Len(cmdq))
          /\ (Len(cmdq) + 1) - Len(cmdq) = 1 /\ 1 \in 1 .. posts
      BY <1>12, <2>4, <2>5
    <3>2. cmdq'[Len(cmdq) + 1] = "bcn"
      BY <2>1, <2>3, <3>1
    <3>3. HasCmd(cmdq', "bcn")
      BY <2>4, <3>1, <3>2 DEF HasCmd
    <3> QED
      BY <2>3, <3>3 DEF Loaded
  <2>6. CASE posts = 0
    <3>1. new = << >>
      BY <2>1, <2>6, EmptySeq
    <3>2. cmdq' = cmdq
      BY <2>2, <3>1
    <3> QED
      BY <1>4, <1>15, <2>6, <3>2, SameLoaded DEF BInv
  <2> QED
    BY <1>12, <2>5, <2>6
<1>17. Station(s)'
  <2>1. s \in ietim' <=> s \in tim'
    <3>1. CASE ietim' = tim'
      BY <3>1
    <3>2. CASE ietim' = ietim /\ mine = << >>
      <4>1. s \notin ietim
        BY <1>8, <1>9, <1>10, Zenon DEF Station, Told
      <4> QED
        BY <1>13, <3>2, <4>1
    <3> QED
      BY <1>15, <3>1, <3>2
  <2>2. s \in sleep' /\ s \in dz'
    BY <1>4
  <2> QED
    BY <1>10, <1>13, <1>14, <2>1, <2>2, Zenon
       DEF Station, Told, Awake, Dozing, Shown, OnlyHeld
<1>18. ASSUME NEW r \in Sta, r # s PROVE Station(r)'
  <2>1. r # Bmc /\ r \in Rcv /\ Station(r)
    BY <1>6 DEF BInv, Rcv
  <2>2. /\ r \in sleep' <=> r \in sleep
        /\ r \in dz' <=> r \in dz
        /\ r \in tim' <=> r \in tim
    BY <1>4, <1>18, <2>1
  <2>3. sleepq'[r] = sleepq[r]
    BY <1>4, <1>6, <1>8, <1>18, <2>1
  <2>4. ietim' = tim' \/ ietim' = ietim
    BY <1>15
  <2> QED
    BY <1>4, <1>10, <2>1, <2>2, <2>3, <2>4, KeepStation
<1> QED
  BY <1>16, <1>17, <1>18 DEF BInv

\* expire_timeout_chk announces a station that dozes.
LEMMA AliveCheckBInv ==
  ASSUME IInv, BInv, NEW s \in Sta, AliveCheck(s)
  PROVE  BInv'
<1>1. /\ s \in sleep /\ alive' = alive \cup {s} /\ tim' = tim \cup {s} /\ UpdateBeacon
      /\ UNCHANGED <<sleep, dz, sleepq, rx>>
  BY DEF BInv, Lands, AliveCheck, queues
<1>2. Loaded' /\ ietim' = tim'
  BY <1>1, UpdateLoads DEF BInv, UpdateBeacon
<1>3. Station(s)'
  <2>1. Station(s)
    BY DEF BInv
  <2>2. ~Ending(s)'
    BY <1>1, <2>1, Zenon DEF Station, Awake, Ending
  <2>3. s \in tim' /\ s \in alive' /\ s \in sleep' /\ (s \in dz' <=> s \in sleep')
    BY <1>1, <2>1, Zenon DEF Station, Dozing
  <2> QED
    BY <1>2, <2>2, <2>3, Zenon DEF Station, Told, Awake, Dozing, Shown, OnlyHeld
<1>4. ASSUME NEW r \in Sta, r # s PROVE Station(r)'
  <2>1. Station(r) /\ (r \in tim' <=> r \in tim) /\ (r \in alive' <=> r \in alive)
    BY <1>1, <1>4 DEF BInv
  <2> QED
    BY <1>1, <1>2, <2>1, OtherStation
<1> QED
  BY <1>2, <1>3, <1>4 DEF BInv

\* The commands and the chip: only the bits of the bc/mc station change.
LEMMA CmdBInv ==
  ASSUME IInv, BInv, CmdStep \/ CmdBeaconFails \/ HiqComplete \/ ChipDtim
  PROVE  BInv'
<1>1. rx' = rx /\ sleep' = sleep /\ alive' = alive
  BY DEF CmdStep, CmdBeacon, CmdTake, CmdHal, CmdSent, CmdChkHiq, CmdHiqEmpty, CmdHiqBusy,
     CmdBeaconFails, HiqComplete, ChipDtim, bits
<1>2. \A s \in Sta : s # Bmc
  BY ApSleepAssumption
<1>3. \/ CmdHiqEmpty /\ dz' = dz \ {Bmc} /\ tim' = tim \ {Bmc}
      \/ UNCHANGED <<dz, tim, ietim>>
  BY DEF BInv, Lands, CmdStep, CmdBeacon, CmdTake, CmdHal, CmdSent, CmdChkHiq, CmdHiqEmpty, CmdHiqBusy,
     CmdBeaconFails, HiqComplete, ChipDtim, bits, beacon
<1>4. \A s \in Sta : sleepq'[s] = sleepq[s]
  <2>1. CASE CmdTake
    <3>1. PICK q : q = Unlink(sleepq[Bmc], CmdNext)
      OBVIOUS
    <3>2. sleepq' = [sleepq EXCEPT ![Bmc] = q]
      BY <2>1, <3>1 DEF CmdTake
    <3> QED
      BY <3>2, McastList DEF IInv
  <2>2. CASE ~CmdTake
    <3>1. sleepq' = sleepq
      BY <2>2 DEF CmdStep, CmdBeacon, CmdHal, CmdSent, CmdChkHiq, CmdHiqEmpty, CmdHiqBusy,
         CmdBeaconFails, HiqComplete, ChipDtim, queues
    <3> QED
      BY <3>1
  <2> QED
    BY <2>1, <2>2
<1>5. cmdq \in Seq({"bcn", "hiq"})
  BY DEF BInv, Loaded
<1>6. Loaded' /\ (CmdHiqEmpty => ietim' = tim')
  <2>1. CASE CmdBeacon
    <3>1. cmdq' \in Seq({"bcn", "hiq"})
      BY <1>5, <2>1, TailCmd DEF CmdBeacon, CmdHead
    <3>2. hwtim' = ietim' /\ cmd.pc = "idle"
      BY <2>1 DEF CmdBeacon, CmdHead
    <3> QED
      BY <3>1, <3>2 DEF Loaded, CmdHiqEmpty
  <2>2. CASE CmdBeaconFails
    <3>1. cmdq' \in Seq({"bcn", "hiq"})
      BY <1>5, <2>2, TailCmd DEF CmdBeaconFails, CmdHead
    <3>2. lost' = TRUE /\ cmd.pc = "idle"
      BY <2>2 DEF CmdBeaconFails, CmdHead
    <3> QED
      BY <3>1, <3>2 DEF Loaded, CmdHiqEmpty
  <2>3. CASE CmdChkHiq
    <3>1. /\ cmdq # << >> /\ Head(cmdq) = "hiq" /\ cmdq' = Tail(cmdq) /\ cmd.pc = "idle"
          /\ UNCHANGED <<ietim, hwtim, lost>>
      BY <2>3 DEF CmdChkHiq, CmdHead
    <3>2. cmdq' \in Seq({"bcn", "hiq"}) /\ (HasCmd(cmdq, "bcn") => HasCmd(cmdq', "bcn"))
      BY <1>5, <3>1, TailCmd
    <3> QED
      BY <3>1, <3>2 DEF BInv, Loaded, CmdHiqEmpty
  <2>4. CASE CmdHiqEmpty
    BY <2>4, UpdateLoads DEF BInv, CmdHiqEmpty, UpdateBeacon
  <2>5. CASE CmdHiqBusy \/ HiqComplete
    <3>1. cmdq' = Append(cmdq, "hiq") /\ UNCHANGED <<ietim, hwtim, lost>>
      BY <2>5 DEF CmdHiqBusy, HiqComplete
    <3>2. cmdq' \in Seq({"bcn", "hiq"}) /\ (HasCmd(cmdq, "bcn") => HasCmd(cmdq', "bcn"))
      BY <1>5, <3>1, AppendCmd
    <3>3. Loaded'
      BY <3>1, <3>2 DEF BInv, Loaded
    <3> QED
      BY <3>3, <2>4
  <2>6. CASE CmdTake \/ CmdHal \/ CmdSent \/ ChipDtim
    <3>1. UNCHANGED <<hwtim, ietim, lost, cmdq>>
      BY <2>6 DEF CmdTake, CmdHal, CmdSent, ChipDtim, beacon
    <3> QED
      BY <3>1, <2>4, SameLoaded DEF BInv
  <2> QED
    BY <2>1, <2>2, <2>3, <2>4, <2>5, <2>6 DEF CmdStep
<1>7. ASSUME NEW s \in Sta PROVE Station(s)'
  <2>1. Station(s) /\ (s \in dz' <=> s \in dz) /\ (s \in tim' <=> s \in tim)
    BY <1>2, <1>3 DEF BInv
  <2> QED
    BY <1>1, <1>3, <1>4, <1>6, <2>1, OtherStation
<1> QED
  BY <1>6, <1>7 DEF BInv

LEMMA NextBInv ==
  ASSUME AllOrNothing
  PROVE  IInv /\ AInv /\ BInv /\ [Next]_vars => BInv'
<1> SUFFICES ASSUME IInv, AInv, BInv, [Next]_vars PROVE BInv'
  OBVIOUS
<1>1. CASE \E a \in Traffic : TxNext(a) \/ \E r \in Rcv : TxStart(a, r) \/ Dequeue(r, a)
  <2>1. PICK a \in Traffic : TxNext(a) \/ \E r \in Rcv : TxStart(a, r) \/ Dequeue(r, a)
    BY <1>1
  <2>2. a \in Class
    BY ApSleepAssumption
  <2> QED
    BY <2>1, <2>2, TxSleepsBInv, TxMcastSleepsBInv, TxQuietBInv DEF TxNext
<1>2. CASE \E s \in Sta, t \in BOOLEAN : RxDoze(s, t) \/ RxSame(s, t) \/ RxWake(s, t)
  BY <1>2, RxDozeBInv, RxQuietBInv
<1>3. CASE \E s \in Sta : RxPoll(s) \/ AliveCheck(s)
  BY <1>3, RxPollBInv, AliveCheckBInv
<1>4. CASE RxStep
  BY <1>4, WakeTakeBInv, WakeHalBInv, WakeEndBInv, WakeMcastBInv, WakeDoneBInv,
     RxQuietBInv, DeliverBInv DEF RxStep
<1>5. CASE CmdStep \/ CmdBeaconFails \/ HiqComplete \/ ChipDtim
  BY <1>5, CmdBInv
<1>6. CASE UNCHANGED vars
  <2>1. UNCHANGED <<bits, ietim, cmdq, hwtim, queues, lost, rx>>
    BY <1>6 DEF vars
  <2>2. \A s \in Sta : (Ending(s)' <=> Ending(s)) /\ (Waking(s) => Waking(s)')
    BY <2>1, Zenon DEF Ending, Waking
  <2> QED
    BY <2>1, <2>2, QuietSteps DEF beacon
<1> QED
  BY <1>1, <1>2, <1>3, <1>4, <1>5, <1>6 DEF Next

LEMMA QuietLoaded ==
  ASSUME Loaded, Quiet
  PROVE  hwtim = ietim
<1>1. ~HasCmd(cmdq, "bcn")
  BY DEF Quiet, HasCmd
<1> QED
  BY <1>1 DEF Loaded, Quiet

LEMMA BInvTold ==
  ASSUME AllOrNothing, IInv, BInv
  PROVE  StationsTold
<1> SUFFICES ASSUME Quiet, NEW s \in Sta
             PROVE  /\ Held(s) => s \in hwtim
                    /\ s \in hwtim => Held(s) \/ s \in alive
  BY DEF StationsTold
<1>1. hwtim = ietim /\ Station(s) /\ rx.pc = "idle"
  BY QuietLoaded DEF BInv, Quiet
<1>2. ~Ending(s) /\ ~Waking(s)
  BY <1>1 DEF Ending, Waking
<1>3. Held(s) <=> sleepq[s] # << >>
  <2>1. ASSUME Held(s) PROVE sleepq[s] # << >>
    BY <2>1, NonEmptyLinked DEF Held
  <2>2. ASSUME sleepq[s] # << >> PROVE Held(s)
    <3>1. sleepq[s] \in Seq(For(s)) /\ Len(sleepq[s]) \in Nat
          /\ DOMAIN sleepq[s] = 1 .. Len(sleepq[s])
          /\ \A i \in DOMAIN sleepq[s] : sleepq[s][i] \in For(s)
      BY FramesOfLists DEF IInv, Rcv
    <3>2. 1 \in DOMAIN sleepq[s]
      BY <2>2, <3>1, EmptySeq
    <3>3. Announced(sleepq[s][1])
      BY <3>1, <3>2, AllAnnounced DEF IInv
    <3> QED
      BY <3>2, <3>3 DEF Held, Linked
  <2> QED
    BY <2>1, <2>2
<1> QED
  BY <1>1, <1>2, <1>3, Zenon DEF Station, Told, Shown, OnlyHeld

LEMMA ApSleepBeacon ==
  ASSUME ~Races, AllOrNothing
  PROVE  Spec => [](IInv /\ AInv /\ BInv)
<1>1. PollsCountNothing
  BY DEF AllOrNothing, PollsCountNothing, Class
<1>2. IInv /\ AInv /\ [Next]_vars => AInv'
  BY <1>1, NextAInv
<1>3. IInv /\ AInv /\ BInv /\ [Next]_vars => BInv'
  BY NextBInv
<1>4. Init => IInv /\ AInv /\ BInv
  BY InitIInv, InitAInv, InitBInv
<1> QED
  BY <1>2, <1>3, <1>4, NextIInv, PTL DEF Spec

(***************************************************************************)
(* The TIM of stations that enable every class for U-APSD or none, for any *)
(* number of stations, of frames and of multicast frames: when all is      *)
(* quiet the beacon on air shows every station frames are held for, and no *)
(* other but one that is being probed, unless a beacon could not be        *)
(* loaded; although update_beacon is called at the first frame only, and   *)
(* four contexts change tim_bitmap.  Two updates at the same moment are    *)
(* left out: the driver has no lock against them.                          *)
(***************************************************************************)
THEOREM SleepStationsTold ==
  ASSUME ~Races, Offers \subseteq {{}, Class}
  PROVE  Spec => []StationsTold
<1>1. AllOrNothing
  BY DEF AllOrNothing
<1>2. IInv /\ BInv => StationsTold
  BY <1>1, BInvTold
<1>3. Spec => [](IInv /\ AInv /\ BInv)
  BY <1>1, ApSleepBeacon
<1> QED
  BY <1>2, <1>3, PTL
=============================================================================
