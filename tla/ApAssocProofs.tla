--------------------------- MODULE ApAssocProofs ---------------------------
(***************************************************************************)
(* Proofs about ApAssoc, for any number of stations, structures and ids.   *)
(* First the association ids: no two stations share one.  Nothing is       *)
(* needed of the lists, so that the result holds through every race of the *)
(* handlers with the expiry.  Then the lists: aging reaches every station, *)
(* and the lists are damaged only in three windows.  Last the aids again:  *)
(* a refused request is the only step that loses one.                      *)
(***************************************************************************)
EXTENDS ApAssoc, FiniteSetTheorems, SequenceTheorems, WellFoundedInduction, TLAPS

\* The types of the table and of sta_aid.
TableType ==
  /\ sta \in [Slot -> StaInfo]
  /\ sta_aid \in [Aid -> Slot \cup {NoSlot}]

\* AidsUnique is not inductive: that an aid is free is read in sta_aid, and
\* that it is in use in the structures.  The two meet here: a structure with
\* an aid is the one sta_aid has for it.  The converse is false (AidTable):
\* OnAssocReqFail forgets an aid without giving it back.
AidHeld == \A s \in Slot : sta[s].aid > 0 => sta_aid[sta[s].aid] = s

IInv == TableType /\ AidHeld

\* A set of naturals that is not empty has a least element: the intervals from
\* zero to its members, up to one of them, are finitely many and ordered by
\* inclusion.
LEMMA LeastNat ==
  ASSUME NEW T, T \subseteq Nat, T # {}
  PROVE  \E n \in T : \A j \in T : n <= j
<1>1. PICK b \in T : TRUE
  OBVIOUS
<1> DEFINE S == 0 .. b
           B == {j \in T : j <= b}
           U == {0 .. j : j \in B}
<1>2. IsFiniteSet(S)
  BY FS_Interval
<1>3. IsWellFoundedOn(StrictSubsetOrdering(S), FiniteSubsetsOf(S))
  BY FS_StrictSubsetOrderingWellFounded
<1>4. U \subseteq FiniteSubsetsOf(S) /\ U # {}
  BY <1>2, FS_Subset DEF FiniteSubsetsOf
<1>5. PICK x \in U : \A y \in U : ~(<<y, x>> \in StrictSubsetOrdering(S))
  BY <1>3, <1>4, WFMin
<1>6. PICK n \in B : x = 0 .. n
  OBVIOUS
<1>7. ASSUME NEW j \in T, ~(n <= j) PROVE FALSE
  <2>1. j \in B /\ 0 .. j \in U
    BY <1>7
  <2>2. 0 .. j \in SUBSET S /\ 0 .. n \in SUBSET S
    BY <1>7
  <2>3. 0 .. j \subseteq 0 .. n /\ 0 .. j # 0 .. n
    <3>1. n \in 0 .. n /\ n \notin 0 .. j
      BY <1>7
    <3>2. 0 .. j \subseteq 0 .. n
      BY <1>7
    <3> QED
      BY <3>1, <3>2, Zenon
  <2>4. <<0 .. j, 0 .. n>> \in StrictSubsetOrdering(S)
    BY <2>2, <2>3 DEF StrictSubsetOrdering
  <2> QED
    BY <1>5, <1>6, <2>1, <2>4
<1> QED
  BY <1>6, <1>7

-----------------------------------------------------------------------------
(* The lists.                                                              *)

\* Nth numbers the positions of a finite set: ranks are an injection, hence a
\* bijection, and Nth is its inverse.
LEMMA NthNumbers ==
  ASSUME NEW I \in SUBSET Nat, IsFiniteSet(I)
  PROVE  /\ \A k \in 1 .. Cardinality(I) : Nth(I, k) \in I
         /\ \A j, k \in 1 .. Cardinality(I) : Nth(I, j) = Nth(I, k) => j = k
         /\ \A i \in I : \E k \in 1 .. Cardinality(I) : Nth(I, k) = i
<1> DEFINE Below(i) == {j \in I : j <= i}
           rank == [i \in I |-> Cardinality(Below(i))]
           N == 1 .. Cardinality(I)
<1>1. Cardinality(I) \in Nat
  BY FS_CardinalityType
<1>2. \A i \in I : IsFiniteSet(Below(i)) /\ Cardinality(Below(i)) \in N
  <2>1. TAKE i \in I
  <2>2. IsFiniteSet(Below(i)) /\ Cardinality(Below(i)) <= Cardinality(I)
    BY FS_Subset
  <2>3. Cardinality(Below(i)) \in Nat
    BY <2>2, FS_CardinalityType
  <2>4. i \in Below(i)
    OBVIOUS
  <2>5. Cardinality(Below(i)) # 0
    BY <2>2, <2>4, FS_EmptySet
  <2> QED
    BY <1>1, <2>2, <2>3, <2>5
<1>3. \A i, j \in I : i < j => Cardinality(Below(i)) # Cardinality(Below(j))
  <2>1. SUFFICES ASSUME NEW i \in I, NEW j \in I, i < j,
                        Cardinality(Below(i)) = Cardinality(Below(j))
                 PROVE  FALSE
    OBVIOUS
  <2>2. Below(i) \in SUBSET Below(j)
    <3>1. \A x \in I : x \in Nat
      OBVIOUS
    <3>2. \A x \in I : x <= i => x <= j
      BY <2>1, <3>1
    <3> QED
      BY <3>2
  <2>3. Below(i) = Below(j)
    BY <1>2, <2>1, <2>2, FS_Subset
  <2> QED
    BY <2>1, <2>3
<1>4. rank \in [I -> N] /\ \A i, j \in I : rank[i] = rank[j] => i = j
  BY <1>2, <1>3
<1>5. rank \in Injection(I, N)
  <2> HIDE DEF rank, N
  <2> QED
    BY <1>4 DEF Injection, IsInjective
<1>6. IsFiniteSet(N) /\ Cardinality(N) = Cardinality(I)
  BY <1>1, FS_Interval
<1>7. rank \in Surjection(I, N)
  BY <1>5, <1>6, FS_Injection
<1>8. \A k \in N : Nth(I, k) \in I /\ rank[Nth(I, k)] = k
  <2>1. TAKE k \in N
  <2>2. PICK i \in I : rank[i] = k
    BY <1>7 DEF Surjection
  <2>3. Cardinality({j \in I : j <= i}) = k
    BY <2>2
  <2>4. Nth(I, k) \in I /\ Cardinality({j \in I : j <= Nth(I, k)}) = k
    BY <2>3 DEF Nth
  <2> QED
    BY <2>4
<1> HIDE DEF rank, N
<1>9. \A i \in I : rank[i] \in N /\ Nth(I, rank[i]) = i
  BY <1>4, <1>8
<1> QED
  BY <1>8, <1>9 DEF N

\* What Pick takes from a list: the entries at those positions, each once.
LEMMA PickProperties ==
  ASSUME NEW S, NEW q \in Seq(S), NEW I \in SUBSET (DOMAIN q)
  PROVE  /\ Pick(q, I) \in Seq(S) /\ Len(Pick(q, I)) = Cardinality(I)
         /\ Range(Pick(q, I)) = {q[i] : i \in I}
         /\ IsInjective(q) => IsInjective(Pick(q, I))
<1>1. DOMAIN q = 1 .. Len(q) /\ Len(q) \in Nat /\ \A i \in DOMAIN q : q[i] \in S
  BY LenProperties, ElementOfSeq
<1>2. I \in SUBSET Nat /\ IsFiniteSet(I)
  <2>1. IsFiniteSet(1 .. Len(q))
    BY <1>1, FS_Interval
  <2>2. IsFiniteSet(I)
    BY <1>1, <2>1, FS_Subset
  <2> QED
    BY <1>1, <2>2
<1> DEFINE n == Cardinality(I)  p == Pick(q, I)
<1>3. n \in Nat
  BY <1>2, FS_CardinalityType
<1>4. /\ \A k \in 1 .. n : Nth(I, k) \in I
      /\ \A j, k \in 1 .. n : Nth(I, j) = Nth(I, k) => j = k
      /\ \A i \in I : \E k \in 1 .. n : Nth(I, k) = i
  BY <1>2, NthNumbers
<1>5. p = [k \in 1 .. n |-> q[Nth(I, k)]]
  BY DEF Pick
<1> HIDE DEF p, n
<1>6. p \in [1 .. n -> S] /\ DOMAIN p = 1 .. n /\ \A k \in 1 .. n : p[k] = q[Nth(I, k)]
  BY <1>1, <1>4, <1>5
<1>7. p \in Seq(S) /\ Len(p) = n
  BY <1>3, <1>6
<1>8. Range(p) = {q[i] : i \in I}
  BY <1>4, <1>6 DEF Range
<1>9. IsInjective(q) => IsInjective(p)
  <2> SUFFICES ASSUME IsInjective(q), NEW j \in 1 .. n, NEW k \in 1 .. n, p[j] = p[k]
               PROVE  j = k
    BY <1>6 DEF IsInjective
  <2>1. q[Nth(I, j)] = q[Nth(I, k)] /\ Nth(I, j) \in DOMAIN q /\ Nth(I, k) \in DOMAIN q
    BY <1>4, <1>6
  <2>2. Nth(I, j) = Nth(I, k)
    BY <2>1 DEF IsInjective
  <2> QED
    BY <1>4, <2>2
<1> QED
  BY <1>7, <1>8, <1>9 DEF p, n

\* list_del_init of the members of S: the others stay, and the list is as much
\* shorter as it had places with one of them.
LEMMA UnlinkedProperties ==
  ASSUME NEW q \in Seq(Slot), NEW S
  PROVE  /\ Unlinked(q, S) \in Seq(Slot)
         /\ Range(Unlinked(q, S)) = Range(q) \ S
         /\ IsInjective(q) => IsInjective(Unlinked(q, S))
         /\ Range(q) \cap S = {} => Len(Unlinked(q, S)) = Len(q)
         /\ \A i \in DOMAIN q :
              (\A j \in DOMAIN q : q[j] \in S <=> j = i) =>
                Len(Unlinked(q, S)) = Len(q) - 1
<1> DEFINE I == {i \in DOMAIN q : q[i] \notin S}
<1>1. DOMAIN q = 1 .. Len(q) /\ Len(q) \in Nat
  BY LenProperties
<1>2. IsFiniteSet(DOMAIN q) /\ Cardinality(DOMAIN q) = Len(q)
  BY <1>1, FS_Interval
<1>3. I \in SUBSET (DOMAIN q) /\ Unlinked(q, S) = Pick(q, I)
  BY DEF Unlinked
<1>4. /\ Unlinked(q, S) \in Seq(Slot) /\ Len(Unlinked(q, S)) = Cardinality(I)
      /\ Range(Unlinked(q, S)) = {q[i] : i \in I}
      /\ IsInjective(q) => IsInjective(Unlinked(q, S))
  <2> HIDE DEF I
  <2> QED
    BY <1>3, PickProperties
<1>5. {q[i] : i \in I} = Range(q) \ S
  BY DEF Range
<1>6. Range(q) \cap S = {} => I = DOMAIN q
  BY DEF Range
<1>7. ASSUME NEW i \in DOMAIN q, \A j \in DOMAIN q : q[j] \in S <=> j = i
      PROVE  Cardinality(I) = Len(q) - 1
  <2>1. I = DOMAIN q \ {i}
    BY <1>7
  <2> QED
    BY <1>2, <2>1, FS_RemoveElement
<1> QED
  BY <1>2, <1>4, <1>5, <1>6, <1>7

\* The length of a list that has nothing twice.
LEMMA LenInjective ==
  ASSUME NEW q \in Seq(Slot), IsInjective(q)
  PROVE  Cardinality(Range(q)) = Len(q) /\ IsFiniteSet(Range(q))
<1>1. DOMAIN q = 1 .. Len(q) /\ Len(q) \in Nat
  BY LenProperties
<1>2. IsFiniteSet(DOMAIN q) /\ Cardinality(DOMAIN q) = Len(q)
  BY <1>1, FS_Interval
<1>3. q \in Bijection(DOMAIN q, Range(q))
  <2>1. q \in [DOMAIN q -> Range(q)]
    BY <1>1 DEF Range
  <2>2. \A s \in Range(q) : \E i \in DOMAIN q : q[i] = s
    BY DEF Range
  <2> QED
    BY <2>1, <2>2 DEF Bijection, Injection, Surjection
<1>4. ExistsBijection(DOMAIN q, Range(q))
  BY <1>3 DEF ExistsBijection
<1> QED
  BY <1>2, <1>4, FS_Bijection

\* A list made of a set has every member, and once.
LEMMA SetToSeqProperties ==
  ASSUME NEW S \in SUBSET Slot
  PROVE  /\ SetToSeq(S) \in Seq(Slot)
         /\ Range(SetToSeq(S)) = S
         /\ IsInjective(SetToSeq(S))
<1> DEFINE n == Cardinality(S)  p == SetToSeq(S)
<1>1. IsFiniteSet(S)
  BY ApAssocAssumption, FS_Subset
<1>2. n \in Nat /\ ExistsBijection(1 .. n, S)
  BY <1>1, FS_CardinalityType
<1>3. \E f \in [1 .. n -> S] : IsInjective(f)
  BY <1>2 DEF ExistsBijection, Bijection, Injection
<1>4. p \in [1 .. n -> S] /\ IsInjective(p)
  BY <1>3 DEF SetToSeq
<1>5. p \in Injection(1 .. n, S) /\ Cardinality(1 .. n) = n
  BY <1>2, <1>4, FS_Interval DEF Injection
<1>6. p \in Surjection(1 .. n, S)
  BY <1>1, <1>5, FS_Injection
<1> HIDE DEF p, n
<1>7. Range(p) = S
  BY <1>4, <1>6 DEF Surjection, Range
<1>8. p \in Seq(Slot)
  BY <1>2, <1>4
<1> QED
  BY <1>4, <1>7, <1>8 DEF p

\* A list followed by another.
LEMMA ConcatInjective ==
  ASSUME NEW q \in Seq(Slot), NEW p \in Seq(Slot), IsInjective(q), IsInjective(p),
         Range(q) \cap Range(p) = {}
  PROVE  IsInjective(q \o p)
<1> DEFINE c == q \o p
<1>1. /\ Len(q) \in Nat /\ DOMAIN q = 1 .. Len(q)
      /\ Len(p) \in Nat /\ DOMAIN p = 1 .. Len(p)
  BY LenProperties
<1>2. /\ c \in Seq(Slot) /\ Len(c) = Len(q) + Len(p)
      /\ \A i \in 1 .. Len(q) + Len(p) : c[i] = IF i <= Len(q) THEN q[i] ELSE p[i - Len(q)]
  BY ConcatProperties
<1> HIDE DEF c
<1>3. DOMAIN c = 1 .. Len(q) + Len(p)
  BY <1>2, LenProperties
<1>4. ASSUME NEW i \in DOMAIN c, NEW j \in DOMAIN c, c[i] = c[j], i < j
      PROVE  FALSE
  <2>1. CASE j <= Len(q)
    <3>1. i \in DOMAIN q /\ j \in DOMAIN q /\ q[i] = q[j]
      BY <1>1, <1>2, <1>3, <1>4, <2>1
    <3> QED
      BY <1>4, <3>1, <1>1 DEF IsInjective
  <2>2. CASE i <= Len(q) /\ ~(j <= Len(q))
    <3>1. i \in DOMAIN q /\ j - Len(q) \in DOMAIN p /\ q[i] = p[j - Len(q)]
      BY <1>1, <1>2, <1>3, <1>4, <2>2
    <3> QED
      BY <3>1 DEF Range
  <2>3. CASE ~(i <= Len(q))
    <3>1. /\ i - Len(q) \in DOMAIN p /\ j - Len(q) \in DOMAIN p
          /\ p[i - Len(q)] = p[j - Len(q)]
      BY <1>1, <1>2, <1>3, <1>4, <2>3
    <3>2. i - Len(q) = j - Len(q)
      BY <3>1 DEF IsInjective
    <3> QED
      BY <1>1, <1>3, <1>4, <3>2
  <2> QED
    BY <2>1, <2>2, <2>3, <1>1, <1>3
<1>5. \A i, j \in DOMAIN c : i < j \/ j < i \/ i = j
  BY <1>1, <1>3
<1> QED
  BY <1>4, <1>5 DEF IsInjective, c

\* list_add_tail of a structure that is not in the list.
LEMMA AppendSlot ==
  ASSUME NEW q \in Seq(Slot), NEW s \in Slot
  PROVE  /\ Append(q, s) \in Seq(Slot) /\ Len(Append(q, s)) = Len(q) + 1
         /\ Range(Append(q, s)) = Range(q) \cup {s}
         /\ IsInjective(q) /\ s \notin Range(q) => IsInjective(Append(q, s))
<1> DEFINE p == <<s>>
<1>1. p \in Seq(Slot) /\ Range(p) = {s} /\ IsInjective(p)
  BY DEF Range, IsInjective
<1>2. Append(q, s) = q \o p
  BY AppendIsConcat
<1>3. Append(q, s) \in Seq(Slot) /\ Len(Append(q, s)) = Len(q) + 1
  BY AppendProperties
<1> HIDE DEF p
<1>4. Range(q \o p) = Range(q) \cup Range(p)
  BY <1>1, RangeConcatenation
<1>5. IsInjective(q) /\ s \notin Range(q) => IsInjective(q \o p)
  BY <1>1, ConcatInjective
<1> QED
  BY <1>1, <1>2, <1>3, <1>4, <1>5

\* The queue of free structures once the first is taken.
LEMMA TailSlot ==
  ASSUME NEW q \in Seq(Slot), q # <<>>
  PROVE  /\ Head(q) \in Range(q) /\ Head(q) \in Slot /\ Tail(q) \in Seq(Slot)
         /\ Range(Tail(q)) \subseteq Range(q)
         /\ Range(q) \subseteq Range(Tail(q)) \cup {Head(q)}
         /\ IsInjective(q) => IsInjective(Tail(q)) /\ Head(q) \notin Range(Tail(q))
<1> DEFINE t == Tail(q)
<1>1. Len(q) \in Nat /\ DOMAIN q = 1 .. Len(q) /\ Len(q) # 0
  BY LenProperties, EmptySeq
<1>2. /\ t \in Seq(Slot) /\ Len(t) = Len(q) - 1 /\ Head(q) \in Slot
      /\ \A i \in 1 .. Len(t) : t[i] = q[i + 1]
  BY HeadTailProperties
<1>3. Head(q) = q[1]
  OBVIOUS
<1> HIDE DEF t
<1>4. DOMAIN t = 1 .. Len(q) - 1 /\ \A i \in DOMAIN t : i + 1 \in DOMAIN q /\ t[i] = q[i + 1]
  BY <1>1, <1>2, LenProperties
<1>5. Head(q) \in Range(q)
  BY <1>1, <1>3 DEF Range
<1>6. Range(t) \subseteq Range(q)
  BY <1>4 DEF Range
<1>7. ASSUME NEW i \in DOMAIN q PROVE q[i] \in Range(t) \cup {Head(q)}
  <2>1. CASE i = 1
    BY <1>3, <2>1
  <2>2. CASE i # 1
    <3>1. i - 1 \in DOMAIN t /\ (i - 1) + 1 = i
      BY <1>1, <1>4, <2>2
    <3>2. t[i - 1] = q[i]
      BY <1>4, <3>1
    <3> QED
      BY <3>1, <3>2 DEF Range
  <2> QED
    BY <2>1, <2>2
<1>8. Range(q) \subseteq Range(t) \cup {Head(q)}
  BY <1>7 DEF Range
<1>9. ASSUME IsInjective(q) PROVE IsInjective(t) /\ Head(q) \notin Range(t)
  <2>1. ASSUME NEW i \in DOMAIN t, NEW j \in DOMAIN t, t[i] = t[j] PROVE i = j
    <3>1. i + 1 = j + 1
      BY <1>4, <1>9, <2>1 DEF IsInjective
    <3> QED
      BY <1>1, <1>4, <3>1
  <2>2. ASSUME NEW i \in DOMAIN t PROVE t[i] # q[1]
    <3>1. i + 1 # 1 /\ 1 \in DOMAIN q
      BY <1>1, <1>4
    <3> QED
      BY <1>4, <1>9, <3>1 DEF IsInjective
  <2> QED
    BY <1>3, <2>1, <2>2 DEF IsInjective, Range
<1> QED
  BY <1>2, <1>5, <1>6, <1>8, <1>9 DEF t

-----------------------------------------------------------------------------
\* The free aid rtw_get_sta_aid finds is free.
LEMMA FreeAidIsFree ==
  ASSUME FreeAid > 0
  PROVE  FreeAid \in Aid /\ sta_aid[FreeAid] = NoSlot
<1> DEFINE F == {i \in Aid : sta_aid[i] = NoSlot}
<1>1. F # {}
  BY DEF FreeAid
<1>2. FreeAid = CHOOSE i \in F : \A j \in F : i <= j
  BY <1>1, Zenon DEF FreeAid
<1>3. \E i \in F : \A j \in F : i <= j
  <2>1. F \subseteq Nat
    BY DEF Aid
  <2> HIDE DEF F
  <2> QED
    BY <1>1, <2>1, LeastNat
<1> QED
  BY <1>2, <1>3

-----------------------------------------------------------------------------
(* What a step may do to the table.                                        *)

\* A step that gives no aid and takes none: every structure keeps its aid, or
\* is blank, or has forgotten it.
Forgets(S) ==
  \A s \in Slot : sta'[s].aid = IF s \in S THEN 0 ELSE sta[s].aid

LEMMA ForgetsKeepsHeld ==
  ASSUME IInv, TableType', NEW S, Forgets(S), UNCHANGED sta_aid
  PROVE  IInv'
BY DEF IInv, TableType, AidHeld, Forgets, StaInfo, Aid

\* rtw_free_stainfo gives back the aids of the structures it frees, and no
\* other: the entry of a structure that stays names that structure.
LEMMA FreeKeepsHeld ==
  ASSUME IInv, NEW S, FreeStainfo(S)
  PROVE  IInv'
<1> DEFINE tries(s) == IF s \in Range(cmd.chk) THEN sta[s].tries ELSE 0
           freed(s) == [Blank(NoAddr) EXCEPT !.tries = tries(s)]
<1>1. /\ sta' = [s \in Slot |-> IF s \notin S THEN sta[s] ELSE freed(s)]
      /\ sta_aid' = [i \in Aid |-> IF sta_aid[i] \in S /\ sta[sta_aid[i]].aid = i
                                   THEN NoSlot ELSE sta_aid[i]]
  BY Zenon DEF FreeStainfo
<1>2. \A s \in Slot : sta[s] \in StaInfo /\ tries(s) \in 0 .. MaxTry
  BY ApAssocAssumption DEF IInv, TableType, StaInfo
<1>3. \A s \in Slot : freed(s) \in StaInfo /\ freed(s).aid = 0
  <2> HIDE DEF tries
  <2> QED
    BY <1>2, ApAssocAssumption DEF Blank, StaInfo
<1> HIDE DEF freed
<1>4. TableType'
  BY <1>1, <1>2, <1>3 DEF IInv, TableType
<1>5. AidHeld'
  <2> SUFFICES ASSUME NEW s \in Slot, sta'[s].aid > 0
               PROVE  sta_aid'[sta'[s].aid] = s
    BY DEF AidHeld
  <2>1. s \notin S /\ sta'[s] = sta[s]
    BY <1>1, <1>3
  <2>2. sta[s].aid \in Aid /\ sta_aid[sta[s].aid] = s
    BY <1>2, <2>1 DEF IInv, AidHeld, StaInfo, Aid
  <2> QED
    BY <1>1, <2>1, <2>2
<1> QED
  BY <1>4, <1>5 DEF IInv

LEMMA ApFreeKeepsHeld ==
  ASSUME IInv, NEW S, ApFree(S)
  PROVE  IInv'
BY FreeKeepsHeld DEF ApFree

-----------------------------------------------------------------------------
(* One lemma per action that touches the table.                            *)

LEMMA StaWrites ==
  ASSUME NEW r \in StaInfo
  PROVE  /\ \A state \in SUBSET State, aid \in 0 .. MaxAid :
              [r EXCEPT !.state = state, !.aid = aid] \in StaInfo
         /\ \A state \in SUBSET State, to \in Nat, seq \in {0, 2} :
              [r EXCEPT !.state = state, !.expire_to = to, !.auth_seq = seq] \in StaInfo
         /\ \A state \in SUBSET State, to \in Nat :
              [r EXCEPT !.state = state, !.expire_to = to] \in StaInfo
         /\ \A to \in Nat, n \in 0 .. MaxTry :
              [r EXCEPT !.expire_to = to, !.tries = n] \in StaInfo
         /\ \A to \in Nat : [r EXCEPT !.expire_to = to] \in StaInfo
BY DEF StaInfo

LEMMA OnAuthKeeps ==
  ASSUME IInv, NEW a \in Addr, OnAuth(a)
  PROVE  IInv'
<1>1. PICK frame \in AuthFrame : OnAuthKnown(a, frame) \/ OnAuthNew(a, frame)
  BY DEF OnAuth
<1>2. CASE OnAuthKnown(a, frame)
  <2>1. UNCHANGED <<sta, sta_aid>>
    BY <1>2 DEF OnAuthKnown
  <2> QED
    BY <2>1 DEF IInv, TableType, AidHeld
<1>3. CASE OnAuthNew(a, frame)
  <2> DEFINE n == Head(free)
  <2>1. sta' = [sta EXCEPT ![n] = Blank(a)] /\ sta_aid' = sta_aid
    BY <1>3, Zenon DEF OnAuthNew
  <2>2. Blank(a) \in StaInfo /\ Blank(a).aid = 0
    BY ApAssocAssumption DEF Blank, StaInfo
  <2> HIDE DEF n
  <2>3. TableType'
    BY <2>1, <2>2 DEF IInv, TableType
  <2>4. Forgets({n})
    BY <2>1, <2>2 DEF IInv, TableType, Forgets
  <2> QED
    BY <2>1, <2>3, <2>4, ForgetsKeepsHeld
<1> QED
  BY <1>1, <1>2, <1>3

LEMMA OnAuthEndKeeps ==
  ASSUME IInv, OnAuthEnd
  PROVE  IInv'
<1>1. CASE FreeStainfo({rx.s})
  BY <1>1, FreeKeepsHeld
<1>2. CASE AuthAccepted(rx.s, rx.pc)
  <2> DEFINE s == rx.s
             asked == rx.pc = "shared"
             seq == IF asked /\ "AUTH_SUCCESS" \notin sta[s].state THEN 2 ELSE 0
             state == IF asked THEN sta[s].state ELSE sta[s].state \cup {"AUTH_SUCCESS"}
  <2>1. /\ sta' = [sta EXCEPT ![s].state = state, ![s].expire_to = AuthTo,
                              ![s].auth_seq = seq]
        /\ sta_aid' = sta_aid
    BY <1>2 DEF AuthAccepted
  <2>2. s \in Slot => state \in SUBSET State /\ seq \in {0, 2} /\ AuthTo \in Nat
    BY ApAssocAssumption DEF IInv, TableType, StaInfo, State
  <2> HIDE DEF state, seq, s
  <2>3. TableType'
    <3>1. sta' = [sta EXCEPT ![s] = [@ EXCEPT !.state = state, !.expire_to = AuthTo,
                                             !.auth_seq = seq]]
      BY <2>1
    <3>2. s \in Slot => [sta[s] EXCEPT !.state = state, !.expire_to = AuthTo,
                                       !.auth_seq = seq] \in StaInfo
      BY <2>2, StaWrites DEF IInv, TableType
    <3> QED
      BY <2>1, <3>1, <3>2 DEF IInv, TableType
  <2>4. Forgets({})
    BY <2>1, <2>2 DEF IInv, TableType, Forgets, StaInfo
  <2> QED
    BY <2>1, <2>3, <2>4, ForgetsKeepsHeld
<1> QED
  BY <1>1, <1>2 DEF OnAuthEnd

LEMMA OnAssocReqKeeps ==
  ASSUME IInv, NEW a \in Addr, OnAssocReq(a)
  PROVE  IInv'
<1>1. PICK s \in Slot : AssocRefused(s) \/ AssocAccepted(s)
  BY DEF OnAssocReq, Lookup
<1>2. Associating(s) \in SUBSET State
  BY DEF IInv, TableType, StaInfo, Associating
<1>3. CASE AssocRefused(s)
  <2>1. sta' = [sta EXCEPT ![s].state = Associating(s), ![s].aid = 0] /\ sta_aid' = sta_aid
    BY <1>3 DEF AssocRefused
  <2>2. TableType'
    <3>1. sta' = [sta EXCEPT ![s] = [@ EXCEPT !.state = Associating(s), !.aid = 0]]
      BY <2>1
    <3>2. [sta[s] EXCEPT !.state = Associating(s), !.aid = 0] \in StaInfo
      <4>1. 0 \in 0 .. MaxAid
        BY ApAssocAssumption
      <4> QED
        BY <1>2, <4>1, StaWrites DEF IInv, TableType
    <3> QED
      BY <2>1, <3>1, <3>2 DEF IInv, TableType
  <2>3. Forgets({s})
    BY <2>1 DEF IInv, TableType, Forgets, StaInfo
  <2> QED
    BY <2>1, <2>2, <2>3, ForgetsKeepsHeld
<1>4. CASE AssocAccepted(s) /\ sta[s].aid > 0
  <2>1. sta' = [sta EXCEPT ![s].state = Associating(s), ![s].aid = sta[s].aid]
        /\ sta_aid' = sta_aid
    BY <1>4 DEF AssocAccepted
  <2>2. TableType'
    <3>1. sta' = [sta EXCEPT ![s] = [@ EXCEPT !.state = Associating(s), !.aid = sta[s].aid]]
      BY <2>1
    <3>2. sta[s] \in StaInfo /\ sta[s].aid \in 0 .. MaxAid
      BY DEF IInv, TableType, StaInfo
    <3>3. [sta[s] EXCEPT !.state = Associating(s), !.aid = sta[s].aid] \in StaInfo
      BY <1>2, <3>2, StaWrites
    <3> QED
      BY <2>1, <3>1, <3>3 DEF IInv, TableType
  <2>3. Forgets({})
    BY <2>1 DEF IInv, TableType, Forgets, StaInfo
  <2> QED
    BY <2>1, <2>2, <2>3, ForgetsKeepsHeld
<1>5. CASE AssocAccepted(s) /\ ~(sta[s].aid > 0)
  <2>1. /\ FreeAid > 0
        /\ sta' = [sta EXCEPT ![s].state = Associating(s), ![s].aid = FreeAid]
        /\ sta_aid' = [sta_aid EXCEPT ![FreeAid] = s]
    BY <1>5 DEF AssocAccepted
  <2>2. FreeAid \in Aid /\ sta_aid[FreeAid] = NoSlot
    BY <2>1, FreeAidIsFree
  <2>3. TableType'
    <3>1. sta' = [sta EXCEPT ![s] = [@ EXCEPT !.state = Associating(s), !.aid = FreeAid]]
      BY <2>1
    <3>2. [sta[s] EXCEPT !.state = Associating(s), !.aid = FreeAid] \in StaInfo
      <4>1. FreeAid \in 0 .. MaxAid
        BY <2>2 DEF Aid
      <4> QED
        BY <1>2, <4>1, StaWrites DEF IInv, TableType
    <3> QED
      BY <2>1, <2>2, <3>1, <3>2 DEF IInv, TableType
  <2>4. \A r \in Slot : sta'[r].aid = IF r = s THEN FreeAid ELSE sta[r].aid
    BY <2>1 DEF IInv, TableType, StaInfo
  <2>5. AidHeld'
    \* The entry that is written was empty, so no other structure relied on it.
    <3> SUFFICES ASSUME NEW r \in Slot, sta'[r].aid > 0
                 PROVE  sta_aid'[sta'[r].aid] = r
      BY DEF AidHeld
    <3>1. CASE r = s
      BY <2>1, <2>2, <2>4, <3>1 DEF IInv, TableType
    <3>2. CASE r # s
      <4>1. sta[r].aid \in Aid /\ sta_aid[sta[r].aid] = r
        BY <2>4, <3>2 DEF IInv, TableType, AidHeld, StaInfo, Aid
      <4> QED
        BY <2>1, <2>2, <2>4, <3>2, <4>1, ApAssocAssumption DEF IInv, TableType
    <3> QED
      BY <3>1, <3>2
  <2> QED
    BY <2>3, <2>5 DEF IInv
<1> QED
  BY <1>1, <1>3, <1>4, <1>5

LEMMA OnAssocReqEndKeeps ==
  ASSUME IInv, OnAssocReqEnd
  PROVE  IInv'
<1> DEFINE s == rx.s
           state == sta[s].state \cup {"ASSOC_SUCCESS"}
           to == IF s \notin Range(asoc_list) THEN ExpireTo ELSE sta[s].expire_to
<1>1. sta' = [sta EXCEPT ![s].state = state, ![s].expire_to = to] /\ sta_aid' = sta_aid
  BY DEF OnAssocReqEnd
<1>2. s \in Slot => state \in SUBSET State /\ to \in Nat
  BY ApAssocAssumption DEF IInv, TableType, StaInfo, State
<1> HIDE DEF state, to, s
<1>3. TableType'
  <2>1. sta' = [sta EXCEPT ![s] = [@ EXCEPT !.state = state, !.expire_to = to]]
    BY <1>1
  <2>2. s \in Slot => [sta[s] EXCEPT !.state = state, !.expire_to = to] \in StaInfo
    BY <1>2, StaWrites DEF IInv, TableType
  <2> QED
    BY <1>1, <2>1, <2>2 DEF IInv, TableType
<1>4. Forgets({})
  BY <1>1 DEF IInv, TableType, Forgets, StaInfo
<1> QED
  BY <1>1, <1>3, <1>4, ForgetsKeepsHeld

\* Aging changes times alone.
LEMMA AgedIsTyped ==
  ASSUME IInv, NEW S, NEW s \in Slot
  PROVE  Aged(S)[s] \in StaInfo /\ Aged(S)[s].aid = sta[s].aid
<1>1. sta[s] \in StaInfo
  BY DEF IInv, TableType
<1>2. CASE s \in S /\ sta[s].expire_to > 0
  <2>1. Aged(S)[s] = [sta[s] EXCEPT !.expire_to = sta[s].expire_to - 1]
    BY <1>2 DEF Aged
  <2> QED
    BY <1>1, <1>2, <2>1 DEF StaInfo
<1>3. CASE ~(s \in S /\ sta[s].expire_to > 0)
  BY <1>1, <1>3 DEF Aged
<1> QED
  BY <1>2, <1>3

LEMMA AuthExpiresKeeps ==
  ASSUME IInv, AuthExpires
  PROVE  IInv'
<1>1. PICK S : sta' = Aged(S) /\ sta_aid' = sta_aid
  BY DEF AuthExpires
<1>2. \A s \in Slot : sta'[s] \in StaInfo /\ sta'[s].aid = sta[s].aid
  BY <1>1, AgedIsTyped
<1>3. sta' = [s \in Slot |-> sta'[s]]
  BY <1>1 DEF Aged
<1>4. TableType' /\ Forgets({})
  BY <1>1, <1>2, <1>3 DEF IInv, TableType, Forgets
<1> QED
  BY <1>1, <1>4, ForgetsKeepsHeld

LEMMA AsocWalkKeeps ==
  ASSUME IInv, AsocWalk
  PROVE  IInv'
<1> DEFINE alive(heard, s) == s \in heard \/ sta[s].expire_to = 0
           walked(heard, s) ==
             IF s \notin Range(asoc_list) THEN Aged(Range(ToAge))[s]
             ELSE IF alive(heard, s)
               THEN [sta[s] EXCEPT !.expire_to = ExpireTo, !.tries = 0]
               ELSE [sta[s] EXCEPT !.expire_to = @ - 1]
<1>1. PICK heard : sta' = [s \in Slot |-> walked(heard, s)]
  BY Zenon DEF AsocWalk
<1>2. sta_aid' = sta_aid
  BY DEF AsocWalk
<1>3. ASSUME NEW s \in Slot
      PROVE  walked(heard, s) \in StaInfo /\ walked(heard, s).aid = sta[s].aid
  <2>1. sta[s] \in StaInfo
    BY DEF IInv, TableType
  <2>2. CASE s \notin Range(asoc_list)
    BY <2>2, AgedIsTyped
  <2>3. CASE s \in Range(asoc_list) /\ alive(heard, s)
    <3>1. walked(heard, s) = [sta[s] EXCEPT !.expire_to = ExpireTo, !.tries = 0]
      BY <2>3, Zenon
    <3>2. ExpireTo \in Nat /\ 0 \in 0 .. MaxTry
      BY ApAssocAssumption
    <3>3. [sta[s] EXCEPT !.expire_to = ExpireTo, !.tries = 0] \in StaInfo
      BY <2>1, <3>2, StaWrites
    <3> QED
      BY <2>1, <3>1, <3>3 DEF StaInfo
  <2>4. CASE s \in Range(asoc_list) /\ ~alive(heard, s)
    BY <2>1, <2>4 DEF StaInfo
  <2> QED
    BY <2>2, <2>3, <2>4
<1> HIDE DEF walked
<1>4. TableType' /\ Forgets({})
  BY <1>1, <1>2, <1>3 DEF IInv, TableType, Forgets
<1> QED
  BY <1>2, <1>4, ForgetsKeepsHeld

LEMMA KeepAliveKeeps ==
  ASSUME IInv, KeepAlive
  PROVE  IInv'
<1> DEFINE s == Head(cmd.chk)
<1>1. CASE ApFree({s})
  BY <1>1, ApFreeKeepsHeld
<1>2. CASE ~ApFree({s})
  <2>1. PICK to, n : /\ to \in Nat
                     /\ s \in Slot => n \in 0 .. MaxTry
                     /\ sta' = [sta EXCEPT ![s].expire_to = to, ![s].tries = n]
                     /\ sta_aid' = sta_aid
    <3>1. CASE sta' = [sta EXCEPT ![s].expire_to = ExpireTo, ![s].tries = 0] /\ sta_aid' = sta_aid
      <4>1. ExpireTo \in Nat /\ 0 \in 0 .. MaxTry
        BY ApAssocAssumption
      <4> QED
        BY <3>1, <4>1, Zenon
    <3>2. CASE /\ sta[s].tries < MaxTry
               /\ sta' = [sta EXCEPT ![s].expire_to = 1, ![s].tries = @ + 1]
               /\ sta_aid' = sta_aid
      <4>1. s \in Slot => sta[s].tries + 1 \in 0 .. MaxTry
        BY <3>2, ApAssocAssumption DEF IInv, TableType, StaInfo
      <4> QED
        BY <3>2, <4>1
    <3> QED
      BY <1>2, <3>1, <3>2 DEF KeepAlive
  <2> HIDE DEF s
  <2>2. TableType'
    <3>1. sta' = [sta EXCEPT ![s] = [@ EXCEPT !.expire_to = to, !.tries = n]]
      BY <2>1
    <3>2. s \in Slot => [sta[s] EXCEPT !.expire_to = to, !.tries = n] \in StaInfo
      BY <2>1, StaWrites DEF IInv, TableType
    <3> QED
      BY <2>1, <3>1, <3>2 DEF IInv, TableType
  <2>3. Forgets({})
    BY <2>1 DEF IInv, TableType, Forgets, StaInfo
  <2> QED
    BY <2>1, <2>2, <2>3, ForgetsKeepsHeld
<1> QED
  BY <1>1, <1>2

-----------------------------------------------------------------------------
LEMMA InitHolds == Init => IInv
<1> SUFFICES ASSUME Init PROVE IInv
  OBVIOUS
<1>1. Blank(NoAddr) \in StaInfo /\ Blank(NoAddr).aid = 0
  BY ApAssocAssumption DEF Blank, StaInfo
<1> QED
  BY <1>1 DEF Init, IInv, TableType, AidHeld

LEMMA NextKeeps == IInv /\ [Next]_vars => IInv'
<1> SUFFICES ASSUME IInv, [Next]_vars PROVE IInv'
  OBVIOUS
<1>1. ASSUME UNCHANGED <<sta, sta_aid>> PROVE IInv'
  BY <1>1 DEF IInv, TableType, AidHeld
<1>2. ASSUME NEW a \in Addr, OnAuth(a) PROVE IInv'
  BY <1>2, OnAuthKeeps
<1>3. ASSUME NEW a \in Addr, OnAssocReq(a) PROVE IInv'
  BY <1>3, OnAssocReqKeeps
<1>4. ASSUME NEW a \in Addr, OnDeAuth(a) \/ DelSta(a) PROVE IInv'
  BY <1>4, ApFreeKeepsHeld DEF OnDeAuth, DelSta, RemoveSta
<1>5. ASSUME NEW a \in Addr, Vanish(a) PROVE IInv'
  BY <1>1, <1>5 DEF Vanish
<1>6. CASE OnAuthEnd
  BY <1>6, OnAuthEndKeeps
<1>7. CASE OnAssocReqEnd
  BY <1>7, OnAssocReqEndKeeps
<1>8. CASE StaFlush
  BY <1>8, ApFreeKeepsHeld DEF StaFlush
<1>9. CASE FreeAllStainfo
  BY <1>9, FreeKeepsHeld DEF FreeAllStainfo
<1>10. CASE AuthExpires
  BY <1>10, AuthExpiresKeeps
<1>11. CASE AuthFree
  BY <1>11, FreeKeepsHeld DEF AuthFree
<1>12. CASE AsocWalk
  BY <1>12, AsocWalkKeeps
<1>13. CASE KeepAlive
  BY <1>13, KeepAliveKeeps
<1>14. CASE Stuck \/ UNCHANGED vars
  BY <1>1, <1>14 DEF Stuck, vars
<1> QED
  BY <1>2, <1>3, <1>4, <1>5, <1>6, <1>7, <1>8, <1>9, <1>10, <1>11, <1>12, <1>13, <1>14
     DEF Next

\* No two stations share an aid, whatever mixture of refused requests,
\* repeated authentications, removals and expiries came before, and whatever
\* the races between them did to the lists.
THEOREM ApAidsUnique == Spec => []AidsUnique
<1>1. IInv => AidsUnique
  BY DEF IInv, AidHeld, AidsUnique
<1> QED
  BY <1>1, InitHolds, NextKeeps, PTL DEF Spec

-----------------------------------------------------------------------------
(* The invariant of the lists.                                             *)

\* asoc_list has nothing twice: OnAssocReq looks before it adds.
Linked ==
  /\ {free, auth_list, asoc_list} \subseteq Seq(Slot)
  /\ IsInjective(asoc_list) /\ asoc_cnt \in Int

\* What the tasklet and expire_timeout_chk carry from one step to the next.
Carried ==
  /\ rx \in [pc: AuthFrame \cup {"idle", "assoc"}, s: Slot \cup {NoSlot}]
  /\ rx.pc = "idle" <=> rx.s = NoSlot
  /\ rx.pc \in AuthFrame => rx.s \notin Range(asoc_list)
  /\ cmd \in [pc: {"idle", "auth", "gap", "alive"}, s: Slot \cup {NoSlot},
              next: Slot \cup {NoSlot}, chk: Seq(Slot)]
  /\ cmd.pc = "gap" <=> cmd.s # NoSlot
  /\ cmd.pc = "alive" => cmd.chk # <<>>

\* The hash and the free queue share the structures out, until a race damages a list.
Hashed == Sound => \A s \in Slot : InUse(s) <=> s \notin Range(free)

LInv == IInv /\ Linked /\ Carried /\ Hashed /\ AgingReaches

\* Neither expire_timeout_chk nor a handler carries a stale pointer.
Alone == cmd.pc = "idle" /\ (rx.pc = "idle" \/ InUse(rx.s))

-----------------------------------------------------------------------------
(* What a removal does to the lists.                                       *)

\* rtw_free_stainfo, seen from the lists.
LEMMA FreeFacts ==
  ASSUME LInv, NEW S \in SUBSET Slot, FreeStainfo(S)
  PROVE  /\ \A s \in Slot : InUse(s)' <=> InUse(s) /\ s \notin S
         /\ \A s \in Slot : s \notin S => sta'[s].expire_to = sta[s].expire_to
         /\ auth_list' \in Seq(Slot) /\ Range(auth_list') = Range(auth_list) \ S
         /\ free' \in Seq(Slot) /\ Range(free') = Range(free) \cup S
         /\ IsInjective(free) /\ (\A s \in S : s \notin Range(free)) => IsInjective(free')
<1> DEFINE tries(s) == IF s \in Range(cmd.chk) THEN sta[s].tries ELSE 0
           freed(s) == [Blank(NoAddr) EXCEPT !.tries = tries(s)]
           p == SetToSeq(S)
<1>1. sta' = [s \in Slot |-> IF s \notin S THEN sta[s] ELSE freed(s)]
  BY Zenon DEF FreeStainfo
<1>2. \A s : freed(s).addr = NoAddr
  BY DEF Blank
<1> HIDE DEF freed
<1>3. \A s \in Slot : sta'[s] = IF s \notin S THEN sta[s] ELSE freed(s)
  BY <1>1
<1>4. auth_list' = Unlinked(auth_list, S) /\ free' = free \o p
  BY DEF FreeStainfo
<1>5. auth_list \in Seq(Slot) /\ free \in Seq(Slot)
  BY DEF LInv, Linked
<1>6. p \in Seq(Slot) /\ Range(p) = S /\ IsInjective(p)
  BY SetToSeqProperties
<1> HIDE DEF p
<1>7. free' \in Seq(Slot) /\ Range(free') = Range(free) \cup S
  BY <1>4, <1>5, <1>6, ConcatProperties, RangeConcatenation
<1>8. IsInjective(free) /\ (\A s \in S : s \notin Range(free)) => IsInjective(free')
  BY <1>4, <1>5, <1>6, ConcatInjective
<1>9. auth_list' \in Seq(Slot) /\ Range(auth_list') = Range(auth_list) \ S
  BY <1>4, <1>5, UnlinkedProperties
<1> QED
  BY <1>2, <1>3, <1>7, <1>8, <1>9 DEF InUse

\* The count of a list with nothing twice, when one is unlinked and when all are.
LEMMA UnlinkOne ==
  ASSUME NEW q \in Seq(Slot), IsInjective(q), NEW s
  PROVE  Len(Unlinked(q, {s})) = Len(q) - (IF s \in Range(q) THEN 1 ELSE 0)
<1>1. CASE s \in Range(q)
  <2>1. PICK i \in DOMAIN q : q[i] = s
    BY <1>1 DEF Range
  <2>2. \A j \in DOMAIN q : q[j] \in {s} <=> j = i
    BY <2>1 DEF IsInjective
  <2> QED
    BY <1>1, <2>2, UnlinkedProperties
<1>2. CASE s \notin Range(q)
  <2>1. Len(Unlinked(q, {s})) = Len(q) /\ Len(q) \in Nat
    BY <1>2, UnlinkedProperties, LenProperties
  <2> QED
    BY <1>2, <2>1
<1> QED
  BY <1>1, <1>2

LEMMA UnlinkAll ==
  ASSUME NEW q \in Seq(Slot), IsInjective(q)
  PROVE  Len(Unlinked(q, Range(q))) = 0 /\ Cardinality(Range(q)) = Len(q)
<1>1. {i \in DOMAIN q : q[i] \notin Range(q)} = {}
  BY DEF Range
<1>2. Len(Pick(q, {})) = Cardinality({})
  BY PickProperties
<1> QED
  BY <1>1, <1>2, LenInjective, FS_EmptySet DEF Unlinked

-----------------------------------------------------------------------------
(* Every step keeps the lists, one lemma per action.                       *)

\* What the invariant says where the lists are sound, which every step but
\* Stuck starts from.
Orderly ==
  /\ free \in Seq(Slot) /\ auth_list \in Seq(Slot) /\ asoc_list \in Seq(Slot)
  /\ IsInjective(asoc_list) /\ asoc_cnt \in Int /\ asoc_cnt = Len(asoc_list)
  /\ IsInjective(free)
  /\ \A s \in Range(free) : s \notin Range(auth_list) /\ s \notin Range(asoc_list)
  /\ \A s \in Slot : InUse(s) <=> s \notin Range(free)
  /\ \A s \in Slot : InUse(s) /\ s # rx.s /\ s # cmd.s =>
       /\ s \in Range(auth_list) <=> s \notin Range(asoc_list)
       /\ s \in Range(auth_list) => sta[s].expire_to > 0

LEMMA SoundIsOrderly == LInv /\ Sound => Orderly
BY DEF Orderly, LInv, Linked, Sound, Hashed, AgingReaches

LEMMA OnAuthLists ==
  ASSUME LInv, NEW a \in Addr, OnAuth(a)
  PROVE  Linked' /\ Carried' /\ Hashed' /\ AgingReaches' /\ (Alone => Sound')
<1>1. PICK frame \in AuthFrame : OnAuthKnown(a, frame) \/ OnAuthNew(a, frame)
  BY DEF OnAuth
<1>2. Sound /\ rx.pc = "idle" /\ rx.s = NoSlot
  BY DEF OnAuth, LInv, Carried
<1>3. Orderly
  BY <1>2, SoundIsOrderly
<1>5. ASSUME NEW s \in Slot, rx' = [pc |-> frame, s |-> s], UNCHANGED cmd,
             s \notin Range(asoc_list')
      PROVE  Carried'
  BY <1>5, ApAssocAssumption DEF LInv, Carried, AuthFrame
<1>6. CASE OnAuthKnown(a, frame)
  <2>1. PICK s \in Slot :
          /\ sta[s].addr = a
          /\ asoc_list' = Unlinked(asoc_list, {s})
          /\ asoc_cnt' = asoc_cnt - (IF s \in Range(asoc_list) THEN 1 ELSE 0)
          /\ rx' = [pc |-> frame, s |-> s]
          /\ UNCHANGED <<sta, free, auth_list, sta_aid, host, cmd, gone>>
    BY <1>6 DEF OnAuthKnown, Lookup
  <2>2. /\ asoc_list' \in Seq(Slot) /\ IsInjective(asoc_list')
        /\ Range(asoc_list') = Range(asoc_list) \ {s}
    BY <1>3, <2>1, UnlinkedProperties DEF Orderly
  <2>3. asoc_cnt' = Len(asoc_list') /\ asoc_cnt' \in Int
    BY <1>3, <2>1, UnlinkOne DEF Orderly
  <2>4. Linked'
    BY <1>3, <2>1, <2>2, <2>3 DEF Linked, Orderly
  <2>5. Carried'
    BY <1>5, <2>1, <2>2
  <2>6. Hashed'
    BY <1>3, <2>1 DEF Hashed, InUse, Orderly
  <2>7. AgingReaches'
    BY <1>2, <1>3, <2>1, <2>2, ApAssocAssumption DEF AgingReaches, InUse, Orderly
  <2>8. Alone => Sound'
    BY <1>3, <2>1, <2>2, <2>3 DEF Alone, Sound, Orderly
  <2> QED
    BY <2>4, <2>5, <2>6, <2>7, <2>8
<1>7. CASE OnAuthNew(a, frame)
  <2>1. PICK n : n = Head(free)
    OBVIOUS
  <2>2. /\ free # <<>> /\ free' = Tail(free)
        /\ sta' = [sta EXCEPT ![n] = Blank(a)]
        /\ rx' = [pc |-> frame, s |-> n]
        /\ UNCHANGED <<auth_list, asoc_list, asoc_cnt, cmd>>
    BY <1>7, <2>1 DEF OnAuthNew, lists
  <2>3. /\ n \in Range(free) /\ n \in Slot /\ free' \in Seq(Slot)
        /\ IsInjective(free') /\ n \notin Range(free')
        /\ \A s : s # n => (s \in Range(free') <=> s \in Range(free))
    BY <1>3, <2>1, <2>2, TailSlot DEF Orderly
  <2>4. \A s \in Slot : sta'[s] = IF s = n THEN Blank(a) ELSE sta[s]
    BY <2>2, <2>3 DEF LInv, IInv, TableType
  <2>5. InUse(n)' /\ \A s \in Slot : s # n => (InUse(s)' <=> InUse(s))
    BY <2>3, <2>4, ApAssocAssumption DEF InUse, Blank
  <2>6. Linked'
    BY <1>3, <2>2, <2>3 DEF Linked, Orderly
  <2>7. Carried'
    BY <1>3, <1>5, <2>2, <2>3 DEF Orderly
  <2>8. Hashed'
    BY <1>3, <2>3, <2>5 DEF Hashed, Orderly
  <2>9. AgingReaches'
    BY <1>2, <1>3, <2>2, <2>4, <2>5, ApAssocAssumption DEF AgingReaches, Orderly
  <2>10. Alone => Sound'
    BY <1>3, <2>2, <2>3 DEF Alone, Sound, Orderly
  <2> QED
    BY <2>6, <2>7, <2>8, <2>9, <2>10
<1> QED
  BY <1>1, <1>6, <1>7

\* Freeing structures keeps the invariant, whoever frees them; the lists stay
\* sound if they were in use and have left asoc_list.
LEMMA FreeLists ==
  ASSUME LInv, Sound, NEW S \in SUBSET Slot, FreeStainfo(S),
         asoc_list' \in Seq(Slot), IsInjective(asoc_list'), asoc_cnt' \in Int,
         Range(asoc_list') \in {Range(asoc_list), Range(asoc_list) \ S},
         rx'.s = rx.s \/ rx.s \in S, cmd'.s = cmd.s \/ cmd.s \in S \cup {NoSlot}
  PROVE  /\ Linked' /\ Hashed' /\ AgingReaches'
         /\ (\A s \in S : InUse(s) /\ s \notin Range(asoc_list'))
              => /\ IsInjective(free')
                 /\ \A s \in Range(free') : s \notin Range(auth_list') \cup Range(asoc_list')
<1>1. Orderly
  BY SoundIsOrderly
<1>2. /\ \A s \in Slot : InUse(s)' <=> InUse(s) /\ s \notin S
      /\ \A s \in Slot : s \notin S => sta'[s].expire_to = sta[s].expire_to
      /\ auth_list' \in Seq(Slot) /\ Range(auth_list') = Range(auth_list) \ S
      /\ free' \in Seq(Slot) /\ Range(free') = Range(free) \cup S
      /\ IsInjective(free) /\ (\A s \in S : s \notin Range(free)) => IsInjective(free')
  BY FreeFacts
<1>3. Linked'
  BY <1>2 DEF Linked
<1>4. Hashed'
  BY <1>1, <1>2 DEF Hashed, Orderly
<1>5. AgingReaches'
  <2> SUFFICES ASSUME NEW s \in Slot, InUse(s)', s # rx'.s, s # cmd'.s
               PROVE  /\ s \in Range(auth_list') <=> s \notin Range(asoc_list')
                      /\ s \in Range(auth_list') => sta'[s].expire_to > 0
    BY DEF AgingReaches
  <2>1. s \notin S /\ InUse(s)
    BY <1>2
  <2>2. s # rx.s /\ s # cmd.s
    BY <2>1, ApAssocAssumption
  <2> QED
    BY <1>1, <1>2, <2>1, <2>2 DEF Orderly
<1>6. (\A s \in S : InUse(s) /\ s \notin Range(asoc_list'))
              => /\ IsInjective(free')
                 /\ \A s \in Range(free') : s \notin Range(auth_list') \cup Range(asoc_list')
  BY <1>1, <1>2 DEF Orderly
<1> QED
  BY <1>3, <1>4, <1>5, <1>6

\* ap_free_sta of stations that are in asoc_list.
LEMMA ApFreeLists ==
  ASSUME LInv, Sound, NEW S \in SUBSET Slot, ApFree(S), UNCHANGED rx,
         cmd'.s = cmd.s, IsFiniteSet(S)
  PROVE  /\ Linked' /\ Hashed' /\ AgingReaches'
         /\ Range(asoc_list') = Range(asoc_list) \ S
         /\ (\A s \in S : InUse(s))
              => /\ IsInjective(free')
                 /\ \A s \in Range(free') : s \notin Range(auth_list') \cup Range(asoc_list')
<1>1. Orderly
  BY SoundIsOrderly
<1>2. /\ asoc_list' = Unlinked(asoc_list, S) /\ asoc_cnt' = asoc_cnt - Cardinality(S)
      /\ FreeStainfo(S)
  BY DEF ApFree
<1>3. /\ asoc_list' \in Seq(Slot) /\ IsInjective(asoc_list')
      /\ Range(asoc_list') = Range(asoc_list) \ S
  BY <1>1, <1>2, UnlinkedProperties DEF Orderly
<1>4. asoc_cnt' \in Int
  BY <1>1, <1>2, FS_CardinalityType DEF Orderly
<1> QED
  BY <1>2, <1>3, <1>4, FreeLists

LEMMA RemoveStaLists ==
  ASSUME LInv, NEW a \in Addr, RemoveSta(a)
  PROVE  Linked' /\ Carried' /\ Hashed' /\ AgingReaches' /\ (Alone => Sound')
<1>1. PICK s \in Slot : s \in Range(asoc_list) /\ InUse(s) /\ ApFree({s})
  BY ApAssocAssumption DEF RemoveSta, Lookup, InUse
<1>2. Sound /\ UNCHANGED <<rx, cmd>>
  BY DEF RemoveSta
<1>3. Orderly
  BY <1>2, SoundIsOrderly
<1>4. IsFiniteSet({s}) /\ Cardinality({s}) = 1
  BY FS_Singleton
<1>5. /\ Linked' /\ Hashed' /\ AgingReaches'
      /\ Range(asoc_list') = Range(asoc_list) \ {s}
      /\ IsInjective(free')
      /\ \A r \in Range(free') : r \notin Range(auth_list') \cup Range(asoc_list')
  BY <1>1, <1>2, <1>4, ApFreeLists
<1>6. Carried'
  BY <1>2, <1>5 DEF LInv, Carried
<1>7. asoc_cnt' = Len(asoc_list')
  <2>1. asoc_list' = Unlinked(asoc_list, {s}) /\ asoc_cnt' = asoc_cnt - 1
    BY <1>1, <1>4 DEF ApFree
  <2> QED
    BY <1>1, <1>3, <2>1, UnlinkOne DEF Orderly
<1>8. Alone => Sound'
  BY <1>2, <1>5, <1>7 DEF Alone, Sound
<1> QED
  BY <1>5, <1>6, <1>8

LEMMA StaFlushLists ==
  ASSUME LInv, StaFlush
  PROVE  Linked' /\ Carried' /\ Hashed' /\ AgingReaches' /\ (Alone => Sound')
<1>1. Sound /\ UNCHANGED <<rx, cmd>> /\ ApFree(Range(asoc_list))
  BY DEF StaFlush
<1>2. Orderly
  BY <1>1, SoundIsOrderly
<1>3. Range(asoc_list) \in SUBSET Slot /\ IsFiniteSet(Range(asoc_list))
  BY <1>2, LenInjective, RangeOfSeq DEF Orderly
<1>4. \A s \in Range(asoc_list) : InUse(s)
  BY <1>2, <1>3 DEF Orderly
<1>5. /\ Linked' /\ Hashed' /\ AgingReaches'
      /\ Range(asoc_list') = Range(asoc_list) \ Range(asoc_list)
      /\ IsInjective(free')
      /\ \A r \in Range(free') : r \notin Range(auth_list') \cup Range(asoc_list')
  BY <1>1, <1>3, <1>4, ApFreeLists
<1>6. Carried'
  BY <1>1, <1>5 DEF LInv, Carried
<1>7. asoc_cnt' = Len(asoc_list')
  <2>1. /\ asoc_list' = Unlinked(asoc_list, Range(asoc_list))
        /\ asoc_cnt' = asoc_cnt - Cardinality(Range(asoc_list))
    BY <1>1 DEF ApFree
  <2> QED
    BY <1>2, <2>1, UnlinkAll DEF Orderly
<1>8. Alone => Sound'
  BY <1>1, <1>5, <1>7 DEF Alone, Sound
<1> QED
  BY <1>5, <1>6, <1>8

LEMMA FreeAllLists ==
  ASSUME LInv, FreeAllStainfo
  PROVE  /\ Linked' /\ Carried' /\ Hashed' /\ AgingReaches'
         /\ Alone /\ asoc_list = <<>> => Sound'
<1> DEFINE S == {s \in Slot : sta[s].addr # NoAddr}
<1>1. Sound /\ UNCHANGED <<asoc_list, asoc_cnt, rx, cmd>> /\ FreeStainfo(S)
  BY DEF FreeAllStainfo
<1>2. Orderly
  BY <1>1, SoundIsOrderly
<1>3. S \in SUBSET Slot /\ \A s \in S : InUse(s)
  BY DEF InUse
<1> HIDE DEF S
<1>4. asoc_list = <<>> => Range(asoc_list) = {}
  BY DEF Range
<1>5. /\ Linked' /\ Hashed' /\ AgingReaches'
      /\ asoc_list = <<>> =>
           /\ IsInjective(free')
           /\ \A r \in Range(free') : r \notin Range(auth_list') \cup Range(asoc_list')
  <2>1. /\ asoc_list' \in Seq(Slot) /\ IsInjective(asoc_list') /\ asoc_cnt' \in Int
        /\ Range(asoc_list') = Range(asoc_list) /\ rx'.s = rx.s /\ cmd'.s = cmd.s
    BY <1>1, <1>2 DEF Orderly
  <2>2. asoc_list = <<>> => \A s \in S : s \notin Range(asoc_list')
    BY <1>4, <2>1
  <2> QED
    BY <1>1, <1>3, <2>1, <2>2, FreeLists
<1>6. Carried'
  BY <1>1 DEF LInv, Carried
<1>7. Alone /\ asoc_list = <<>> => Sound'
  BY <1>1, <1>2, <1>5 DEF Alone, Sound, Orderly
<1> QED
  BY <1>5, <1>6, <1>7

LEMMA OnAuthEndLists ==
  ASSUME LInv, OnAuthEnd
  PROVE  Linked' /\ Carried' /\ Hashed' /\ AgingReaches' /\ (Alone => Sound')
<1>1. PICK s : s = rx.s
  OBVIOUS
<1>2. Sound /\ rx' = RxIdle /\ UNCHANGED <<asoc_list, asoc_cnt, cmd>> /\ rx.pc \in AuthFrame
  BY DEF OnAuthEnd
<1>3. Orderly
  BY <1>2, SoundIsOrderly
<1>4. s \in Slot /\ s \notin Range(asoc_list)
  BY <1>1, <1>2 DEF LInv, Carried, AuthFrame
<1>5. rx'.s = NoSlot /\ rx'.pc = "idle"
  BY <1>2 DEF RxIdle
<1>6. Carried'
  <2>1. rx' \in [pc: AuthFrame \cup {"idle", "assoc"}, s: Slot \cup {NoSlot}]
    BY <1>2 DEF RxIdle
  <2>2. rx'.pc \notin AuthFrame
    BY <1>5 DEF AuthFrame
  <2> QED
    BY <1>2, <1>5, <2>1, <2>2 DEF LInv, Carried
<1>7. CASE FreeStainfo({s})
  <2>1. asoc_list' \in Seq(Slot) /\ IsInjective(asoc_list') /\ asoc_cnt' \in Int
    BY <1>2, <1>3 DEF Orderly
  <2>2. /\ Linked' /\ Hashed' /\ AgingReaches'
        /\ InUse(s) => /\ IsInjective(free')
                       /\ \A r \in Range(free') :
                            r \notin Range(auth_list') \cup Range(asoc_list')
    BY <1>1, <1>2, <1>4, <1>7, <2>1, FreeLists
  <2>3. Alone => Sound'
    <3> SUFFICES ASSUME Alone PROVE Sound'
      OBVIOUS
    <3>1. InUse(s) /\ cmd'.pc = "idle"
      BY <1>1, <1>2 DEF Alone, AuthFrame
    <3> QED
      BY <1>2, <1>3, <2>2, <3>1 DEF Sound, Orderly
  <2> QED
    BY <1>6, <2>2, <2>3
<1>8. CASE AuthAccepted(s, rx.pc)
  <2>1. PICK state, seq : sta' = [sta EXCEPT ![s].state = state, ![s].expire_to = AuthTo,
                                            ![s].auth_seq = seq]
    BY <1>8 DEF AuthAccepted
  <2>2. /\ auth_list' = IF s \in Range(auth_list) THEN auth_list ELSE Append(auth_list, s)
        /\ UNCHANGED free
    BY <1>8 DEF AuthAccepted
  <2>3. auth_list' \in Seq(Slot) /\ Range(auth_list') = Range(auth_list) \cup {s}
    BY <1>3, <1>4, <2>2, AppendSlot DEF Orderly
  <2>4. /\ sta'[s].expire_to = AuthTo /\ AuthTo > 0
        /\ \A r \in Slot : sta'[r].addr = sta[r].addr
        /\ \A r \in Slot : r # s => sta'[r].expire_to = sta[r].expire_to
    BY <1>4, <2>1, ApAssocAssumption DEF LInv, IInv, TableType, StaInfo
  <2>5. Linked'
    BY <1>2, <1>3, <2>2, <2>3 DEF Linked, Orderly
  <2>6. Hashed'
    BY <1>3, <2>2, <2>4 DEF Hashed, InUse, Orderly
  <2>7. AgingReaches'
    BY <1>1, <1>2, <1>3, <1>4, <2>3, <2>4 DEF AgingReaches, InUse, Orderly
  <2>8. Alone => Sound'
    <3> SUFFICES ASSUME Alone PROVE Sound'
      OBVIOUS
    <3>1. s \notin Range(free) /\ cmd'.pc = "idle"
      BY <1>1, <1>2, <1>3, <1>4 DEF Alone, AuthFrame, Orderly
    <3> QED
      BY <1>2, <1>3, <2>2, <2>3, <3>1 DEF Sound, Orderly
  <2> QED
    BY <1>6, <2>5, <2>6, <2>7, <2>8
<1> QED
  BY <1>1, <1>7, <1>8 DEF OnAuthEnd

LEMMA OnAssocReqLists ==
  ASSUME LInv, NEW a \in Addr, OnAssocReq(a)
  PROVE  Linked' /\ Carried' /\ Hashed' /\ AgingReaches' /\ (Alone => Sound')
<1>1. PICK s \in Slot : AssocRefused(s) \/ AssocAccepted(s)
  BY DEF OnAssocReq, Lookup
<1>2. Sound /\ rx.pc = "idle" /\ UNCHANGED <<free, auth_list, asoc_list, asoc_cnt, cmd>>
  BY DEF OnAssocReq, lists
<1>3. Orderly
  BY <1>2, SoundIsOrderly
<1>4. PICK state, aid : sta' = [sta EXCEPT ![s].state = state, ![s].aid = aid]
  BY <1>1 DEF AssocRefused, AssocAccepted
<1>5. \A r \in Slot : sta'[r].addr = sta[r].addr /\ sta'[r].expire_to = sta[r].expire_to
  BY <1>4 DEF LInv, IInv, TableType, StaInfo
<1>6. rx' = rx \/ rx' = [pc |-> "assoc", s |-> s]
  BY <1>1 DEF AssocRefused, AssocAccepted
<1>7. Linked'
  BY <1>2 DEF LInv, Linked
<1>8. Carried'
  BY <1>2, <1>6, ApAssocAssumption DEF LInv, Carried, AuthFrame
<1>9. Hashed'
  BY <1>2, <1>3, <1>5 DEF Hashed, InUse, Orderly
<1>10. rx.s = NoSlot
  BY <1>2 DEF LInv, Carried
<1>11. AgingReaches'
  BY <1>2, <1>3, <1>5, <1>10, ApAssocAssumption DEF AgingReaches, InUse, Orderly
<1>12. Sound'
  BY <1>2 DEF Sound
<1> QED
  BY <1>7, <1>8, <1>9, <1>11, <1>12

LEMMA OnAssocReqEndLists ==
  ASSUME LInv, OnAssocReqEnd
  PROVE  Linked' /\ Carried' /\ Hashed' /\ AgingReaches' /\ (Alone => Sound')
<1>1. PICK s : s = rx.s
  OBVIOUS
<1>2. /\ Sound /\ rx.pc = "assoc" /\ rx' = RxIdle /\ UNCHANGED <<free, cmd>>
      /\ auth_list' = Unlinked(auth_list, {s})
      /\ asoc_list' = IF s \notin Range(asoc_list) THEN Append(asoc_list, s) ELSE asoc_list
      /\ asoc_cnt' = asoc_cnt + (IF s \notin Range(asoc_list) THEN 1 ELSE 0)
  BY <1>1 DEF OnAssocReqEnd
<1>3. Orderly
  BY <1>2, SoundIsOrderly
<1>4. s \in Slot
  BY <1>1, <1>2 DEF LInv, Carried
<1>5. PICK state, to : sta' = [sta EXCEPT ![s].state = state, ![s].expire_to = to]
  BY <1>1 DEF OnAssocReqEnd
<1>6. \A r \in Slot : /\ sta'[r].addr = sta[r].addr
                      /\ r # s => sta'[r].expire_to = sta[r].expire_to
  BY <1>4, <1>5 DEF LInv, IInv, TableType, StaInfo
<1>7. auth_list' \in Seq(Slot) /\ Range(auth_list') = Range(auth_list) \ {s}
  BY <1>2, <1>3, UnlinkedProperties DEF Orderly
<1>8. /\ asoc_list' \in Seq(Slot) /\ IsInjective(asoc_list')
      /\ Range(asoc_list') = Range(asoc_list) \cup {s}
      /\ asoc_cnt' = Len(asoc_list') /\ asoc_cnt' \in Int
  <2>1. CASE s \in Range(asoc_list)
    BY <1>2, <1>3, <2>1 DEF Orderly
  <2>2. CASE s \notin Range(asoc_list)
    <3>1. asoc_list' = Append(asoc_list, s) /\ asoc_cnt' = asoc_cnt + 1
      BY <1>2, <2>2
    <3> QED
      BY <1>3, <1>4, <2>2, <3>1, AppendSlot DEF Orderly
  <2> QED
    BY <2>1, <2>2
<1>9. rx'.s = NoSlot /\ rx'.pc = "idle"
  BY <1>2 DEF RxIdle
<1>10. Linked'
  BY <1>2, <1>3, <1>7, <1>8 DEF Linked, Orderly
<1>11. Carried'
  <2>1. rx' \in [pc: AuthFrame \cup {"idle", "assoc"}, s: Slot \cup {NoSlot}]
    BY <1>2 DEF RxIdle
  <2>2. rx'.pc \notin AuthFrame
    BY <1>9 DEF AuthFrame
  <2> QED
    BY <1>2, <1>9, <2>1, <2>2 DEF LInv, Carried
<1>12. Hashed'
  BY <1>2, <1>3, <1>6 DEF Hashed, InUse, Orderly
<1>13. AgingReaches'
  BY <1>1, <1>2, <1>3, <1>4, <1>6, <1>7, <1>8 DEF AgingReaches, InUse, Orderly
<1>14. Alone => Sound'
  <2> SUFFICES ASSUME Alone PROVE Sound'
    OBVIOUS
  <2>1. s \notin Range(free) /\ cmd'.pc = "idle"
    BY <1>1, <1>2, <1>3, <1>4 DEF Alone, Orderly
  <2> QED
    BY <1>2, <1>3, <1>7, <1>8, <2>1 DEF Sound, Orderly
<1> QED
  BY <1>10, <1>11, <1>12, <1>13, <1>14

LEMMA AuthFreeLists ==
  ASSUME LInv, AuthFree
  PROVE  Linked' /\ Carried' /\ Hashed' /\ AgingReaches' /\ (Alone => Sound')
<1>1. PICK s : s = cmd.s
  OBVIOUS
<1>2. /\ Sound /\ cmd.pc = "gap" /\ FreeStainfo({s})
      /\ cmd' = [cmd EXCEPT !.pc = "auth", !.s = NoSlot]
      /\ UNCHANGED <<asoc_list, asoc_cnt, rx>>
  BY <1>1 DEF AuthFree
<1>3. Orderly
  BY <1>2, SoundIsOrderly
<1>4. s \in Slot
  BY <1>1, <1>2 DEF LInv, Carried
<1>5. asoc_list' \in Seq(Slot) /\ IsInjective(asoc_list') /\ asoc_cnt' \in Int
  BY <1>2, <1>3 DEF Orderly
<1>6. Linked' /\ Hashed' /\ AgingReaches'
  BY <1>1, <1>2, <1>4, <1>5, FreeLists
<1>7. Carried'
  BY <1>2 DEF LInv, Carried
<1> QED
  BY <1>2, <1>6, <1>7 DEF Alone

\* What is left of the walk is a part of auth_list: where it goes on is still
\* there, as long as the lists are sound.
LEMMA ToAgeProperties ==
  ASSUME LInv, Walking
  PROVE  ToAge \in Seq(Slot) /\ Range(ToAge) \subseteq Range(auth_list)
<1> DEFINE n == Len(auth_list)
           from == IF cmd.pc = "idle" THEN 1
                   ELSE IF cmd.next = NoSlot THEN n + 1
                   ELSE CHOOSE i \in 1 .. n : auth_list[i] = cmd.next
           t == SubSeq(auth_list, from, n)
<1>1. /\ auth_list \in Seq(Slot) /\ n \in Nat /\ DOMAIN auth_list = 1 .. n
      /\ \A i \in 1 .. n : auth_list[i] \in Slot
  BY LenProperties, ElementOfSeq DEF LInv, Linked
<1>2. ToAge = t
  BY DEF ToAge
<1>3. from \in Int /\ from >= 1
  <2>1. CASE cmd.pc = "idle" \/ cmd.next = NoSlot
    BY <1>1, <2>1
  <2>2. CASE cmd.pc # "idle" /\ cmd.next # NoSlot
    <3>1. cmd.next \in Range(auth_list)
      BY <2>2 DEF Walking, Sound
    <3>2. \E i \in 1 .. n : auth_list[i] = cmd.next
      BY <1>1, <3>1 DEF Range
    <3>3. from = CHOOSE i \in 1 .. n : auth_list[i] = cmd.next
      BY <2>2
    <3>4. from \in 1 .. n
      BY <3>2, <3>3
    <3> QED
      BY <1>1, <3>4
  <2> QED
    BY <2>1, <2>2
<1> HIDE DEF from
<1>4. \A i \in from .. n : i \in 1 .. n /\ auth_list[i] \in Slot
  BY <1>1, <1>3
<1>5. /\ t \in Seq(Slot)
      /\ Len(t) = IF from <= n THEN n - from + 1 ELSE 0
      /\ \A i \in 1 .. n - from + 1 : t[i] = auth_list[from + i - 1]
  BY <1>1, <1>3, <1>4, SubSeqProperties
<1> HIDE DEF t, n
<1>6. ASSUME NEW i \in DOMAIN t PROVE t[i] \in Range(auth_list)
  <2>1. i \in 1 .. Len(t)
    BY <1>5, <1>6, LenProperties
  <2>2. i \in 1 .. n - from + 1 /\ from + i - 1 \in 1 .. n
    BY <1>1, <1>3, <1>5, <2>1
  <2> QED
    BY <1>1, <1>5, <2>2 DEF Range
<1> QED
  BY <1>2, <1>5, <1>6 DEF Range

\* Aging takes the time of no station to zero but where it would have found
\* one: a station has time left unless it had one round or none.
LEMMA AgedLeaves ==
  ASSUME LInv, NEW S, NEW s \in Slot
  PROVE  /\ Aged(S)[s].addr = sta[s].addr
         /\ sta[s].expire_to > 0 /\ (s \in S => sta[s].expire_to # 1)
              => Aged(S)[s].expire_to > 0
<1>1. sta[s] \in StaInfo
  BY DEF LInv, IInv, TableType
<1>2. CASE s \in S /\ sta[s].expire_to > 0
  <2>1. Aged(S)[s] = [sta[s] EXCEPT !.expire_to = sta[s].expire_to - 1]
    BY <1>2 DEF Aged
  <2> QED
    BY <1>1, <1>2, <2>1 DEF StaInfo
<1>3. CASE ~(s \in S /\ sta[s].expire_to > 0)
  BY <1>1, <1>3 DEF Aged
<1> QED
  BY <1>2, <1>3

LEMMA AuthExpiresLists ==
  ASSUME LInv, AuthExpires
  PROVE  Linked' /\ Carried' /\ Hashed' /\ AgingReaches' /\ (Alone => Sound')
<1>1. /\ Walking /\ Sound /\ Expiring # {}
      /\ UNCHANGED <<free, asoc_list, asoc_cnt, rx>>
  BY DEF AuthExpires, Walking
<1>2. Orderly
  BY <1>1, SoundIsOrderly
<1>3. PICK t : t = ToAge
  OBVIOUS
<1>4. t \in Seq(Slot) /\ Range(t) \subseteq Range(auth_list)
  BY <1>1, <1>3, ToAgeProperties
<1>5. DOMAIN t = 1 .. Len(t) /\ Len(t) \in Nat /\ \A i \in DOMAIN t : t[i] \in Slot
  BY <1>4, LenProperties, ElementOfSeq
<1>6. Expiring = {i \in DOMAIN t : sta[t[i]].expire_to = 1}
  BY <1>3 DEF Expiring
<1>7. PICK i : i = CHOOSE j \in Expiring : \A k \in Expiring : j <= k
  OBVIOUS
<1>8. i \in Expiring /\ \A k \in Expiring : i <= k
  <2>1. Expiring \subseteq Nat
    BY <1>5, <1>6
  <2>2. \E j \in Expiring : \A k \in Expiring : j <= k
    BY <1>1, <2>1, LeastNat
  <2> QED
    BY <1>7, <2>2
<1>9. PICK s : s = t[i]
  OBVIOUS
<1>10. s \in Slot /\ i \in DOMAIN t /\ s \in Range(t)
  BY <1>5, <1>6, <1>8, <1>9 DEF Range
<1>11. /\ sta' = Aged({t[j] : j \in 1 .. i})
       /\ auth_list' = Unlinked(auth_list, {s})
       /\ cmd' = [cmd EXCEPT !.pc = "gap", !.s = s,
                             !.next = IF i < Len(t) THEN t[i + 1] ELSE NoSlot]
  BY <1>3, <1>7, <1>9 DEF AuthExpires
<1>12. auth_list' \in Seq(Slot) /\ Range(auth_list') = Range(auth_list) \ {s}
  BY <1>2, <1>11, UnlinkedProperties DEF Orderly
<1>13. cmd.pc # "gap" /\ cmd.s = NoSlot
  BY <1>1 DEF Walking, LInv, Carried
<1>14. (IF i < Len(t) THEN t[i + 1] ELSE NoSlot) \in Slot \cup {NoSlot}
  <2>1. i < Len(t) => i + 1 \in DOMAIN t
    BY <1>5, <1>10
  <2> QED
    BY <1>5, <2>1
<1>15. /\ cmd'.pc = "gap" /\ cmd'.s = s
       /\ cmd' \in [pc: {"idle", "auth", "gap", "alive"}, s: Slot \cup {NoSlot},
                    next: Slot \cup {NoSlot}, chk: Seq(Slot)]
  BY <1>10, <1>11, <1>14 DEF LInv, Carried
<1>16. Linked'
  BY <1>1, <1>2, <1>12 DEF Linked, Orderly
<1>17. Carried'
  BY <1>1, <1>10, <1>15, ApAssocAssumption DEF LInv, Carried
<1>18. \A r \in Slot : sta'[r].addr = sta[r].addr
  BY <1>11, AgedLeaves
<1>19. Hashed'
  BY <1>1, <1>2, <1>18 DEF Hashed, InUse, Orderly
<1>20. AgingReaches'
  <2> SUFFICES ASSUME NEW r \in Slot, InUse(r)', r # rx'.s, r # cmd'.s
               PROVE  /\ r \in Range(auth_list') <=> r \notin Range(asoc_list')
                      /\ r \in Range(auth_list') => sta'[r].expire_to > 0
    BY DEF AgingReaches
  <2>1. InUse(r) /\ r # rx.s /\ r # s /\ r # cmd.s
    BY <1>1, <1>13, <1>15, <1>18, ApAssocAssumption DEF InUse
  <2>2. /\ r \in Range(auth_list) <=> r \notin Range(asoc_list)
        /\ r \in Range(auth_list) => sta[r].expire_to > 0
    BY <1>2, <2>1 DEF Orderly
  \* The walk stopped at the first whose time ran out: it passed no other.
  <2>3. r \in {t[j] : j \in 1 .. i} => sta[r].expire_to # 1
    <3> SUFFICES ASSUME NEW j \in 1 .. i, r = t[j], sta[r].expire_to = 1 PROVE FALSE
      OBVIOUS
    <3>1. j \in DOMAIN t
      BY <1>5, <1>10
    <3>2. j \in Expiring
      BY <1>6, <3>1
    <3>3. j = i
      BY <1>5, <1>8, <1>10, <3>1, <3>2
    <3> QED
      BY <1>9, <2>1, <3>3
  <2>4. r \in Range(auth_list) => sta'[r].expire_to > 0
    BY <1>11, <2>2, <2>3, AgedLeaves
  <2> QED
    BY <1>1, <1>12, <2>1, <2>2, <2>4
<1>21. Sound'
  BY <1>1, <1>2, <1>12, <1>15 DEF Sound, Orderly
<1> QED
  BY <1>16, <1>17, <1>19, <1>20, <1>21

LEMMA AsocWalkLists ==
  ASSUME LInv, AsocWalk
  PROVE  Linked' /\ Carried' /\ Hashed' /\ AgingReaches' /\ (Alone => Sound')
<1> DEFINE alive(heard, s) == s \in heard \/ sta[s].expire_to = 0
           out(heard, s) == ~alive(heard, s) /\ sta[s].expire_to = 1
           late(heard) == Pick(asoc_list, {i \in DOMAIN asoc_list : out(heard, asoc_list[i])})
           walked(heard, s) ==
             IF s \notin Range(asoc_list) THEN Aged(Range(ToAge))[s]
             ELSE IF alive(heard, s)
               THEN [sta[s] EXCEPT !.expire_to = ExpireTo, !.tries = 0]
               ELSE [sta[s] EXCEPT !.expire_to = @ - 1]
<1>1. /\ Walking /\ Sound /\ Expiring = {}
      /\ UNCHANGED <<free, auth_list, asoc_list, asoc_cnt, rx>>
  BY DEF AsocWalk, Walking, lists
<1>2. Orderly
  BY <1>1, SoundIsOrderly
<1>3. PICK heard : /\ sta' = [s \in Slot |-> walked(heard, s)]
                   /\ cmd' = [CmdIdle EXCEPT !.pc = IF late(heard) = <<>> THEN "idle" ELSE "alive",
                                             !.chk = late(heard)]
  BY Zenon DEF AsocWalk
<1>4. PICK chk : chk = late(heard)
  OBVIOUS
<1>5. chk \in Seq(Slot)
  BY <1>2, <1>4, PickProperties DEF Orderly
<1>6. cmd' = [CmdIdle EXCEPT !.pc = IF chk = <<>> THEN "idle" ELSE "alive", !.chk = chk]
  BY <1>3, <1>4
<1> HIDE DEF late
<1>7. /\ cmd' \in [pc: {"idle", "auth", "gap", "alive"}, s: Slot \cup {NoSlot},
                   next: Slot \cup {NoSlot}, chk: Seq(Slot)]
      /\ cmd'.s = NoSlot /\ cmd'.pc \notin {"gap", "auth"}
      /\ cmd'.pc = "alive" => cmd'.chk # <<>>
  BY <1>5, <1>6 DEF CmdIdle
<1>8. ASSUME NEW s \in Slot
      PROVE  /\ sta'[s].addr = sta[s].addr
             /\ s \notin Range(asoc_list) => sta'[s] = Aged(Range(ToAge))[s]
  <2>1. sta'[s] = walked(heard, s)
    BY <1>3
  <2>2. sta[s] \in StaInfo
    BY DEF LInv, IInv, TableType
  <2>3. CASE s \notin Range(asoc_list)
    <3>1. walked(heard, s) = Aged(Range(ToAge))[s]
      BY <2>3
    <3> QED
      BY <2>1, <3>1, AgedLeaves
  <2>4. CASE s \in Range(asoc_list)
    <3>1. \/ walked(heard, s) = [sta[s] EXCEPT !.expire_to = ExpireTo, !.tries = 0]
          \/ walked(heard, s) = [sta[s] EXCEPT !.expire_to = @ - 1]
      BY <2>4, Zenon
    <3> QED
      BY <2>1, <2>2, <2>4, <3>1 DEF StaInfo
  <2> QED
    BY <2>3, <2>4
<1> HIDE DEF walked
<1>9. cmd.s = NoSlot
  BY <1>1 DEF Walking, LInv, Carried
<1>10. Linked'
  BY <1>1, <1>2 DEF Linked, Orderly
<1>11. Carried'
  BY <1>1, <1>7 DEF LInv, Carried
<1>12. Hashed'
  BY <1>1, <1>2, <1>8 DEF Hashed, InUse, Orderly
<1>13. AgingReaches'
  <2> SUFFICES ASSUME NEW r \in Slot, InUse(r)', r # rx'.s, r # cmd'.s
               PROVE  /\ r \in Range(auth_list') <=> r \notin Range(asoc_list')
                      /\ r \in Range(auth_list') => sta'[r].expire_to > 0
    BY DEF AgingReaches
  <2>1. InUse(r) /\ r # rx.s /\ r # cmd.s
    BY <1>1, <1>8, <1>9, ApAssocAssumption DEF InUse
  <2>2. /\ r \in Range(auth_list) <=> r \notin Range(asoc_list)
        /\ r \in Range(auth_list) => sta[r].expire_to > 0
    BY <1>2, <2>1 DEF Orderly
  <2>3. r \in Range(ToAge) => sta[r].expire_to # 1
    BY <1>1 DEF Range, Expiring
  <2>4. r \in Range(auth_list) => sta'[r].expire_to > 0
    BY <1>8, <2>2, <2>3, AgedLeaves
  <2> QED
    BY <1>1, <2>2, <2>4
<1>14. Sound'
  BY <1>1, <1>2, <1>7 DEF Sound, Orderly
<1> QED
  BY <1>10, <1>11, <1>12, <1>13, <1>14

LEMMA KeepAliveLists ==
  ASSUME LInv, KeepAlive
  PROVE  Linked' /\ Carried' /\ Hashed' /\ AgingReaches' /\ (Alone => Sound')
<1>1. PICK s : s = Head(cmd.chk)
  OBVIOUS
<1>2. /\ Sound /\ cmd.pc = "alive" /\ UNCHANGED rx
      /\ cmd' = [cmd EXCEPT !.chk = Tail(cmd.chk),
                            !.pc = IF Len(cmd.chk) = 1 THEN "idle" ELSE cmd.pc]
  BY DEF KeepAlive
<1>3. Orderly
  BY <1>2, SoundIsOrderly
<1>4. cmd.chk \in Seq(Slot) /\ cmd.chk # <<>> /\ cmd.s = NoSlot
  BY <1>2 DEF LInv, Carried
<1>5. s \in Slot /\ Tail(cmd.chk) \in Seq(Slot)
  BY <1>1, <1>4, TailSlot
<1>6. Len(cmd.chk) # 1 => Tail(cmd.chk) # <<>>
  <2>1. Len(Tail(cmd.chk)) = Len(cmd.chk) - 1 /\ Len(cmd.chk) \in Nat /\ Len(cmd.chk) # 0
    BY <1>4, HeadTailProperties, LenProperties, EmptySeq
  <2>2. Len(<<>>) = 0
    OBVIOUS
  <2>3. ASSUME Tail(cmd.chk) = <<>> PROVE Len(cmd.chk) = 1
    <3>1. Len(Tail(cmd.chk)) = 0
      BY <2>2, <2>3, Zenon
    <3> QED
      BY <2>1, <3>1
  <2> QED
    BY <2>3
<1>7. /\ cmd' \in [pc: {"idle", "auth", "gap", "alive"}, s: Slot \cup {NoSlot},
                   next: Slot \cup {NoSlot}, chk: Seq(Slot)]
      /\ cmd'.s = cmd.s /\ cmd'.pc # "gap"
      /\ cmd'.pc = "alive" => cmd'.chk # <<>>
  BY <1>2, <1>5, <1>6 DEF LInv, Carried
<1>8. ~Alone
  BY <1>2 DEF Alone
<1>9. ASSUME Range(asoc_list') \subseteq Range(asoc_list)
      PROVE  Carried'
  BY <1>2, <1>4, <1>7, <1>9 DEF LInv, Carried
<1>10. CASE ApFree({s})
  <2>1. IsFiniteSet({s})
    BY FS_Singleton
  <2>2. Linked' /\ Hashed' /\ AgingReaches' /\ Range(asoc_list') = Range(asoc_list) \ {s}
    BY <1>2, <1>5, <1>7, <1>10, <2>1, ApFreeLists
  <2> QED
    BY <1>8, <1>9, <2>2
<1>11. CASE ~ApFree({s})
  <2>1. PICK to, n : /\ to \in Nat \ {0}
                     /\ sta' = [sta EXCEPT ![s].expire_to = to, ![s].tries = n]
                     /\ UNCHANGED <<free, auth_list, asoc_list, asoc_cnt>>
    <3>1. CASE /\ sta' = [sta EXCEPT ![s].expire_to = ExpireTo, ![s].tries = 0]
               /\ UNCHANGED <<free, lists, sta_aid, host>>
      BY <3>1, ApAssocAssumption DEF lists
    <3>2. CASE /\ sta' = [sta EXCEPT ![s].expire_to = 1, ![s].tries = @ + 1]
               /\ UNCHANGED <<free, lists, sta_aid, host>>
      <4>1. 1 \in Nat \ {0}
        OBVIOUS
      <4>2. sta' = [sta EXCEPT ![s].expire_to = 1, ![s].tries = sta[s].tries + 1]
        BY <1>5, <3>2 DEF LInv, IInv, TableType, StaInfo
      <4>3. UNCHANGED <<free, auth_list, asoc_list, asoc_cnt>>
        BY <3>2 DEF lists
      <4> QED
        BY <4>1, <4>2, <4>3, Zenon
    <3> QED
      BY <1>1, <1>11, <3>1, <3>2, Zenon DEF KeepAlive
  <2>2. \A r \in Slot : /\ sta'[r].addr = sta[r].addr
                        /\ sta'[r].expire_to = IF r = s THEN to ELSE sta[r].expire_to
    BY <1>5, <2>1 DEF LInv, IInv, TableType, StaInfo
  <2>3. Linked'
    BY <1>3, <2>1 DEF Linked, Orderly
  <2>4. Hashed'
    BY <1>3, <2>1, <2>2 DEF Hashed, InUse, Orderly
  <2>5. AgingReaches'
    <3> SUFFICES ASSUME NEW r \in Slot, InUse(r)', r # rx'.s, r # cmd'.s
                 PROVE  /\ r \in Range(auth_list') <=> r \notin Range(asoc_list')
                        /\ r \in Range(auth_list') => sta'[r].expire_to > 0
      BY DEF AgingReaches
    <3>1. InUse(r) /\ r # rx.s /\ r # cmd.s
      BY <1>2, <1>7, <2>2 DEF InUse
    <3>2. /\ r \in Range(auth_list) <=> r \notin Range(asoc_list)
          /\ r \in Range(auth_list) => sta[r].expire_to > 0
      BY <1>3, <3>1 DEF Orderly
    <3>3. r \in Range(auth_list) => sta'[r].expire_to > 0
      <4>1. CASE r = s
        <5>1. sta'[r].expire_to = to
          BY <2>2, <4>1
        <5>2. to > 0
          BY <2>1
        <5> QED
          BY <5>1, <5>2
      <4>2. CASE r # s
        <5>1. sta'[r].expire_to = sta[r].expire_to
          BY <2>2, <4>2
        <5> QED
          BY <3>2, <5>1
      <4> QED
        BY <4>1, <4>2
    <3> QED
      BY <2>1, <3>2, <3>3
  <2> QED
    BY <1>8, <1>9, <2>1, <2>3, <2>4, <2>5
<1> QED
  BY <1>10, <1>11

LEMMA ListsInit == Init => LInv
<1> SUFFICES ASSUME Init PROVE LInv
  OBVIOUS
<1>1. free \in Seq(Slot) /\ Range(free) = Slot
  BY SetToSeqProperties DEF Init
<1>2. \A s \in Slot : ~InUse(s)
  BY DEF Init, InUse, Blank
<1>3. Linked
  <2>1. <<>> \in Seq(Slot) /\ IsInjective(<<>>)
    BY DEF IsInjective
  <2> QED
    BY <1>1, <2>1 DEF Init, Linked
<1>4. Carried
  BY ApAssocAssumption DEF Init, Carried, RxIdle, CmdIdle, AuthFrame
<1>5. Hashed /\ AgingReaches
  BY <1>1, <1>2 DEF Hashed, AgingReaches
<1> QED
  BY <1>3, <1>4, <1>5, InitHolds DEF LInv

LEMMA ListsNext ==
  ASSUME LInv, Next
  PROVE  /\ LInv'
         /\ Alone => Sound' \/ UNCHANGED vars \/ (asoc_list # <<>> /\ FreeAllStainfo)
<1>1. ASSUME UNCHANGED <<sta, free, auth_list, asoc_list, asoc_cnt, rx, cmd>>
      PROVE  Linked' /\ Carried' /\ Hashed' /\ AgingReaches' /\ (Sound => Sound')
  <2>1. Linked'
    BY <1>1 DEF LInv, Linked
  <2>2. Carried'
    BY <1>1 DEF LInv, Carried
  <2>3. Sound' <=> Sound
    BY <1>1 DEF Sound
  <2>4. Hashed' /\ AgingReaches'
    BY <1>1, <2>3 DEF LInv, Hashed, AgingReaches, InUse
  <2> QED
    BY <2>1, <2>2, <2>3, <2>4
<1>2. ASSUME NEW a \in Addr, OnAuth(a)
      PROVE  Linked' /\ Carried' /\ Hashed' /\ AgingReaches' /\ (Alone => Sound')
  BY <1>2, OnAuthLists
<1>3. ASSUME NEW a \in Addr, OnAssocReq(a)
      PROVE  Linked' /\ Carried' /\ Hashed' /\ AgingReaches' /\ (Alone => Sound')
  BY <1>3, OnAssocReqLists
<1>4. ASSUME NEW a \in Addr, OnDeAuth(a) \/ DelSta(a)
      PROVE  Linked' /\ Carried' /\ Hashed' /\ AgingReaches' /\ (Alone => Sound')
  BY <1>4, RemoveStaLists DEF OnDeAuth, DelSta
<1>5. ASSUME NEW a \in Addr, Vanish(a)
      PROVE  Linked' /\ Carried' /\ Hashed' /\ AgingReaches' /\ (Alone => Sound')
  BY <1>1, <1>5 DEF Vanish, lists
<1>6. CASE OnAuthEnd
  BY <1>6, OnAuthEndLists, NextKeeps DEF LInv
<1>7. CASE OnAssocReqEnd
  BY <1>7, OnAssocReqEndLists, NextKeeps DEF LInv
<1>8. CASE StaFlush
  BY <1>8, StaFlushLists, NextKeeps DEF LInv
<1>9. CASE FreeAllStainfo
  BY <1>9, FreeAllLists, NextKeeps DEF LInv
<1>10. CASE AuthExpires
  BY <1>10, AuthExpiresLists, NextKeeps DEF LInv
<1>11. CASE AuthFree
  BY <1>11, AuthFreeLists, NextKeeps DEF LInv
<1>12. CASE AsocWalk
  BY <1>12, AsocWalkLists, NextKeeps DEF LInv
<1>13. CASE KeepAlive
  BY <1>13, KeepAliveLists, NextKeeps DEF LInv
<1>14. CASE Stuck
  <2>1. UNCHANGED vars
    BY <1>14 DEF Stuck
  <2> QED
    BY <1>1, <2>1, NextKeeps DEF LInv, vars, lists
<1> QED
  BY <1>2, <1>3, <1>4, <1>5, <1>6, <1>7, <1>8, <1>9, <1>10, <1>11, <1>12, <1>13, <1>14,
     NextKeeps DEF Next, LInv

LEMMA ListsKept == LInv /\ [Next]_vars => LInv'
<1>1. ASSUME LInv, UNCHANGED vars PROVE LInv'
  <2>1. IInv'
    BY <1>1, NextKeeps DEF LInv
  <2>2. UNCHANGED <<sta, free, auth_list, asoc_list, asoc_cnt, rx, cmd>>
    BY <1>1 DEF vars, lists
  <2>3. Linked' /\ Carried' /\ Hashed' /\ AgingReaches'
    BY <1>1, <2>2 DEF LInv, Linked, Carried, Hashed, AgingReaches, InUse, Sound
  <2> QED
    BY <2>1, <2>3 DEF LInv
<1> QED
  BY <1>1, ListsNext

\* Every structure in use is in exactly one of the lists, and in auth_list with
\* time left, but for the one a handler or the expiry carries: aging reaches
\* every station, however handlers, expiry and ioctls interleave, as long as no
\* race has damaged a list.
THEOREM ApAgingReaches == Spec => []AgingReaches
<1>1. LInv => AgingReaches
  BY DEF LInv
<1> QED
  BY <1>1, ListsInit, ListsKept, PTL DEF Spec

\* A list is damaged only in one of three windows: by what expire_timeout_chk
\* remembers over an unlock, by a handler whose station was freed under it, or
\* by rtw_free_all_stainfo while stations are in asoc_list.
THEOREM ApSoundUnlessRaced == Spec => SoundUnlessRaced
<1>1. LInv /\ [Next]_vars =>
        [Sound' \/ cmd.pc \in {"gap", "auth", "alive"} \/ (rx.pc # "idle" /\ ~InUse(rx.s))
                \/ (asoc_list # <<>> /\ FreeAllStainfo)]_vars
  <2>1. ASSUME LInv, Next, cmd.pc \notin {"gap", "auth", "alive"},
               ~(rx.pc # "idle" /\ ~InUse(rx.s))
        PROVE  Sound' \/ UNCHANGED vars \/ (asoc_list # <<>> /\ FreeAllStainfo)
    <3>1. Alone
      BY <2>1 DEF LInv, Carried, Alone
    <3> QED
      BY <2>1, <3>1, ListsNext
  <2> QED
    BY <2>1
<1> QED
  BY <1>1, ListsInit, ListsKept, PTL DEF Spec, SoundUnlessRaced

-----------------------------------------------------------------------------
(* The aids that are lost.                                                 *)

\* A structure that is not hashed has no aid: what is allocated had none.
Nameless == \A s \in Slot : ~InUse(s) => sta[s].aid = 0

\* A step that leaves addresses, aids and sta_aid alone.
Bystander ==
  /\ \A s \in Slot : sta'[s].addr = sta[s].addr /\ sta'[s].aid = sta[s].aid
  /\ UNCHANGED sta_aid

\* What the theorem says of a step.
LosesByRefusal ==
  \A i \in Aid : LostAid(i)' =>
    LostAid(i) \/ \E s \in Slot : sta_aid[i] = s /\ AssocRefused(s)

LEMMA BystanderLosesNone ==
  ASSUME IInv, IInv', Nameless, Bystander
  PROVE  Nameless' /\ LosesByRefusal
<1>1. Nameless'
  BY DEF Nameless, Bystander, InUse
<1>2. \A i \in Aid : sta_aid[i] = NoSlot \/ sta_aid[i] \in Slot
  BY DEF IInv, TableType
<1> QED
  BY <1>1, <1>2 DEF Bystander, LosesByRefusal, LostAid

\* rtw_free_stainfo gives back what its structures have.
LEMMA FreeLosesNone ==
  ASSUME IInv, Nameless, NEW S, FreeStainfo(S)
  PROVE  Nameless' /\ LosesByRefusal
<1> DEFINE tries(s) == IF s \in Range(cmd.chk) THEN sta[s].tries ELSE 0
           freed(s) == [Blank(NoAddr) EXCEPT !.tries = tries(s)]
<1>1. /\ sta' = [s \in Slot |-> IF s \notin S THEN sta[s] ELSE freed(s)]
      /\ sta_aid' = [i \in Aid |-> IF sta_aid[i] \in S /\ sta[sta_aid[i]].aid = i
                                   THEN NoSlot ELSE sta_aid[i]]
  BY Zenon DEF FreeStainfo
<1>2. \A s : freed(s).aid = 0
  BY DEF Blank
<1> HIDE DEF freed
<1>3. \A s \in Slot : sta'[s] = IF s \notin S THEN sta[s] ELSE freed(s)
  BY <1>1
<1>4. Nameless'
  BY <1>2, <1>3 DEF Nameless, InUse
<1>5. LosesByRefusal
  <2> SUFFICES ASSUME NEW i \in Aid, LostAid(i)' PROVE LostAid(i)
    BY DEF LosesByRefusal
  <2>1. sta_aid'[i] = sta_aid[i] /\ sta_aid[i] # NoSlot /\ sta_aid[i] \in Slot
    BY <1>1 DEF LostAid, IInv, TableType
  <2>2. ~(sta_aid[i] \in S /\ sta[sta_aid[i]].aid = i)
    BY <1>1, <2>1
  <2> QED
    BY <1>3, <2>1, <2>2 DEF LostAid
<1> QED
  BY <1>4, <1>5

LEMMA OnAuthLosesNone ==
  ASSUME LInv, IInv', Nameless, NEW a \in Addr, OnAuth(a)
  PROVE  Nameless' /\ LosesByRefusal
<1>1. PICK frame \in AuthFrame : OnAuthKnown(a, frame) \/ OnAuthNew(a, frame)
  BY DEF OnAuth
<1>2. CASE OnAuthKnown(a, frame)
  <2>1. Bystander
    BY <1>2 DEF OnAuthKnown, Bystander
  <2> QED
    BY <2>1, BystanderLosesNone DEF LInv
<1>3. CASE OnAuthNew(a, frame)
  \* The structure comes from the free queue, so nothing is forgotten with it.
  <2> DEFINE n == Head(free)
  <2>1. sta' = [sta EXCEPT ![n] = Blank(a)] /\ sta_aid' = sta_aid
    BY <1>3, Zenon DEF OnAuthNew
  <2>2. n \in Slot /\ sta[n].aid = 0
    <3>1. free # <<>> /\ Sound /\ free \in Seq(Slot)
      BY <1>3 DEF OnAuthNew, OnAuth, LInv, Linked
    <3>2. n \in Slot /\ n \in Range(free)
      BY <3>1 DEF Range
    <3> QED
      BY <3>1, <3>2 DEF LInv, Hashed, Nameless
  <2>3. Blank(a).aid = 0 /\ Blank(a).addr = a /\ a # NoAddr
    BY ApAssocAssumption DEF Blank
  <2> HIDE DEF n
  <2>4. \A s \in Slot : sta'[s].aid = sta[s].aid /\ (s # n => sta'[s] = sta[s])
    BY <2>1, <2>2, <2>3 DEF LInv, IInv, TableType
  <2>5. Nameless'
    BY <2>1, <2>2, <2>3, <2>4 DEF Nameless, InUse
  <2>6. \A i \in Aid : sta_aid[i] = NoSlot \/ sta_aid[i] \in Slot
    BY DEF LInv, IInv, TableType
  <2> QED
    BY <2>1, <2>4, <2>5, <2>6 DEF LosesByRefusal, LostAid
<1> QED
  BY <1>1, <1>2, <1>3

LEMMA OnAssocReqLosesOwn ==
  ASSUME IInv, IInv', Nameless, NEW a \in Addr, OnAssocReq(a)
  PROVE  Nameless' /\ LosesByRefusal
<1>1. PICK s \in Slot : sta[s].addr = a /\ (AssocRefused(s) \/ AssocAccepted(s))
  BY DEF OnAssocReq, Lookup
<1>2. InUse(s) /\ sta[s] \in StaInfo
  BY <1>1, ApAssocAssumption DEF InUse, IInv, TableType
<1>3. \A i \in Aid : sta_aid[i] = NoSlot \/ sta_aid[i] \in Slot
  BY DEF IInv, TableType
<1>4. CASE AssocRefused(s)
  <2>1. sta' = [sta EXCEPT ![s].state = Associating(s), ![s].aid = 0] /\ sta_aid' = sta_aid
    BY <1>4 DEF AssocRefused
  <2>2. \A r \in Slot : sta'[r].addr = sta[r].addr /\ (r # s => sta'[r].aid = sta[r].aid)
    BY <1>2, <2>1 DEF IInv, TableType, StaInfo
  <2>3. Nameless'
    BY <1>2, <2>2 DEF Nameless, InUse
  <2>4. ASSUME NEW i \in Aid, LostAid(i)', ~LostAid(i) PROVE sta_aid[i] = s
    BY <1>3, <2>1, <2>2, <2>4 DEF LostAid
  <2> QED
    BY <1>4, <2>3, <2>4 DEF LosesByRefusal
<1>5. CASE AssocAccepted(s) /\ sta[s].aid > 0
  <2>1. sta' = [sta EXCEPT ![s].state = Associating(s), ![s].aid = sta[s].aid]
        /\ sta_aid' = sta_aid
    BY <1>5 DEF AssocAccepted
  <2>2. Bystander
    BY <1>2, <2>1 DEF IInv, TableType, StaInfo, Bystander
  <2> QED
    BY <2>2, BystanderLosesNone
<1>6. CASE AssocAccepted(s) /\ ~(sta[s].aid > 0)
  <2>1. /\ FreeAid > 0
        /\ sta' = [sta EXCEPT ![s].state = Associating(s), ![s].aid = FreeAid]
        /\ sta_aid' = [sta_aid EXCEPT ![FreeAid] = s]
    BY <1>6 DEF AssocAccepted
  <2>2. FreeAid \in Aid
    BY <2>1, FreeAidIsFree
  <2>3. /\ \A r \in Slot : sta'[r].addr = sta[r].addr /\ (r # s => sta'[r].aid = sta[r].aid)
        /\ sta'[s].aid = FreeAid
    BY <1>2, <2>1 DEF IInv, TableType, StaInfo
  <2>4. Nameless'
    BY <1>2, <2>3 DEF Nameless, InUse
  <2>5. ASSUME NEW i \in Aid, LostAid(i)' PROVE LostAid(i)
    <3>1. i # FreeAid
      BY <2>1, <2>2, <2>3, <2>5 DEF LostAid, IInv, TableType
    <3>2. sta_aid'[i] = sta_aid[i]
      BY <2>1, <3>1 DEF IInv, TableType
    <3>3. sta[s].aid # i
      BY <1>2, <1>6 DEF StaInfo, Aid
    <3> QED
      BY <1>3, <2>3, <2>5, <3>2, <3>3 DEF LostAid
  <2> QED
    BY <2>4, <2>5 DEF LosesByRefusal
<1> QED
  BY <1>1, <1>4, <1>5, <1>6

\* The handlers' second halves and the walks change states and times alone.
LEMMA HandlersAreBystanders ==
  ASSUME IInv
  PROVE  /\ OnAuthEnd => Bystander \/ FreeStainfo({rx.s})
         /\ OnAssocReqEnd => Bystander
<1>1. ASSUME OnAuthEnd, ~FreeStainfo({rx.s}) PROVE Bystander
  <2>1. AuthAccepted(rx.s, rx.pc)
    BY <1>1, Zenon DEF OnAuthEnd
  <2>2. PICK state, seq : /\ sta' = [sta EXCEPT ![rx.s].state = state, ![rx.s].expire_to = AuthTo,
                                               ![rx.s].auth_seq = seq]
                          /\ sta_aid' = sta_aid
    BY <2>1 DEF AuthAccepted
  <2> QED
    BY <2>2 DEF Bystander, IInv, TableType, StaInfo
<1>2. ASSUME OnAssocReqEnd PROVE Bystander
  BY <1>2 DEF OnAssocReqEnd, Bystander, IInv, TableType, StaInfo
<1> QED
  BY <1>1, <1>2

LEMMA WalksAreBystanders ==
  ASSUME IInv
  PROVE  /\ AuthExpires \/ AsocWalk => Bystander
         /\ KeepAlive => Bystander \/ FreeStainfo({Head(cmd.chk)})
<1>1. ASSUME NEW S, NEW s \in Slot
      PROVE  Aged(S)[s].addr = sta[s].addr /\ Aged(S)[s].aid = sta[s].aid
  BY DEF Aged, IInv, TableType, StaInfo
<1>2. ASSUME AuthExpires PROVE Bystander
  <2>1. PICK S : sta' = Aged(S) /\ sta_aid' = sta_aid
    BY <1>2 DEF AuthExpires
  <2> QED
    BY <1>1, <2>1 DEF Bystander
<1>3. ASSUME AsocWalk PROVE Bystander
  <2> DEFINE walked(heard, s) ==
               IF s \notin Range(asoc_list) THEN Aged(Range(ToAge))[s]
               ELSE IF s \in heard \/ sta[s].expire_to = 0
                 THEN [sta[s] EXCEPT !.expire_to = ExpireTo, !.tries = 0]
                 ELSE [sta[s] EXCEPT !.expire_to = @ - 1]
  <2>1. PICK heard : sta' = [s \in Slot |-> walked(heard, s)]
    BY <1>3, Zenon DEF AsocWalk
  <2>2. sta_aid' = sta_aid
    BY <1>3, Zenon DEF AsocWalk
  <2>3. ASSUME NEW s \in Slot
        PROVE  walked(heard, s).addr = sta[s].addr /\ walked(heard, s).aid = sta[s].aid
    BY <1>1 DEF IInv, TableType, StaInfo
  <2> HIDE DEF walked
  <2> QED
    BY <2>1, <2>2, <2>3 DEF Bystander
<1>4. ASSUME KeepAlive, ~FreeStainfo({Head(cmd.chk)}) PROVE Bystander
  <2>1. ~ApFree({Head(cmd.chk)})
    BY <1>4 DEF ApFree
  <2>2. PICK to, n : /\ sta' = [sta EXCEPT ![Head(cmd.chk)].expire_to = to,
                                          ![Head(cmd.chk)].tries = n]
                     /\ sta_aid' = sta_aid
    BY <1>4, <2>1 DEF KeepAlive
  <2> QED
    BY <2>2 DEF Bystander, IInv, TableType, StaInfo
<1> QED
  BY <1>2, <1>3, <1>4

LEMMA NextLosesByRefusal ==
  ASSUME LInv, IInv', Nameless, [Next]_vars
  PROVE  Nameless' /\ LosesByRefusal
<1> USE DEF LInv
<1>1. ASSUME Bystander PROVE Nameless' /\ LosesByRefusal
  BY <1>1, BystanderLosesNone
<1>2. ASSUME NEW S, FreeStainfo(S) PROVE Nameless' /\ LosesByRefusal
  BY <1>2, FreeLosesNone
<1>3. ASSUME NEW a \in Addr, OnAuth(a) PROVE Nameless' /\ LosesByRefusal
  BY <1>3, OnAuthLosesNone
<1>4. ASSUME NEW a \in Addr, OnAssocReq(a) PROVE Nameless' /\ LosesByRefusal
  BY <1>4, OnAssocReqLosesOwn
<1>5. ASSUME NEW a \in Addr, OnDeAuth(a) \/ DelSta(a) \/ Vanish(a)
      PROVE  Nameless' /\ LosesByRefusal
  <2>1. CASE Vanish(a)
    BY <1>1, <2>1 DEF Vanish, Bystander
  <2>2. CASE OnDeAuth(a) \/ DelSta(a)
    <3>1. \E S : FreeStainfo(S)
      BY <2>2, Zenon DEF OnDeAuth, DelSta, RemoveSta, ApFree
    <3> QED
      BY <1>2, <3>1
  <2> QED
    BY <1>5, <2>1, <2>2
<1>6. CASE OnAuthEnd \/ OnAssocReqEnd
  BY <1>1, <1>2, <1>6, HandlersAreBystanders
<1>7. CASE StaFlush \/ FreeAllStainfo \/ AuthFree
  <2>1. \E S : FreeStainfo(S)
    BY <1>7, Zenon DEF StaFlush, FreeAllStainfo, AuthFree, ApFree
  <2> QED
    BY <1>2, <2>1
<1>8. CASE AuthExpires \/ AsocWalk \/ KeepAlive
  BY <1>1, <1>2, <1>8, WalksAreBystanders
<1>9. CASE Stuck \/ UNCHANGED vars
  <2>1. Bystander
    BY <1>9 DEF Stuck, vars, Bystander
  <2> QED
    BY <1>1, <2>1
<1> QED
  BY <1>3, <1>4, <1>5, <1>6, <1>7, <1>8, <1>9 DEF Next

\* An aid is lost, its entry in sta_aid occupied by a structure that no longer
\* has it, only when OnAssocReqFail refuses the station that had it: neither
\* removal, expiry and reuse of structures nor the races between them lose one.
THEOREM ApAidsLostByRefusal == Spec => AidsLostByRefusal
<1> DEFINE Inv == LInv /\ Nameless
<1>1. Init => Inv
  <2>1. Init => Nameless
    BY DEF Init, Nameless, Blank
  <2> QED
    BY <2>1, ListsInit
<1>2. Inv /\ [Next]_vars => Inv' /\ [LosesByRefusal]_vars
  <2>1. LInv /\ [Next]_vars => LInv' /\ IInv'
    BY ListsKept DEF LInv
  <2> QED
    BY <2>1, NextLosesByRefusal
<1> QED
  BY <1>1, <1>2, PTL DEF Spec, AidsLostByRefusal, LosesByRefusal
=============================================================================
