--------------------------- MODULE RecvPathProofs ---------------------------
(***************************************************************************)
(* Theorems about RecvPath for any number of buffers and sk_buffs, and any *)
(* number of stops, errors and refused transfers.                          *)
(***************************************************************************)
EXTENDS RecvPath, SequenceTheorems, TLAPS

\* A buffer that is about to read again reuses its sk_buff or has none.
ReadsWithoutLoss == \A b \in Buf : buf[b].urb = "read" => buf[b].reuse \/ buf[b].pskb = NoSkb

\* The buffers usb_read_port_cancel has passed stay idle until the next start.
KilledAreIdle ==
  life.pc \in {"mark", "wait"} => \A b \in 1 .. life.i - 1 : buf[b].urb = "idle"

IInv == TypeOK /\ OneOwner /\ RxServed /\ ReadsOnce /\ KilledAreIdle /\ ReadsWithoutLoss

-----------------------------------------------------------------------------
(* The queue of received sk_buffs as a set. *)

LEMMA AppendSkb ==
  ASSUME NEW s \in Seq(Skb), NEW x \in Skb
  PROVE  /\ Append(s, x) \in Seq(Skb) /\ Append(s, x) # << >>
         /\ Range(Append(s, x)) = Range(s) \cup {x}
         /\ IsInjective(s) /\ x \notin Range(s) => IsInjective(Append(s, x))
         /\ s = << >> => Len(Append(s, x)) <= 1
<1>1. /\ DOMAIN Append(s, x) = 1 .. Len(s) + 1
      /\ DOMAIN s = 1 .. Len(s) /\ Len(s) \in Nat
      /\ \A i \in 1 .. Len(s) : Append(s, x)[i] = s[i]
      /\ Append(s, x)[Len(s) + 1] = x
      /\ Append(s, x) \in Seq(Skb) /\ Append(s, x) # << >>
      /\ s = << >> => Len(Append(s, x)) <= 1
  OBVIOUS
<1>2. Range(Append(s, x)) = Range(s) \cup {x}
  BY <1>1 DEF Range
<1>3. ASSUME IsInjective(s), x \notin Range(s) PROVE IsInjective(Append(s, x))
  <2> SUFFICES ASSUME NEW i \in 1 .. Len(s) + 1, NEW j \in 1 .. Len(s) + 1,
                      Append(s, x)[i] = Append(s, x)[j]
               PROVE  i = j
    BY <1>1 DEF IsInjective
  <2>1. \A k \in 1 .. Len(s) : s[k] # x
    BY <1>1, <1>3 DEF Range
  <2>2. CASE i \in 1 .. Len(s) /\ j \in 1 .. Len(s)
    BY <1>1, <1>3, <2>2 DEF IsInjective
  <2>3. CASE i = Len(s) + 1 \/ j = Len(s) + 1
    BY <1>1, <2>1, <2>3
  <2> QED
    BY <1>1, <2>2, <2>3
<1> QED
  BY <1>1, <1>2, <1>3

LEMMA TailSkb ==
  ASSUME NEW s \in Seq(Skb), s # << >>, IsInjective(s)
  PROVE  /\ Head(s) \in Skb /\ Tail(s) \in Seq(Skb)
         /\ Range(Tail(s)) = Range(s) \ {Head(s)} /\ Head(s) \in Range(s)
         /\ IsInjective(Tail(s))
<1>1. /\ DOMAIN s = 1 .. Len(s) /\ Len(s) \in Nat /\ Len(s) > 0
      /\ DOMAIN Tail(s) = 1 .. Len(s) - 1
      /\ \A i \in 1 .. Len(s) - 1 : Tail(s)[i] = s[i + 1]
      /\ Head(s) = s[1] /\ Head(s) \in Skb /\ Tail(s) \in Seq(Skb)
  OBVIOUS
<1>2. Head(s) \in Range(s)
  BY <1>1 DEF Range
<1>3. IsInjective(Tail(s))
  <2> SUFFICES ASSUME NEW i \in 1 .. Len(s) - 1, NEW j \in 1 .. Len(s) - 1,
                      s[i + 1] = s[j + 1]
               PROVE  i = j
    BY <1>1 DEF IsInjective
  <2>1. i + 1 \in DOMAIN s /\ j + 1 \in DOMAIN s
    BY <1>1
  <2>2. i + 1 = j + 1
    BY <2>1 DEF IsInjective
  <2> QED
    BY <2>2
<1>4. ASSUME NEW x \in Range(Tail(s)) PROVE x \in Range(s) \ {Head(s)}
  <2>1. PICK i \in 1 .. Len(s) - 1 : x = s[i + 1]
    BY <1>1, <1>4 DEF Range
  <2>2. i + 1 \in DOMAIN s /\ 1 \in DOMAIN s /\ i + 1 # 1
    BY <1>1
  <2> QED
    BY <1>1, <2>1, <2>2 DEF Range, IsInjective
<1>5. ASSUME NEW x \in Range(s) \ {Head(s)} PROVE x \in Range(Tail(s))
  <2>1. PICK j \in 1 .. Len(s) : x = s[j]
    BY <1>1, <1>5 DEF Range
  <2>2. j - 1 \in 1 .. Len(s) - 1 /\ (j - 1) + 1 = j
    BY <1>1, <1>5, <2>1
  <2>3. Tail(s)[j - 1] = x /\ j - 1 \in DOMAIN Tail(s)
    BY <1>1, <2>1, <2>2
  <2> QED
    BY <2>3 DEF Range
<1> QED
  BY <1>1, <1>2, <1>3, <1>4, <1>5

\* The choice of an sk_buff yields one of those there are.
LEMMA AnyOfIn == ASSUME NEW S, S # {} PROVE AnyOf(S) \in S
  BY DEF AnyOf

-----------------------------------------------------------------------------
(* Changing one buffer. *)

BufRec == [pskb : Skb \cup {NoSkb}, reuse : BOOLEAN, urb : {"idle", "urb", "read"}]

\* The buffer b becomes r, and nothing else changes in buf.
LEMMA BufUpdate ==
  ASSUME buf \in [Buf -> BufRec], NEW b \in Buf, NEW r \in BufRec, buf' = [buf EXCEPT ![b] = r]
  PROVE  buf' \in [Buf -> BufRec] /\ buf'[b] = r /\ \A c \in Buf \ {b} : buf'[c] = buf[c]
  OBVIOUS

\* A buffer that no longer refers to its sk_buff, or still does, gives no other
\* buffer's sk_buff a second owner.
LEMMA OwnersKept ==
  ASSUME OneOwner, NEW b \in Buf, buf'[b].pskb \in {NoSkb, buf[b].pskb},
         \A c \in Buf \ {b} : buf'[c].pskb = buf[c].pskb, UNCHANGED <<freeq, leaked, rxq, task>>
  PROVE  OneOwner'
<1>1. \A c \in Buf : buf'[c].pskb # NoSkb => buf'[c].pskb = buf[c].pskb
  OBVIOUS
<1> QED
  BY <1>1 DEF OneOwner

LEMMA InitIInv == Init => IInv
<1> SUFFICES ASSUME Init PROVE IInv
  OBVIOUS
<1>1. rxq \in Seq(Skb) /\ Range(rxq) = {} /\ IsInjective(rxq)
  BY DEF Init, Range, IsInjective
<1>2. freeq \subseteq Skb /\ 1 \in Buf /\ MaxErr \in Nat /\ MaxStop \in Nat
  BY RecvAssumption DEF Init, Skb, Buf
<1>3. buf \in [Buf -> BufRec] /\ \A b \in Buf : buf[b].urb = "idle" /\ buf[b].pskb = NoSkb
  BY DEF Init, BufRec, NoSkb
<1>4. life.pc = "start" /\ life.i = 1
  BY DEF Init, Life
<1>5. task \in [run : BOOLEAN, skb : Skb \cup {NoSkb}] /\ task.skb = NoSkb
  BY DEF Init, TaskIdle
<1>6. TypeOK
  <2>1. leaked \subseteq Skb /\ errs \in 0 .. MaxErr + 1 /\ stops \in 0 .. MaxStop
    BY <1>2 DEF Init
  <2>2. sched \in BOOLEAN /\ broke \in BOOLEAN /\ stopped \in BOOLEAN /\ cancel \in BOOLEAN
    BY Zenon DEF Init
  <2> QED
    BY <1>1, <1>2, <1>3, <1>4, <1>5, <2>1, <2>2, Zenon DEF TypeOK, BufRec
<1>7. OneOwner
  <2>1. \A x \in Skb : x # NoSkb
    BY DEF Skb, NoSkb
  <2> QED
    BY <1>1, <1>3, <1>5, <2>1 DEF OneOwner, Init
<1>8. RxServed /\ ReadsWithoutLoss
  BY <1>3 DEF Init, RxServed, ReadsWithoutLoss
<1>9. ReadsOnce /\ KilledAreIdle
  BY <1>3, <1>4 DEF ReadsOnce, KilledAreIdle, Buf
<1> QED
  BY <1>6, <1>7, <1>8, <1>9 DEF IInv

-----------------------------------------------------------------------------
(* usb_read_port, whoever calls it. *)

\* The buffer does not end up as being read, and a URB under way has an sk_buff.
\* The sk_buff is the one it had, a free one, one nobody refers to, or none.
LEMMA ReadPortCases ==
  ASSUME TypeOK, NEW b \in Buf, ReadPort(b)
  PROVE  \E r \in BufRec :
           /\ buf' = [buf EXCEPT ![b] = r]
           /\ r.urb # "read" /\ (r.urb = "urb" => r.pskb # NoSkb)
           /\ \/ r.pskb = buf[b].pskb /\ UNCHANGED <<freeq, leaked>>
              \/ /\ NeedsSkb(b) /\ leaked' = leaked \cup Held(b)
                 /\ \/ r.pskb \in freeq /\ freeq' = freeq \ {r.pskb}
                    \/ r.pskb \in Memory /\ freeq' = freeq
                    \/ r.pskb = NoSkb /\ freeq' = freeq
<1>1. buf \in [Buf -> BufRec] /\ freeq \subseteq Skb /\ Memory \subseteq Skb
  BY DEF TypeOK, BufRec, Memory
<1>2. \A x \in Skb : x # NoSkb
  BY DEF Skb, NoSkb
<1>3. CASE stopped /\ buf' = [buf EXCEPT ![b].urb = "idle"] /\ UNCHANGED <<freeq, leaked>>
  <2> DEFINE r == [buf[b] EXCEPT !.urb = "idle"]
  <2>1. r \in BufRec /\ r.urb = "idle" /\ r.pskb = buf[b].pskb /\ buf' = [buf EXCEPT ![b] = r]
    BY <1>1, <1>3 DEF BufRec
  <2> QED
    BY <1>3, <2>1
<1>4. CASE /\ ~NeedsSkb(b) /\ Submit(b, buf[b].pskb, FALSE) /\ UNCHANGED <<freeq, leaked>>
  <2>1. PICK urb \in {"urb", "idle"} :
          buf' = [buf EXCEPT ![b] = [pskb |-> buf[b].pskb, reuse |-> FALSE, urb |-> urb]]
    BY <1>4 DEF Submit
  <2> DEFINE r == [pskb |-> buf[b].pskb, reuse |-> FALSE, urb |-> urb]
  <2>2. r \in BufRec /\ r.urb # "read" /\ r.pskb = buf[b].pskb /\ r.pskb # NoSkb
    BY <1>1, <1>4 DEF BufRec, NeedsSkb
  <2> QED
    BY <1>4, <2>1, <2>2
<1>5. CASE /\ NeedsSkb(b) /\ freeq # {} /\ Submit(b, AnyOf(freeq), FALSE)
           /\ freeq' = freeq \ {AnyOf(freeq)} /\ leaked' = leaked \cup Held(b)
  <2>1. AnyOf(freeq) \in freeq
    BY <1>5, AnyOfIn
  <2>2. PICK urb \in {"urb", "idle"} :
          buf' = [buf EXCEPT ![b] = [pskb |-> AnyOf(freeq), reuse |-> FALSE, urb |-> urb]]
    BY <1>5 DEF Submit
  <2> DEFINE r == [pskb |-> AnyOf(freeq), reuse |-> FALSE, urb |-> urb]
  <2>3. r \in BufRec /\ r.urb # "read" /\ r.pskb = AnyOf(freeq) /\ r.pskb # NoSkb
    BY <1>1, <1>2, <2>1 DEF BufRec
  <2> QED
    BY <1>5, <2>1, <2>2, <2>3
<1>6. CASE /\ NeedsSkb(b) /\ Memory # {} /\ Submit(b, AnyOf(Memory), buf[b].reuse)
           /\ leaked' = leaked \cup Held(b) /\ UNCHANGED freeq
  <2>1. AnyOf(Memory) \in Memory
    BY <1>6, AnyOfIn
  <2>2. PICK urb \in {"urb", "idle"} :
          buf' = [buf EXCEPT ![b] = [pskb |-> AnyOf(Memory), reuse |-> buf[b].reuse, urb |-> urb]]
    BY <1>6 DEF Submit
  <2> DEFINE r == [pskb |-> AnyOf(Memory), reuse |-> buf[b].reuse, urb |-> urb]
  <2>3. r \in BufRec /\ r.urb # "read" /\ r.pskb = AnyOf(Memory) /\ r.pskb # NoSkb
    BY <1>1, <1>2, <2>1 DEF BufRec
  <2> QED
    BY <1>6, <2>1, <2>2, <2>3
<1>7. CASE /\ NeedsSkb(b) /\ buf' = [buf EXCEPT ![b].pskb = NoSkb, ![b].urb = "idle"]
           /\ leaked' = leaked \cup Held(b) /\ UNCHANGED freeq
  <2> DEFINE r == [buf[b] EXCEPT !.pskb = NoSkb, !.urb = "idle"]
  <2>1. r \in BufRec /\ r.urb = "idle" /\ r.pskb = NoSkb /\ buf' = [buf EXCEPT ![b] = r]
    BY <1>1, <1>7 DEF BufRec
  <2> QED
    BY <1>7, <2>1
<1> QED
  BY <1>3, <1>4, <1>5, <1>6, <1>7 DEF ReadPort

\* It keeps the types and the owners, and touches no other buffer.
LEMMA ReadPortFacts ==
  ASSUME TypeOK, OneOwner, NEW b \in Buf, ReadPort(b), UNCHANGED queue
  PROVE  /\ buf' \in [Buf -> BufRec] /\ freeq' \subseteq Skb /\ leaked' \subseteq Skb
         /\ \A c \in Buf : buf'[c].urb = "urb" => buf'[c].pskb # NoSkb
         /\ \A c \in Buf \ {b} : buf'[c] = buf[c]
         /\ buf'[b].urb # "read"
         /\ buf[b].reuse \/ buf[b].pskb = NoSkb => leaked' = leaked
         /\ OneOwner'
<1>1. PICK r \in BufRec :
           /\ buf' = [buf EXCEPT ![b] = r]
           /\ r.urb # "read" /\ (r.urb = "urb" => r.pskb # NoSkb)
           /\ \/ r.pskb = buf[b].pskb /\ UNCHANGED <<freeq, leaked>>
              \/ /\ NeedsSkb(b) /\ leaked' = leaked \cup Held(b)
                 /\ \/ r.pskb \in freeq /\ freeq' = freeq \ {r.pskb}
                    \/ r.pskb \in Memory /\ freeq' = freeq
                    \/ r.pskb = NoSkb /\ freeq' = freeq
  BY ReadPortCases
<1>2. /\ buf \in [Buf -> BufRec] /\ freeq \subseteq Skb /\ leaked \subseteq Skb
      /\ \A c \in Buf : buf[c].urb = "urb" => buf[c].pskb # NoSkb
      /\ task.skb \in Skb \cup {NoSkb}
  BY DEF TypeOK, BufRec
<1>3. buf' \in [Buf -> BufRec] /\ buf'[b] = r /\ \A c \in Buf \ {b} : buf'[c] = buf[c]
  BY <1>1, <1>2, BufUpdate
<1>4. \A c \in Buf : buf[c].pskb \in Skb \cup {NoSkb}
  BY <1>2 DEF BufRec
<1>5. Held(b) \subseteq Skb /\ (buf[b].pskb = NoSkb => Held(b) = {})
  BY <1>4 DEF Held
<1>6. freeq' \subseteq Skb /\ leaked' \subseteq Skb
  BY <1>1, <1>2, <1>5
<1>7. buf[b].reuse \/ buf[b].pskb = NoSkb => leaked' = leaked
  BY <1>1, <1>5 DEF NeedsSkb
<1>8. \A c \in Buf : buf'[c].urb = "urb" => buf'[c].pskb # NoSkb
  BY <1>1, <1>2, <1>3
<1>9. OneOwner'
  <2>1. UNCHANGED <<rxq, task>> /\ \A x \in Skb : x # NoSkb
    BY DEF queue, Skb, NoSkb
  <2>2. CASE r.pskb = buf[b].pskb /\ UNCHANGED <<freeq, leaked>>
    BY <1>3, <2>1, <2>2, OwnersKept
  <2> DEFINE Lost == IF buf[b].pskb = NoSkb THEN {} ELSE {buf[b].pskb}
  <2>3. Held(b) = Lost
    BY DEF Held
  <2>4. /\ \A c \in Buf \ {b} : buf[c].pskb # NoSkb => buf[c].pskb \notin Lost
        /\ \A x \in Lost : x \notin freeq \cup Range(rxq) \cup leaked \cup {task.skb}
    BY DEF OneOwner
  <2>5. CASE leaked' = leaked \cup Lost /\ r.pskb \in freeq /\ freeq' = freeq \ {r.pskb}
    <3>1. /\ r.pskb \notin Range(rxq) \cup leaked \cup {task.skb} \cup Lost
          /\ \A c \in Buf : buf[c].pskb # r.pskb
      BY <1>2, <2>1, <2>4, <2>5 DEF OneOwner
    <3> QED
      BY <1>3, <2>1, <2>4, <2>5, <3>1 DEF OneOwner
  <2>6. CASE leaked' = leaked \cup Lost /\ r.pskb \in Memory /\ freeq' = freeq
    <3>1. /\ r.pskb \notin freeq \cup Range(rxq) \cup leaked \cup {task.skb}
          /\ \A c \in Buf : r.pskb \notin Held(c)
      BY <2>6 DEF Memory, InUse
    <3>2. r.pskb # NoSkb
      BY <2>1, <2>6 DEF Memory
    <3>3. \A c \in Buf : buf[c].pskb # r.pskb
      BY <3>1, <3>2 DEF Held
    <3> QED
      BY <1>3, <2>1, <2>4, <2>6, <3>1, <3>3 DEF OneOwner
  <2>7. CASE leaked' = leaked \cup Lost /\ r.pskb = NoSkb /\ freeq' = freeq
    BY <1>3, <2>1, <2>4, <2>7 DEF OneOwner
  <2> QED
    BY <1>1, <2>2, <2>3, <2>5, <2>6, <2>7
<1> QED
  BY <1>1, <1>3, <1>6, <1>7, <1>8, <1>9

-----------------------------------------------------------------------------
(* The parts of the invariant that steps of one kind keep. *)

\* While nobody stops or starts, handlers leave idle buffers idle.
LEMMA IdleStays ==
  ASSUME ReadsOnce, KilledAreIdle, life.i \in Buf, UNCHANGED life,
         \A c \in Buf : buf[c].urb = "idle" => buf'[c].urb = "idle"
  PROVE  ReadsOnce' /\ KilledAreIdle'
<1>1. (life.i .. NrBuf) \subseteq Buf /\ (1 .. life.i - 1) \subseteq Buf
  BY RecvAssumption DEF Buf
<1>2. life' = life
  OBVIOUS
<1>3. ReadsOnce'
  BY <1>1, <1>2 DEF ReadsOnce
<1>4. KilledAreIdle'
  BY <1>1, <1>2 DEF KilledAreIdle
<1> QED
  BY <1>3, <1>4

\* The end of a read changes one buffer whose URB was under way.
LEMMA HandlerInv ==
  ASSUME IInv, NEW b \in Buf, buf[b].urb # "idle", NEW r \in BufRec, buf' = [buf EXCEPT ![b] = r],
         r.urb = "urb" => r.pskb # NoSkb, r.urb = "read" => r.reuse \/ r.pskb = NoSkb,
         UNCHANGED life
  PROVE  /\ buf' \in [Buf -> BufRec] /\ buf'[b] = r /\ \A c \in Buf \ {b} : buf'[c] = buf[c]
         /\ \A c \in Buf : buf'[c].urb = "urb" => buf'[c].pskb # NoSkb
         /\ ReadsOnce' /\ KilledAreIdle' /\ ReadsWithoutLoss'
<1>1. buf \in [Buf -> BufRec] /\ life.i \in Buf
  BY DEF IInv, TypeOK, BufRec
<1>2. buf' \in [Buf -> BufRec] /\ buf'[b] = r /\ \A c \in Buf \ {b} : buf'[c] = buf[c]
  BY <1>1, BufUpdate
<1>3. \A c \in Buf : buf'[c].urb = "urb" => buf'[c].pskb # NoSkb
  BY <1>2 DEF IInv, TypeOK
<1>4. \A c \in Buf : buf[c].urb = "idle" => buf'[c].urb = "idle"
  BY <1>2
<1>5. ReadsOnce' /\ KilledAreIdle'
  BY <1>1, <1>4, IdleStays DEF IInv
<1>6. ReadsWithoutLoss'
  BY <1>2 DEF IInv, ReadsWithoutLoss
<1> QED
  BY <1>2, <1>3, <1>5, <1>6

\* The tasklet leaves buffers, stops and starts alone.
LEMMA TaskInv ==
  ASSUME IInv, UNCHANGED <<buf, leaked, state>>,
         freeq' \subseteq Skb, rxq' \in Seq(Skb), sched' \in BOOLEAN, broke' \in BOOLEAN,
         task' \in [run : BOOLEAN, skb : Skb \cup {NoSkb}], task.skb' # NoSkb => task.run'
  PROVE  TypeOK' /\ ReadsOnce' /\ KilledAreIdle' /\ ReadsWithoutLoss'
<1>1. UNCHANGED <<life, stopped, cancel, errs, stops, buf, leaked>>
  BY DEF state
<1>2. TypeOK'
  BY <1>1 DEF IInv, TypeOK
<1>3. ReadsOnce' /\ KilledAreIdle' /\ ReadsWithoutLoss'
  BY <1>1 DEF IInv, ReadsOnce, KilledAreIdle, ReadsWithoutLoss
<1> QED
  BY <1>2, <1>3

\* A stop or start that touches no sk_buff and no queue.
LEMMA LifeInv ==
  ASSUME IInv, UNCHANGED <<skbs, queue, errs>>,
         stopped' \in BOOLEAN, cancel' \in BOOLEAN, stops' \in 0 .. MaxStop,
         life.pc' \in {"start", "up", "cancel", "mark", "wait", "down"}, life.i' \in Buf
  PROVE  TypeOK' /\ OneOwner' /\ RxServed' /\ ReadsWithoutLoss'
<1>1. UNCHANGED <<buf, freeq, leaked, rxq, task, sched, broke, errs>>
  BY DEF skbs, queue
<1>2. TypeOK'
  BY <1>1 DEF IInv, TypeOK
<1>3. OneOwner' /\ RxServed' /\ ReadsWithoutLoss'
  BY <1>1 DEF IInv, OneOwner, RxServed, ReadsWithoutLoss
<1> QED
  BY <1>2, <1>3

-----------------------------------------------------------------------------
(* One lemma per group of actions. *)

LEMMA HandlersIInv ==
  ASSUME IInv, NEW b \in Buf,
         \/ CompleteCancelled(b) \/ CompleteRx(b) \/ CompleteBadLength(b)
         \/ CompleteFailed(b) \/ ReadAgain(b)
  PROVE  IInv'
<1>1. /\ TypeOK /\ OneOwner /\ RxServed /\ buf[b] \in BufRec /\ rxq \in Seq(Skb)
      /\ \A x \in Skb : x # NoSkb
      /\ buf[b].urb = "urb" => buf[b].pskb # NoSkb
  BY DEF IInv, TypeOK, BufRec, Skb, NoSkb
<1>2. CASE CompleteCancelled(b)
  <2> DEFINE r == [buf[b] EXCEPT !.reuse = TRUE, !.urb = "idle"]
  <2>1. r \in BufRec /\ r.urb = "idle" /\ r.pskb = buf[b].pskb /\ buf' = [buf EXCEPT ![b] = r]
    BY <1>1, <1>2 DEF CompleteCancelled, BufRec, TypeOK
  <2>2. UNCHANGED <<freeq, leaked, rxq, task, sched, broke, stopped, cancel, errs, life, stops>>
    BY <1>2 DEF CompleteCancelled, queue, state
  <2>3. buf[b].urb = "urb"
    BY <1>2 DEF CompleteCancelled, Ends
  <2> HIDE DEF r
  <2>4. /\ buf' \in [Buf -> BufRec] /\ buf'[b] = r /\ \A c \in Buf \ {b} : buf'[c] = buf[c]
        /\ \A c \in Buf : buf'[c].urb = "urb" => buf'[c].pskb # NoSkb
        /\ ReadsOnce' /\ KilledAreIdle' /\ ReadsWithoutLoss'
    BY <2>1, <2>2, <2>3, HandlerInv
  <2>5. TypeOK'
    BY <1>1, <2>2, <2>4 DEF TypeOK, BufRec
  <2>6. OneOwner'
    BY <1>1, <2>1, <2>2, <2>4, OwnersKept
  <2>7. RxServed'
    BY <1>1, <2>2 DEF RxServed
  <2> QED
    BY <2>4, <2>5, <2>6, <2>7 DEF IInv
<1>3. CASE CompleteBadLength(b)
  <2> DEFINE r == [buf[b] EXCEPT !.reuse = TRUE, !.urb = "read"]
  <2>1. /\ r \in BufRec /\ r.urb = "read" /\ r.reuse /\ r.pskb = buf[b].pskb
        /\ buf' = [buf EXCEPT ![b] = r]
    BY <1>1, <1>3 DEF CompleteBadLength, BufRec, TypeOK
  <2>2. UNCHANGED <<freeq, leaked, rxq, task, sched, broke, stopped, cancel, errs, life, stops>>
    BY <1>3 DEF CompleteBadLength, queue, state
  <2>3. buf[b].urb = "urb"
    BY <1>3 DEF CompleteBadLength, Ends
  <2> HIDE DEF r
  <2>4. /\ buf' \in [Buf -> BufRec] /\ buf'[b] = r /\ \A c \in Buf \ {b} : buf'[c] = buf[c]
        /\ \A c \in Buf : buf'[c].urb = "urb" => buf'[c].pskb # NoSkb
        /\ ReadsOnce' /\ KilledAreIdle' /\ ReadsWithoutLoss'
    BY <2>1, <2>2, <2>3, HandlerInv
  <2>5. TypeOK'
    BY <1>1, <2>2, <2>4 DEF TypeOK, BufRec
  <2>6. OneOwner'
    BY <1>1, <2>1, <2>2, <2>4, OwnersKept
  <2>7. RxServed'
    BY <1>1, <2>2 DEF RxServed
  <2> QED
    BY <2>4, <2>5, <2>6, <2>7 DEF IInv
<1>4. CASE CompleteRx(b)
  <2> DEFINE r == [buf[b] EXCEPT !.pskb = NoSkb, !.reuse = FALSE, !.urb = "read"]
  <2>1. r \in BufRec /\ r.urb = "read" /\ r.pskb = NoSkb /\ buf' = [buf EXCEPT ![b] = r]
    BY <1>1, <1>4 DEF CompleteRx, BufRec, TypeOK
  <2>2. UNCHANGED <<freeq, leaked, task, broke, stopped, cancel, life, stops>> /\ errs' = 0
    BY <1>4 DEF CompleteRx
  <2>3. buf[b].urb = "urb" /\ buf[b].pskb \in Skb
    BY <1>1, <1>4 DEF CompleteRx, Ends, BufRec
  <2> HIDE DEF r
  <2>4. /\ buf' \in [Buf -> BufRec] /\ buf'[b] = r /\ \A c \in Buf \ {b} : buf'[c] = buf[c]
        /\ \A c \in Buf : buf'[c].urb = "urb" => buf'[c].pskb # NoSkb
        /\ ReadsOnce' /\ KilledAreIdle' /\ ReadsWithoutLoss'
    BY <2>1, <2>2, <2>3, HandlerInv
  <2>5. rxq' = Append(rxq, buf[b].pskb) /\ sched' = (sched \/ Len(rxq') <= 1)
    BY <1>4 DEF CompleteRx
  <2>6. /\ rxq' \in Seq(Skb) /\ Range(rxq') = Range(rxq) \cup {buf[b].pskb}
        /\ IsInjective(rxq) /\ buf[b].pskb \notin Range(rxq) => IsInjective(rxq')
        /\ rxq = << >> => Len(rxq') <= 1
    BY <1>1, <2>3, <2>5, AppendSkb
  <2>7. sched' \in BOOLEAN /\ errs' \in 0 .. MaxErr + 1
    BY <2>2, <2>5, RecvAssumption
  <2>8. TypeOK'
    BY <1>1, <2>2, <2>4, <2>6, <2>7 DEF TypeOK, BufRec
  <2>9. OneOwner'
    <3>1. /\ buf[b].pskb \notin freeq \cup Range(rxq) \cup leaked \cup {task.skb}
          /\ \A c \in Buf \ {b} : buf[c].pskb # buf[b].pskb
      BY <1>1, <2>3 DEF OneOwner
    <3> QED
      BY <1>1, <2>1, <2>2, <2>4, <2>6, <3>1 DEF OneOwner
  <2>10. RxServed'
    BY <1>1, <2>2, <2>5, <2>6 DEF RxServed
  <2> QED
    BY <2>4, <2>8, <2>9, <2>10 DEF IInv
<1>5. CASE CompleteFailed(b)
  <2> DEFINE Failed(r) == /\ r.pskb = NoSkb /\ r.urb # "urb" /\ buf' = [buf EXCEPT ![b] = r]
  <2>1. PICK r \in BufRec : Failed(r)
    <3> DEFINE r1 == [pskb |-> NoSkb, reuse |-> TRUE, urb |-> "read"]
               r2 == [buf[b] EXCEPT !.pskb = NoSkb, !.urb = "idle"]
    <3>1. \/ buf' = [buf EXCEPT ![b] = r1]
          \/ buf' = [buf EXCEPT ![b].pskb = NoSkb, ![b].urb = "idle"]
      BY <1>5 DEF CompleteFailed
    <3>2. r1 \in BufRec /\ r1.pskb = NoSkb /\ r1.urb # "urb"
      BY DEF BufRec
    <3>3. r2 \in BufRec /\ r2.pskb = NoSkb /\ r2.urb # "urb"
      BY <1>1 DEF BufRec
    <3>4. buf' = [buf EXCEPT ![b].pskb = NoSkb, ![b].urb = "idle"] => buf' = [buf EXCEPT ![b] = r2]
      BY <1>1 DEF TypeOK, BufRec
    <3> QED
      BY <3>1, <3>2, <3>3, <3>4
  <2>2. /\ UNCHANGED <<freeq, rxq, task, sched, broke, cancel, life, stops>>
        /\ leaked' = leaked \cup Held(b)
    BY <1>5 DEF CompleteFailed, queue
  <2>3. buf[b].urb = "urb" /\ buf[b].pskb \in Skb
    BY <1>1, <1>5 DEF CompleteFailed, Ends, BufRec
  <2>4. /\ buf' \in [Buf -> BufRec] /\ buf'[b] = r /\ \A c \in Buf \ {b} : buf'[c] = buf[c]
        /\ \A c \in Buf : buf'[c].urb = "urb" => buf'[c].pskb # NoSkb
        /\ ReadsOnce' /\ KilledAreIdle' /\ ReadsWithoutLoss'
    BY <2>1, <2>2, <2>3, HandlerInv
  <2>5. Held(b) = {buf[b].pskb}
    BY <1>1, <2>3 DEF Held
  <2>6. errs' \in 0 .. MaxErr + 1
    BY <1>1, <1>5, RecvAssumption DEF CompleteFailed, TypeOK
  <2>7. stopped' \in BOOLEAN
    BY <1>5 DEF CompleteFailed
  <2>8. TypeOK'
    BY <1>1, <2>2, <2>3, <2>4, <2>5, <2>6, <2>7 DEF TypeOK, BufRec
  <2>9. OneOwner'
    <3>1. /\ buf[b].pskb \notin freeq \cup Range(rxq) \cup leaked \cup {task.skb}
          /\ \A c \in Buf \ {b} : buf[c].pskb # buf[b].pskb
      BY <1>1, <2>3 DEF OneOwner
    <3> QED
      BY <1>1, <2>1, <2>2, <2>4, <2>5, <3>1 DEF OneOwner
  <2>10. RxServed'
    BY <1>1, <2>2 DEF RxServed
  <2> QED
    BY <2>4, <2>8, <2>9, <2>10 DEF IInv
<1>6. CASE ReadAgain(b)
  <2>1. /\ buf[b].urb = "read" /\ ReadPort(b) /\ UNCHANGED queue
        /\ UNCHANGED <<rxq, task, sched, broke, stopped, cancel, errs, life, stops>>
    BY <1>6 DEF ReadAgain, queue, state
  <2>2. /\ buf' \in [Buf -> BufRec] /\ freeq' \subseteq Skb /\ leaked' \subseteq Skb
        /\ \A c \in Buf : buf'[c].urb = "urb" => buf'[c].pskb # NoSkb
        /\ \A c \in Buf \ {b} : buf'[c] = buf[c]
        /\ buf'[b].urb # "read"
        /\ OneOwner'
    BY <1>1, <2>1, ReadPortFacts
  <2>3. TypeOK'
    BY <1>1, <2>1, <2>2 DEF TypeOK, BufRec
  <2>4. \A c \in Buf : buf[c].urb = "idle" => buf'[c].urb = "idle"
    BY <2>1, <2>2
  <2>5. ReadsOnce' /\ KilledAreIdle'
    BY <2>1, <2>4, IdleStays DEF IInv, TypeOK
  <2>6. ReadsWithoutLoss'
    BY <2>2 DEF IInv, ReadsWithoutLoss
  <2>7. RxServed'
    BY <1>1, <2>1 DEF RxServed
  <2> QED
    BY <2>2, <2>3, <2>5, <2>6, <2>7 DEF IInv
<1> QED
  BY <1>2, <1>3, <1>4, <1>5, <1>6

LEMMA TaskletIInv ==
  ASSUME IInv, TaskStart \/ TaskDequeue \/ TaskEnd \/ TaskBreak \/ TaskDeliver
  PROVE  IInv'
<1>1. /\ OneOwner /\ RxServed /\ freeq \subseteq Skb /\ rxq \in Seq(Skb) /\ leaked \subseteq Skb
      /\ task \in [run : BOOLEAN, skb : Skb \cup {NoSkb}] /\ (task.skb # NoSkb => task.run)
      /\ sched \in BOOLEAN /\ broke \in BOOLEAN
      /\ \A x \in Skb : x # NoSkb
  BY DEF IInv, TypeOK, Skb, NoSkb
<1>2. TaskIdle \in [run : BOOLEAN, skb : Skb \cup {NoSkb}] /\ TaskIdle.skb = NoSkb
  BY DEF TaskIdle
<1>3. CASE TaskStart
  <2>1. /\ UNCHANGED <<buf, freeq, leaked, rxq, broke, state>> /\ sched' = FALSE
        /\ task' = [run |-> TRUE, skb |-> NoSkb] /\ task' \in [run : BOOLEAN, skb : Skb \cup {NoSkb}]
        /\ task.skb' = NoSkb /\ task.run'
    BY <1>3 DEF TaskStart, skbs
  <2>2. TypeOK' /\ ReadsOnce' /\ KilledAreIdle' /\ ReadsWithoutLoss'
    BY <1>1, <2>1, TaskInv
  <2>3. OneOwner'
    BY <1>1, <2>1 DEF OneOwner
  <2>4. RxServed'
    BY <2>1 DEF RxServed
  <2> QED
    BY <2>2, <2>3, <2>4 DEF IInv
<1>4. CASE TaskDequeue
  <2>1. /\ UNCHANGED <<buf, freeq, leaked, sched, broke, state>>
        /\ rxq # << >> /\ rxq' = Tail(rxq) /\ task' = [task EXCEPT !.skb = Head(rxq)]
        /\ task.run /\ task.skb = NoSkb
    BY <1>4 DEF TaskDequeue, skbs
  <2>2. /\ Head(rxq) \in Skb /\ Tail(rxq) \in Seq(Skb)
        /\ Range(Tail(rxq)) = Range(rxq) \ {Head(rxq)} /\ Head(rxq) \in Range(rxq)
        /\ IsInjective(Tail(rxq))
    BY <1>1, <2>1, TailSkb DEF OneOwner
  <2>3. /\ task' \in [run : BOOLEAN, skb : Skb \cup {NoSkb}] /\ task.skb' = Head(rxq) /\ task.run'
    BY <1>1, <2>1, <2>2
  <2>4. TypeOK' /\ ReadsOnce' /\ KilledAreIdle' /\ ReadsWithoutLoss'
    BY <1>1, <2>1, <2>2, <2>3, TaskInv
  <2>5. OneOwner'
    BY <1>1, <2>1, <2>2, <2>3 DEF OneOwner
  <2>6. RxServed'
    BY <2>3 DEF RxServed
  <2> QED
    BY <2>4, <2>5, <2>6 DEF IInv
<1>5. CASE TaskEnd \/ TaskBreak
  <2>1. /\ UNCHANGED <<buf, freeq, leaked, rxq, sched, state>> /\ task' = TaskIdle
        /\ broke' \in BOOLEAN /\ (rxq # << >> => broke')
    BY <1>5 DEF TaskEnd, TaskBreak, skbs
  <2>2. TypeOK' /\ ReadsOnce' /\ KilledAreIdle' /\ ReadsWithoutLoss'
    BY <1>1, <1>2, <2>1, TaskInv
  <2>3. OneOwner'
    BY <1>1, <1>2, <2>1 DEF OneOwner
  <2>4. RxServed'
    BY <2>1 DEF RxServed
  <2> QED
    BY <2>2, <2>3, <2>4 DEF IInv
<1>6. CASE TaskDeliver
  <2>1. /\ UNCHANGED <<buf, leaked, rxq, sched, broke, state>>
        /\ task.skb # NoSkb /\ freeq' = freeq \cup {task.skb} /\ task' = [task EXCEPT !.skb = NoSkb]
    BY <1>6 DEF TaskDeliver
  <2>2. /\ task' \in [run : BOOLEAN, skb : Skb \cup {NoSkb}] /\ task.skb' = NoSkb
        /\ task.run' = task.run /\ task.skb \in Skb
    BY <1>1, <2>1
  <2>3. TypeOK' /\ ReadsOnce' /\ KilledAreIdle' /\ ReadsWithoutLoss'
    BY <1>1, <2>1, <2>2, TaskInv
  <2>4. OneOwner'
    BY <1>1, <2>1, <2>2 DEF OneOwner
  <2>5. RxServed'
    BY <1>1, <2>1, <2>2 DEF RxServed
  <2> QED
    BY <2>3, <2>4, <2>5 DEF IInv
<1> QED
  BY <1>3, <1>4, <1>5, <1>6

LEMMA StopStartIInv ==
  ASSUME IInv, \/ Unload(TRUE) \/ Unload(FALSE) \/ ReadPortCancel \/ KillMark \/ KillWait
               \/ Open \/ InirpInit
  PROVE  IInv'
<1> USE RecvAssumption
<1>1. /\ TypeOK /\ OneOwner /\ RxServed /\ ReadsOnce /\ KilledAreIdle /\ ReadsWithoutLoss
      /\ life.i \in Buf /\ 1 \in Buf /\ buf \in [Buf -> BufRec]
      /\ stopped \in BOOLEAN /\ cancel \in BOOLEAN /\ stops \in 0 .. MaxStop
  BY DEF IInv, TypeOK, Buf, BufRec
<1>2. ASSUME NEW pc PROVE Life(pc, 1).pc = pc /\ Life(pc, 1).i = 1
  BY DEF Life
<1>3. ASSUME NEW suspend \in BOOLEAN, Unload(suspend) PROVE IInv'
  <2>1. life.pc' = "cancel" /\ life.i' = 1
    BY <1>2, <1>3 DEF Unload
  <2>2. UNCHANGED <<skbs, queue, cancel, errs>> /\ stops' \in 0 .. MaxStop
    BY <1>1, <1>3 DEF Unload
  <2>3. stopped' \in BOOLEAN
    BY <1>3 DEF Unload
  <2>4. TypeOK' /\ OneOwner' /\ RxServed' /\ ReadsWithoutLoss'
    BY <1>1, <2>1, <2>2, <2>3, LifeInv
  <2> QED
    BY <2>1, <2>4 DEF IInv, ReadsOnce, KilledAreIdle
<1>4. CASE ReadPortCancel
  <2>1. life.pc' = "mark" /\ life.i' = 1
    BY <1>2, <1>4 DEF ReadPortCancel
  <2>2. UNCHANGED <<skbs, queue, stopped, errs, stops>> /\ cancel' = TRUE
    BY <1>4 DEF ReadPortCancel
  <2>3. TypeOK' /\ OneOwner' /\ RxServed' /\ ReadsWithoutLoss'
    BY <1>1, <2>1, <2>2, LifeInv
  <2> QED
    BY <2>1, <2>3 DEF IInv, ReadsOnce, KilledAreIdle
<1>5. CASE KillMark
  <2> DEFINE b == life.i
             r == [buf[b] EXCEPT !.reuse = TRUE]
  <2> b \in Buf /\ buf[b] \in BufRec
    BY <1>1
  <2>1. r \in BufRec /\ r.pskb = buf[b].pskb /\ r.urb = buf[b].urb /\ r.reuse = TRUE
    BY DEF BufRec
  <2>2. /\ UNCHANGED <<freeq, leaked, rxq, task, sched, broke, stopped, cancel, errs, stops>>
        /\ life.pc = "mark" /\ buf' = [buf EXCEPT ![b] = r]
    BY <1>5 DEF KillMark, queue
  <2>3. life.pc' = "wait" /\ life.i' = life.i
    BY <1>5 DEF KillMark
  <2> HIDE DEF r
  <2>4. buf' \in [Buf -> BufRec] /\ buf'[b] = r /\ \A c \in Buf \ {b} : buf'[c] = buf[c]
    BY <1>1, <2>1, <2>2, BufUpdate
  <2>5. TypeOK'
    BY <1>1, <2>1, <2>2, <2>3, <2>4 DEF TypeOK, BufRec
  <2>6. OneOwner'
    BY <1>1, <2>1, <2>2, <2>4, OwnersKept
  <2>7. RxServed' /\ ReadsWithoutLoss'
    BY <1>1, <2>1, <2>2, <2>4 DEF RxServed, ReadsWithoutLoss
  <2>8. ReadsOnce' /\ KilledAreIdle'
    BY <1>1, <2>1, <2>2, <2>3, <2>4 DEF ReadsOnce, KilledAreIdle, Buf
  <2> QED
    BY <2>5, <2>6, <2>7, <2>8 DEF IInv
<1>6. CASE KillWait
  <2>1. /\ UNCHANGED <<skbs, queue, stopped, cancel, errs, stops>> /\ buf' = buf
        /\ life.pc = "wait" /\ buf[life.i].urb = "idle"
    BY <1>6 DEF KillWait, skbs
  <2>2. \A b \in 1 .. life.i : buf[b].urb = "idle"
    BY <1>1, <2>1 DEF KilledAreIdle, Buf
  <2>3. CASE life.i = NrBuf /\ life' = Life("down", 1)
    <3>1. life.pc' = "down" /\ life.i' = 1
      BY <1>2, <2>3
    <3>2. TypeOK' /\ OneOwner' /\ RxServed' /\ ReadsWithoutLoss'
      BY <1>1, <2>1, <3>1, LifeInv
    <3> QED
      BY <2>1, <2>2, <2>3, <3>1, <3>2 DEF IInv, ReadsOnce, KilledAreIdle, Buf
  <2>4. CASE life.i # NrBuf /\ life' = Life("mark", life.i + 1)
    <3>1. life.pc' = "mark" /\ life.i' = life.i + 1 /\ life.i' \in Buf
      BY <1>1, <2>4 DEF Life, Buf
    <3>2. TypeOK' /\ OneOwner' /\ RxServed' /\ ReadsWithoutLoss'
      BY <1>1, <2>1, <3>1, LifeInv
    <3>3. KilledAreIdle'
      BY <1>1, <2>1, <2>2, <3>1 DEF KilledAreIdle, Buf
    <3> QED
      BY <3>1, <3>2, <3>3 DEF IInv, ReadsOnce
  <2> QED
    BY <1>6, <2>3, <2>4 DEF KillWait, Killed
<1>7. CASE Open
  <2>1. life.pc = "down" /\ life.pc' = "start" /\ life.i' = 1
    BY <1>2, <1>7 DEF Open
  <2>2. UNCHANGED <<skbs, queue, errs, stops>> /\ cancel' = FALSE /\ stopped' = FALSE /\ buf' = buf
    BY <1>7 DEF Open, skbs
  <2>3. TypeOK' /\ OneOwner' /\ RxServed' /\ ReadsWithoutLoss'
    BY <1>1, <2>1, <2>2, LifeInv
  <2> QED
    BY <1>1, <2>1, <2>2, <2>3 DEF IInv, ReadsOnce, KilledAreIdle, Buf
<1>8. CASE InirpInit
  <2>1. /\ life.pc = "start" /\ ReadPort(life.i) /\ UNCHANGED queue
        /\ UNCHANGED <<rxq, task, sched, broke, stopped, cancel, errs, stops>>
    BY <1>8 DEF InirpInit, queue
  <2>2. /\ buf' \in [Buf -> BufRec] /\ freeq' \subseteq Skb /\ leaked' \subseteq Skb
        /\ \A c \in Buf : buf'[c].urb = "urb" => buf'[c].pskb # NoSkb
        /\ \A c \in Buf \ {life.i} : buf'[c] = buf[c]
        /\ buf'[life.i].urb # "read"
        /\ OneOwner'
    BY <1>1, <2>1, ReadPortFacts
  <2>3. \/ life.pc' = "up" /\ life.i' = 1
        \/ life.i # NrBuf /\ life.pc' = "start" /\ life.i' = life.i + 1
    BY <1>8 DEF InirpInit, Life
  <2>4. life.i' \in Buf
    BY <1>1, <2>3 DEF Buf
  <2>5. TypeOK'
    BY <1>1, <2>1, <2>2, <2>3, <2>4 DEF TypeOK, BufRec
  <2>6. ReadsOnce' /\ KilledAreIdle'
    BY <1>1, <2>1, <2>2, <2>3 DEF ReadsOnce, KilledAreIdle, Buf
  <2>7. RxServed' /\ ReadsWithoutLoss'
    BY <1>1, <2>1, <2>2 DEF RxServed, ReadsWithoutLoss
  <2> QED
    BY <2>2, <2>5, <2>6, <2>7 DEF IInv
<1> QED
  BY <1>3, <1>4, <1>5, <1>6, <1>7, <1>8

LEMMA NextIInv == IInv /\ [Next]_vars => IInv'
<1> SUFFICES ASSUME IInv, [Next]_vars PROVE IInv'
  OBVIOUS
<1>1. CASE UNCHANGED vars
  <2>1. /\ UNCHANGED <<buf, freeq, leaked, rxq, task, sched, broke>>
        /\ UNCHANGED <<stopped, cancel, errs, life, stops>>
    BY <1>1 DEF vars, skbs, queue, state
  <2> QED
    BY <2>1 DEF IInv, TypeOK, OneOwner, RxServed, ReadsOnce, KilledAreIdle, ReadsWithoutLoss
<1> QED
  BY <1>1, HandlersIInv, TaskletIInv, StopStartIInv DEF Next

-----------------------------------------------------------------------------
(* Theorems *)

LEMMA RecvInvariant == Spec => []IInv
  BY InitIInv, NextIInv, PTL DEF Spec

(***************************************************************************)
(* However many buffers read, completions fail and stops race them: an     *)
(* sk_buff is in one place at a time, so that no read is given one that is *)
(* queued, being parsed, free or in use by another read.                   *)
(***************************************************************************)
THEOREM RecvOneOwner == Spec => [](TypeOK /\ OneOwner)
  BY RecvInvariant, PTL DEF IInv

(***************************************************************************)
(* What usb_read_port_complete has queued is never left without a tasklet  *)
(* that is scheduled or running, unless one found the driver stopped.      *)
(***************************************************************************)
THEOREM RecvRxServed == Spec => []RxServed
  BY RecvInvariant, PTL DEF IInv

(***************************************************************************)
(* When rtl8188eu_inirp_init submits a URB again, usb_read_port_cancel has *)
(* left it idle: no handler was about to read once more.                   *)
(***************************************************************************)
THEOREM RecvReadsOnce == Spec => []ReadsOnce
  BY RecvInvariant, PTL DEF IInv

(***************************************************************************)
(* usb_read_port forgets an sk_buff only at a start: the handlers that let *)
(* a buffer read again leave it reusing its sk_buff, or without one.       *)
(***************************************************************************)
THEOREM RecvLeaksKnown == Spec => LeaksKnown
<1> DEFINE Known == leaked' # leaked => life.pc = "start" \/ \E b \in Buf : CompleteFailed(b)
<1>1. IInv /\ [Next]_vars => [Known]_vars
  <2> SUFFICES ASSUME IInv, Next, leaked' # leaked, ~ \E b \in Buf : CompleteFailed(b)
               PROVE  life.pc = "start"
    BY DEF vars
  <2>1. ASSUME NEW b \in Buf, ReadAgain(b) PROVE FALSE
    <3>1. buf[b].reuse \/ buf[b].pskb = NoSkb
      BY <2>1 DEF ReadAgain, IInv, ReadsWithoutLoss
    <3> QED
      BY <2>1, <3>1, ReadPortFacts DEF ReadAgain, IInv
  <2>2. InirpInit
    BY <2>1 DEF Next, CompleteCancelled, CompleteRx, CompleteBadLength, TaskStart, TaskDequeue,
          TaskEnd, TaskBreak, TaskDeliver, Unload, ReadPortCancel, KillMark, KillWait, Open, skbs
  <2> QED
    BY <2>2 DEF InirpInit
<1> QED
  BY <1>1, RecvInvariant, PTL DEF Spec, LeaksKnown
=============================================================================
