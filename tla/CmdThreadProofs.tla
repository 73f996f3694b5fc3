-------------------------- MODULE CmdThreadProofs --------------------------
(***************************************************************************)
(* Theorems about CmdThread for any number of commands, callers and opens. *)
(***************************************************************************)
EXTENDS CmdThread, SequenceTheorems, TLAPS

\* Beyond the pc at which the thread holds an object it holds none.
HoldsObject == pc \in {"held", "post"} <=> cur # NoCmd

\* Also before it starts, nobody is waiting for a wakeup that will not come.
WakeupComing ==
  (pc \in {"none", "start", "down"} /\ queue # << >> /\ sem = 0)
    => \E c \in Objects(queue) : c \in unup

Active == pc \notin {"none", "start"}

\* How many times terminate_cmdthread_sema has been raised and not yet
\* awaited, wherever opener, unloader and thread are.
TermCount == ~cut =>
  /\ life = "closed" => pc = "none" /\ term = 0
  /\ life = "opening" => \/ pc = "start" /\ term = 0
                         \/ Active /\ term = 1
                         \/ pc = "none" /\ term = 2
  /\ life \in {"up", "stopping", "waiting"} => \/ Active /\ term = 0
                                               \/ pc = "none" /\ term = 1

IInv == TypeOK /\ HoldsObject /\ OneOwner /\ WakeupComing

-----------------------------------------------------------------------------
(***************************************************************************)
(* The queue as a set of objects.                                          *)
(***************************************************************************)
NoRepeat(s) == \A i, j \in DOMAIN s : s[i] = s[j] => i = j

LEMMA AppendObjects ==
  ASSUME NEW s \in Seq(Cmds), NEW c \in Cmds
  PROVE  Objects(Append(s, c)) = Objects(s) \cup {c}
<1>1. /\ DOMAIN Append(s, c) = 1 .. Len(s) + 1
      /\ DOMAIN s = 1 .. Len(s)
      /\ Len(s) \in Nat
      /\ \A i \in 1 .. Len(s) : Append(s, c)[i] = s[i]
      /\ Append(s, c)[Len(s) + 1] = c
  OBVIOUS
<1> QED
  BY <1>1 DEF Objects

LEMMA AppendNoRepeat ==
  ASSUME NEW s \in Seq(Cmds), NEW c \in Cmds, c \notin Objects(s), NoRepeat(s)
  PROVE  NoRepeat(Append(s, c))
<1>1. /\ DOMAIN Append(s, c) = 1 .. Len(s) + 1
      /\ DOMAIN s = 1 .. Len(s)
      /\ Len(s) \in Nat
      /\ \A i \in 1 .. Len(s) : Append(s, c)[i] = s[i]
      /\ Append(s, c)[Len(s) + 1] = c
  OBVIOUS
<1>2. \A i \in 1 .. Len(s) : s[i] # c
  BY <1>1 DEF Objects
<1>3. SUFFICES ASSUME NEW i \in 1 .. Len(s) + 1, NEW j \in 1 .. Len(s) + 1,
                      Append(s, c)[i] = Append(s, c)[j]
               PROVE  i = j
  BY <1>1 DEF NoRepeat
<1>4. CASE i \in 1 .. Len(s) /\ j \in 1 .. Len(s)
  BY <1>1, <1>3, <1>4 DEF NoRepeat
<1>5. CASE i = Len(s) + 1 \/ j = Len(s) + 1
  BY <1>1, <1>2, <1>3, <1>5
<1>6. /\ i \in 1 .. Len(s) \/ i = Len(s) + 1
      /\ j \in 1 .. Len(s) \/ j = Len(s) + 1
  BY <1>1
<1> QED
  BY <1>3, <1>4, <1>5, <1>6, Zenon

LEMMA TailFacts ==
  ASSUME NEW s \in Seq(Cmds), s # << >>
  PROVE  /\ DOMAIN s = 1 .. Len(s) /\ Len(s) \in Nat /\ Len(s) > 0
         /\ DOMAIN Tail(s) = 1 .. Len(s) - 1
         /\ \A i \in 1 .. Len(s) - 1 : Tail(s)[i] = s[i + 1]
         /\ Head(s) = s[1]
         /\ Head(s) \in Cmds
         /\ Tail(s) \in Seq(Cmds)
  OBVIOUS

LEMMA TailObjects ==
  ASSUME NEW s \in Seq(Cmds), s # << >>, NoRepeat(s)
  PROVE  Objects(Tail(s)) = Objects(s) \ {Head(s)} /\ Head(s) \in Objects(s)
<1>1. Head(s) \in Objects(s)
  BY TailFacts DEF Objects
<1>2. ASSUME NEW c \in Objects(Tail(s)) PROVE c \in Objects(s) \ {Head(s)}
  <2>1. PICK i \in 1 .. Len(s) - 1 : c = s[i + 1]
    BY <1>2, TailFacts DEF Objects
  <2>2. i + 1 \in DOMAIN s /\ 1 \in DOMAIN s /\ i + 1 # 1
    BY TailFacts
  <2> QED
    BY <2>1, <2>2, TailFacts DEF Objects, NoRepeat
<1>3. ASSUME NEW c \in Objects(s) \ {Head(s)} PROVE c \in Objects(Tail(s))
  <2>1. PICK j \in DOMAIN s : c = s[j]
    BY <1>3 DEF Objects
  <2>2. j # 1
    BY <1>3, <2>1, TailFacts
  <2>3. j - 1 \in 1 .. Len(s) - 1 /\ (j - 1) + 1 = j
    BY <2>1, <2>2, TailFacts
  <2>4. Tail(s)[j - 1] = s[j]
    BY <2>3, TailFacts
  <2> QED
    BY <2>1, <2>3, <2>4, TailFacts DEF Objects
<1> QED
  BY <1>1, <1>2, <1>3

LEMMA TailNoRepeat ==
  ASSUME NEW s \in Seq(Cmds), s # << >>, NoRepeat(s)
  PROVE  NoRepeat(Tail(s))
<1> SUFFICES ASSUME NEW i \in DOMAIN Tail(s), NEW j \in DOMAIN Tail(s),
                    Tail(s)[i] = Tail(s)[j]
             PROVE  i = j
  BY DEF NoRepeat
<1>1. s[i + 1] = s[j + 1] /\ i + 1 \in DOMAIN s /\ j + 1 \in DOMAIN s
  BY TailFacts
<1>2. i + 1 = j + 1
  BY <1>1 DEF NoRepeat
<1> QED
  BY <1>2, TailFacts

-----------------------------------------------------------------------------
LEMMA InitIInv == Init => IInv
<1> SUFFICES ASSUME Init PROVE IInv
  OBVIOUS
<1>1. << >> \in Seq(Cmds) /\ Objects(<< >>) = {}
  BY DEF Objects
<1>2. [c \in Cmds |-> "new"] \in [Cmds -> CmdState]
  BY DEF CmdState
<1>3. TypeOK
  BY <1>1, <1>2, Zenon DEF Init, TypeOK
<1> QED
  BY <1>1, <1>3 DEF Init, IInv, HoldsObject, OneOwner, WakeupComing

\* What one command's change of state does to the ownership invariant.
LEMMA NextIInv == IInv /\ [Next]_vars => IInv'
<1> SUFFICES ASSUME IInv, [Next]_vars PROVE IInv'
  OBVIOUS
<1> USE CmdThreadAssumption DEF IInv, HoldsObject, WakeupComing, CmdState, Flags, Life
<1>0. NoRepeat(queue) /\ queue \in Seq(Cmds)
  BY DEF OneOwner, NoRepeat, TypeOK
<1>1. ASSUME NEW c \in Cmds, Refuse(c) PROVE IInv'
  BY <1>1 DEF Refuse, TypeOK, OneOwner
<1>2. ASSUME NEW c \in Cmds, Pass(c) PROVE IInv'
  BY <1>2 DEF Pass, TypeOK, OneOwner
<1>3. ASSUME NEW c \in Cmds, Enqueue(c) PROVE IInv'
  <2>1. c \notin Objects(queue)
    BY <1>3 DEF Enqueue, OneOwner
  <2>2. NoRepeat(queue') /\ Objects(queue') = Objects(queue) \cup {c}
    <3>1. queue' = Append(queue, c)
      BY <1>3 DEF Enqueue
    <3>2. NoRepeat(Append(queue, c))
      BY <1>0, <2>1, AppendNoRepeat, Zenon
    <3>3. Objects(Append(queue, c)) = Objects(queue) \cup {c}
      BY <1>0, AppendObjects
    <3> QED
      BY <3>1, <3>2, <3>3
  <2>3. TypeOK'
    BY <1>0, <1>3 DEF Enqueue, TypeOK
  <2>4. OneOwner'
    BY <1>3, <2>2 DEF Enqueue, OneOwner, NoRepeat, TypeOK
  <2> QED
    BY <1>3, <2>2, <2>3, <2>4 DEF Enqueue
<1>4. ASSUME NEW c \in Cmds, EnqueueUp(c) PROVE IInv'
  BY <1>4 DEF EnqueueUp, TypeOK, OneOwner
<1>5. ASSUME ThreadStart PROVE IInv'
  BY <1>5 DEF ThreadStart, TypeOK, OneOwner
<1>6. ASSUME ThreadDown PROVE IInv'
  BY <1>6 DEF ThreadDown, TypeOK, OneOwner
<1>7. ASSUME ThreadSignal PROVE IInv'
  BY <1>7 DEF ThreadSignal, TypeOK, OneOwner
<1>8. ASSUME ThreadNext PROVE IInv'
  BY <1>8 DEF ThreadNext, TypeOK, OneOwner
<1>9. ASSUME ThreadTake PROVE IInv'
  <2>1. /\ NoRepeat(queue')
        /\ Objects(queue') = Objects(queue) \ {Head(queue)}
        /\ Head(queue) \in Objects(queue)
        /\ queue' \in Seq(Cmds) /\ Head(queue) \in Cmds
    BY <1>0, <1>9, TailNoRepeat, TailObjects, TailFacts DEF ThreadTake
  <2>2. TypeOK'
    BY <1>9, <2>1 DEF ThreadTake, TypeOK
  <2>3. OneOwner'
    BY <1>9, <2>1 DEF ThreadTake, OneOwner, NoRepeat, TypeOK
  <2> QED
    BY <1>9, <2>1, <2>2, <2>3 DEF ThreadTake
<1>10. ASSUME ThreadNone PROVE IInv'
  BY <1>10 DEF ThreadNone, TypeOK, OneOwner
<1>11. ASSUME ThreadRun PROVE IInv'
  BY <1>11 DEF ThreadRun, TypeOK, OneOwner
<1>12. ASSUME ThreadPost PROVE IInv'
  BY <1>12 DEF ThreadPost, CallbackLeaves, TypeOK, OneOwner
<1>13. ASSUME ThreadLeave PROVE IInv'
  BY <1>13 DEF ThreadLeave, TypeOK, OneOwner
<1>14. ASSUME ThreadDrain PROVE IInv'
  <2>1. /\ NoRepeat(queue')
        /\ Objects(queue') = Objects(queue) \ {Head(queue)}
        /\ Head(queue) \in Objects(queue)
        /\ queue' \in Seq(Cmds) /\ Head(queue) \in Cmds
    BY <1>0, <1>14, TailNoRepeat, TailObjects, TailFacts DEF ThreadDrain
  <2>2. TypeOK'
    BY <1>14, <2>1 DEF ThreadDrain, TypeOK
  <2>3. OneOwner'
    BY <1>14, <2>1 DEF ThreadDrain, OneOwner, NoRepeat, TypeOK
  <2> QED
    BY <1>14, <2>1, <2>2, <2>3 DEF ThreadDrain
<1>15. ASSUME ThreadExit PROVE IInv'
  BY <1>15 DEF ThreadExit, TypeOK, OneOwner
<1>16. ASSUME OpenFails PROVE IInv'
  <2>0. hw' \in BOOLEAN /\ stopped' \in BOOLEAN /\ removed' \in BOOLEAN
    BY <1>16, Zenon DEF OpenFails
  <2>1. opens' \in Nat
    BY <1>16 DEF OpenFails, TypeOK
  <2>2. UNCHANGED <<queue, sem, term, running, pc, cur, cmd, unup, life, cut>>
    BY <1>16 DEF OpenFails
  <2> QED
    BY <2>0, <2>1, <2>2 DEF TypeOK, OneOwner
<1>17. ASSUME Open PROVE IInv'
  <2>0. hw' \in BOOLEAN /\ stopped' \in BOOLEAN /\ removed' \in BOOLEAN
    BY <1>17, Zenon DEF Open
  <2>1. opens' \in Nat /\ pc = "none" /\ pc' = "start" /\ life' = "opening"
    BY <1>17 DEF Open, TypeOK
  <2>2. UNCHANGED <<queue, sem, term, running, cur, cmd, unup, cut>>
    BY <1>17 DEF Open
  <2> QED
    BY <2>0, <2>1, <2>2 DEF TypeOK, OneOwner
<1>18. ASSUME Opened PROVE IInv'
  BY <1>18 DEF Opened, TypeOK, OneOwner
<1>19. ASSUME Unload PROVE IInv'
  BY <1>19 DEF Unload, TypeOK, OneOwner
<1>20. ASSUME StopThreads PROVE IInv'
  BY <1>20 DEF StopThreads, TypeOK, OneOwner
<1>21. ASSUME Unloaded PROVE IInv'
  <2>0. hw' \in BOOLEAN /\ removed' \in BOOLEAN
    BY <1>21, Zenon DEF Unloaded, UnloadRest
  <2>1. life' = "closed" /\ term' \in Nat
    BY <1>21 DEF Unloaded, UnloadRest, TypeOK
  <2>2. UNCHANGED <<queue, sem, running, pc, cur, cmd, unup, stopped, opens, cut>>
    BY <1>21 DEF Unloaded
  <2> QED
    BY <2>0, <2>1, <2>2 DEF TypeOK, OneOwner
<1>22. ASSUME WaitInterrupted PROVE IInv'
  <2>0. hw' \in BOOLEAN /\ removed' \in BOOLEAN /\ cut' \in BOOLEAN
    BY <1>22, Zenon DEF WaitInterrupted, UnloadRest, TypeOK
  <2>1. life' \in {"up", "closed"}
    BY <1>22 DEF WaitInterrupted, UnloadRest
  <2>2. UNCHANGED <<queue, sem, term, running, pc, cur, cmd, unup, stopped, opens>>
    BY <1>22 DEF WaitInterrupted
  <2> QED
    BY <2>0, <2>1, <2>2 DEF TypeOK, OneOwner
<1>23. ASSUME Unplug PROVE IInv'
  BY <1>23 DEF Unplug, TypeOK, OneOwner
<1>24. ASSUME IpsOff \/ IpsOn PROVE IInv'
  <2>0. hw' \in BOOLEAN /\ stopped' \in BOOLEAN /\ removed' \in BOOLEAN
    BY <1>24, Zenon DEF IpsOff, IpsOn, TypeOK
  <2>1. UNCHANGED <<queue, sem, term, running, pc, cur, cmd, unup, life, opens, cut>>
    BY <1>24 DEF IpsOff, IpsOn
  <2> QED
    BY <2>0, <2>1 DEF TypeOK, OneOwner
<1>25. CASE UNCHANGED vars
  BY <1>25 DEF vars, TypeOK, OneOwner
<1> QED
  BY <1>1, <1>2, <1>3, <1>4, <1>5, <1>6, <1>7, <1>8, <1>9, <1>10, <1>11,
     <1>12, <1>13, <1>14, <1>15, <1>16, <1>17, <1>18, <1>19, <1>20, <1>21,
     <1>22, <1>23, <1>24, <1>25
  DEF Next, Caller, Thread, Lifecycle

\* The queue, the semaphores, the thread and the lifecycle stay well typed.
THEOREM CmdTypeOK == Spec => []TypeOK
<1>1. IInv => TypeOK
  BY DEF IInv
<1> QED
  BY <1>1, InitIInv, NextIInv, PTL DEF Spec

\* No command object is ever in two hands: rtw_free_cmd_obj frees an object
\* that nobody else holds, however many contexts enqueue.
THEOREM CmdOneOwner == Spec => []OneOwner
<1>1. IInv => OneOwner
  BY DEF IInv
<1> QED
  BY <1>1, InitIInv, NextIInv, PTL DEF Spec

\* The thread never sleeps over a queued command, also when an earlier life
\* of the interface has left one behind.
THEOREM CmdNoLostWakeup == Spec => []NoLostWakeup
<1>1. IInv => NoLostWakeup
  BY DEF IInv, WakeupComing, NoLostWakeup
<1> QED
  BY <1>1, InitIInv, NextIInv, PTL DEF Spec

-----------------------------------------------------------------------------
\* Until a signal ends one of the waits, terminate_cmdthread_sema pairs each
\* start and each stop with its own raise.
LEMMA NextTermCount ==
  TypeOK /\ TermCount /\ [Next]_vars => TermCount'
<1> SUFFICES ASSUME TypeOK, TermCount, [Next]_vars
             PROVE  TermCount'
  OBVIOUS
<1> USE DEF TermCount, Active, TypeOK, Flags, Life
<1>1. ASSUME NEW c \in Cmds, Caller(c) PROVE TermCount'
  BY <1>1 DEF Caller, Refuse, Pass, Enqueue, EnqueueUp
<1>2. ASSUME ThreadStart PROVE TermCount'
  BY <1>2 DEF ThreadStart
<1>3. ASSUME ThreadExit PROVE TermCount'
  BY <1>3 DEF ThreadExit
<1>4. ASSUME ThreadDown \/ ThreadSignal \/ ThreadNext \/ ThreadTake \/ ThreadNone
      PROVE  TermCount'
  BY <1>4 DEF ThreadDown, ThreadSignal, ThreadNext, ThreadTake, ThreadNone
<1>5. ASSUME ThreadRun \/ ThreadPost \/ ThreadLeave \/ ThreadDrain
      PROVE  TermCount'
  BY <1>5 DEF ThreadRun, ThreadPost, ThreadLeave, ThreadDrain
<1>6. ASSUME Open PROVE TermCount'
  BY <1>6 DEF Open
<1>7. ASSUME Opened PROVE TermCount'
  BY <1>7 DEF Opened
<1>8. ASSUME Unload \/ StopThreads PROVE TermCount'
  BY <1>8 DEF Unload, StopThreads
<1>9. ASSUME Unloaded PROVE TermCount'
  BY <1>9 DEF Unloaded, UnloadRest
<1>10. ASSUME OpenFails \/ Unplug \/ UNCHANGED vars PROVE TermCount'
  BY <1>10 DEF OpenFails, Unplug, vars
<1>11. ASSUME WaitInterrupted PROVE TermCount'
  BY <1>11 DEF WaitInterrupted
<1>12. ASSUME IpsOff \/ IpsOn PROVE TermCount'
  <2>1. UNCHANGED <<pc, term, life, cut>>
    BY <1>12 DEF IpsOff, IpsOn
  <2> QED
    BY <2>1
<1> QED
  BY <1>1, <1>2, <1>3, <1>4, <1>5, <1>6, <1>7, <1>8, <1>9, <1>10, <1>11, <1>12
  DEF Next, Thread, Lifecycle

\* When rtw_dev_unload has returned and no signal has ended a wait before, the
\* command thread is gone and no count is left on its semaphore.
THEOREM CmdNoThreadAfterUnload == Spec => []NoThreadAfterUnload
<1>1. Init => TermCount
  BY DEF Init, TermCount, Active
<1>2. TypeOK /\ TermCount /\ [Next]_vars => TermCount'
  BY NextTermCount
<1>3. TermCount => NoThreadAfterUnload
  BY DEF TermCount, NoThreadAfterUnload
<1> QED
  BY <1>1, <1>2, <1>3, CmdTypeOK, PTL DEF Spec
=============================================================================
