--------------------------- MODULE PwrCtrlProofs ----------------------------
(***************************************************************************)
(* Theorems about PwrCtrl for any set of wakers and any number of suspends.*)
(***************************************************************************)
EXTENDS PwrCtrl, FiniteSetTheorems, TLAPS

HoldsW(w) == pc[w] \in {"leave", "rfon"}
HoldsT == thread \in {"locked", "down"}
HoldsS == sys \in {"hold", "wait", "off", "open"}

\* The semaphore is free or taken once, and has at most one holder.
Mutex ==
  /\ lock \in {0, 1}
  /\ \A w \in Wakers : HoldsW(w) => /\ lock = 0 /\ ~HoldsT /\ ~HoldsS
                                    /\ \A v \in Wakers : HoldsW(v) => v = w
  /\ HoldsT => lock = 0 /\ ~HoldsS
  /\ HoldsS => lock = 0

\* A suspend ends the thread before it takes the power; a resume opens a
\* driver that is not stopped, and does a full initialisation.
Running ==
  /\ sys \in {"up", "lock", "hold", "open"} => ~stopped
  /\ sys \in {"off", "down", "rlock", "open", "dead"} => thread = "gone"
  /\ sys = "up" => thread # "gone"
  /\ sys = "open" => ~keepfw

\* What the holder of the semaphore has done of its switch so far.
Switching ==
  sys = "up" =>
    /\ lock = 1 => (hw <=> rf = "on")
    /\ thread = "locked" => (hw <=> rf = "on")
    /\ thread = "down" => IF change = "off" THEN ~hw ELSE (hw <=> rf = "on")
    /\ \A w \in Wakers : /\ pc[w] = "leave" => rf = "off" /\ ~hw
                         /\ pc[w] = "rfon" => rf = "on" /\ ~hw

\* Where the firmware has to be in the chip.
Firmware ==
  /\ thread \in {"enter", "wait", "locked", "down"} => rf = "on"
  /\ sys = "up" => /\ hw \/ keepfw => loaded
                   /\ \A w \in Wakers : pc[w] = "rfon" => loaded

\* Another look at the power state is due while the semaphore is free.
CheckDue ==
  sys = "up" /\ rf = "on" /\ lock = 1 =>
    timer \/ pscmd > 0 \/ thread \notin {"idle", "gone"}

\* A semaphore that is taken has a holder, unless a resume failed.
Held == lock = 0 /\ sys = "up" => HoldsT \/ \E w \in Wakers : HoldsW(w)

IInv == TypeOK /\ Mutex /\ Held /\ Running /\ Switching /\ Firmware /\ CheckDue

\* Unless waits are slow: a waker past its first wait keeps the thread from
\* going further than its mark, so none sees the RF taken away.
Woken ==
  /\ \A w \in Wakers : pc[w] # "out" => deny
  /\ ps <=> thread \notin {"idle", "gone"}
  /\ (\E w \in Wakers : pc[w] \notin {"out", "ps"}) => thread \in {"idle", "gone", "mark", "tail"}
  /\ thread \in {"enter", "wait", "locked", "down"} => fw = "idle"
  /\ thread = "down" /\ change = "off" => ~hw
  /\ hw \/ fw # "idle" \/ (\E w \in Wakers : pc[w] = "ok") => rf = "on"

-----------------------------------------------------------------------------
LEMMA InitInv == Init => IInv /\ Woken
<1> SUFFICES ASSUME Init PROVE IInv /\ Woken
  OBVIOUS
<1>1. TypeOK
  BY DEF Init, TypeOK, ThreadPc, WakerPc, SysPc
<1>2. Mutex
  BY DEF Init, Mutex, HoldsW, HoldsT, HoldsS
<1>3. Running /\ Switching /\ Firmware
  BY DEF Init, Running, Switching, Firmware
<1>4. CheckDue /\ Held
  BY DEF Init, CheckDue, Held
<1>5. Woken
  BY DEF Init, Woken
<1> QED
  BY <1>1, <1>2, <1>3, <1>4, <1>5 DEF IInv

\* The flags, and the rest of the types.
Flags ==
  /\ hw \in BOOLEAN /\ loaded \in BOOLEAN /\ keepfw \in BOOLEAN
  /\ bips \in BOOLEAN /\ ps \in BOOLEAN /\ deny \in BOOLEAN /\ timer \in BOOLEAN
  /\ stopped \in BOOLEAN /\ bup \in BOOLEAN /\ insusp \in BOOLEAN /\ roam \in BOOLEAN

Places ==
  /\ lock \in Nat /\ pscmd \in Nat /\ suspends \in Nat
  /\ rf \in {"on", "off"} /\ change \in {"on", "off"}
  /\ req \in {"none", "normal", "level2"} /\ fw \in {"idle", "busy", "linked"}
  /\ thread \in ThreadPc /\ pc \in [Wakers -> WakerPc] /\ sys \in SysPc

LEMMA TypeParts == TypeOK <=> Flags /\ Places
  BY DEF TypeOK, Flags, Places

LEMMA FlagsNext == Flags /\ [Next]_vars => Flags'
<1>0. ASSUME Flags, UNCHANGED vars PROVE Flags'
  <2>1. UNCHANGED <<hw, loaded, keepfw, bips, ps, deny, timer>>
    BY <1>0 DEF vars, chip
  <2>2. UNCHANGED <<stopped, bup, insusp, roam>>
    BY <1>0 DEF vars, life
  <2> QED
    BY <1>0, <2>1, <2>2, Zenon DEF Flags
<1> SUFFICES ASSUME Flags, Next PROVE Flags'
  BY <1>0, Zenon
<1> USE DEF Flags, chip, life
<1>1. CASE PsTimer
  BY <1>1, Zenon DEF PsTimer
<1>2. CASE ThreadNext
  <2>1. CASE PsStart \/ PsExit
    <3>1. CASE PsStart
      BY <3>1, Zenon DEF PsStart
    <3>2. CASE PsExit
      BY <3>2, Zenon DEF PsExit
    <3> QED
      BY <2>1, <3>1, <3>2
  <2>2. CASE PsMark \/ IpsBusy \/ IpsFree \/ ThreadStops
    <3>1. UNCHANGED <<hw, loaded, keepfw, bips, ps, deny, timer, stopped, bup, insusp, roam>>
      BY <2>2 DEF PsMark, IpsBusy, IpsFree, ThreadStops
    <3> QED
      BY <3>1, Zenon
  <2>3. CASE PsLook
    BY <2>3, Zenon DEF PsLook
  <2>4. CASE IpsLock \/ IpsDone
    <3>1. CASE IpsLock
      BY <3>1, Zenon DEF IpsLock
    <3>2. CASE IpsDone
      BY <3>2, Zenon DEF IpsDone
    <3> QED
      BY <2>4, <3>1, <3>2
  <2>5. CASE IpsDown
    <3>1. (loaded /\ (keepfw' \/ ~hw)) \in BOOLEAN /\ (keepfw \/ req = "level2") \in BOOLEAN
      OBVIOUS
    <3>2. keepfw' \in BOOLEAN /\ hw' \in BOOLEAN /\ loaded' \in BOOLEAN
      BY <2>5, <3>1, Zenon DEF IpsDown, HalDeinit
    <3> QED
      BY <2>5, <3>2, Zenon DEF IpsDown
  <2> QED
    BY <1>2, <2>1, <2>2, <2>3, <2>4, <2>5 DEF ThreadNext
<1>3. ASSUME NEW w \in Wakers, Wakeup(w) \/ WakerStep(w) PROVE Flags'
  <2> USE DEF Return
  <2>1. CASE Wakeup(w)
    BY <2>1, Zenon DEF Wakeup
  <2>2. CASE WakePs(w) \/ WakePsTimeout(w) \/ WakeSus(w) \/ WakeSusTimeout(w)
    <3>1. CASE WakePs(w)
      BY <3>1, Zenon DEF WakePs
    <3>2. CASE WakePsTimeout(w)
      BY <3>2, Zenon DEF WakePsTimeout
    <3>3. CASE WakeSus(w)
      BY <3>3, Zenon DEF WakeSus
    <3>4. CASE WakeSusTimeout(w)
      BY <3>4, Zenon DEF WakeSusTimeout
    <3> QED
      BY <2>2, <3>1, <3>2, <3>3, <3>4
  <2>3. CASE WakeLook(w) \/ WakeFin(w)
    <3>1. CASE WakeLook(w)
      BY <3>1, ZenonT(60) DEF WakeLook
    <3>2. CASE WakeFin(w)
      BY <3>2, Zenon DEF WakeFin
    <3> QED
      BY <2>3, <3>1, <3>2
  <2>4. CASE LeaveLock(w)
    BY <2>4, Zenon DEF LeaveLock
  <2>5. CASE LeaveRfOn(w)
    BY <2>5, Zenon DEF LeaveRfOn
  <2>6. CASE LeaveOk(w)
    BY <2>6, Zenon DEF LeaveOk, LeaveEnd
  <2>7. CASE LeaveFail(w)
    BY <2>7, Zenon DEF LeaveFail, LeaveEnd
  <2>8. CASE Proceed(w)
    BY <2>8, Zenon DEF Proceed
  <2> QED
    BY <1>3, <2>1, <2>2, <2>3, <2>4, <2>5, <2>6, <2>7, <2>8 DEF WakerStep
<1>4. ASSUME NEW m \in {"normal", "level2"}, SetIps(m) PROVE Flags'
  BY <1>4, Zenon DEF SetIps
<1>5. CASE DenyExpires \/ FwChanges
  <2>1. CASE DenyExpires
    BY <2>1, Zenon DEF DenyExpires
  <2>2. CASE FwChanges
    BY <2>2, Zenon DEF FwChanges
  <2> QED
    BY <1>5, <2>1, <2>2
<1>6. CASE SuspendStart \/ SuspendSkip \/ SystemNext
  <2>1. CASE SuspendStart \/ SuspendSkip
    <3>1. CASE SuspendStart
      BY <3>1, Zenon DEF SuspendStart
    <3>2. CASE SuspendSkip
      BY <3>2, Zenon DEF SuspendSkip
    <3> QED
      BY <2>1, <3>1, <3>2
  <2>2. CASE SuspendLock
    BY <2>2, Zenon DEF SuspendLock
  <2>3. CASE SuspendStop \/ SuspendWait \/ Resume
    <3>1. CASE SuspendStop
      BY <3>1, Zenon DEF SuspendStop
    <3>2. CASE SuspendWait
      BY <3>2, Zenon DEF SuspendWait
    <3>3. CASE Resume
      BY <3>3, Zenon DEF Resume
    <3> QED
      BY <2>3, <3>1, <3>2, <3>3
  <2>4. CASE SuspendOff
    BY <2>4, Zenon DEF SuspendOff
  <2>5. CASE ResumeLock
    BY <2>5, Zenon DEF ResumeLock
  <2>6. CASE ResumeOpen
    BY <2>6, Zenon DEF ResumeOpen
  <2>7. CASE ResumeFail
    BY <2>7, Zenon DEF ResumeFail
  <2> QED
    BY <1>6, <2>1, <2>2, <2>3, <2>4, <2>5, <2>6, <2>7 DEF SystemNext
<1> QED
  BY <1>1, <1>2, <1>3, <1>4, <1>5, <1>6 DEF Next

LEMMA PlacesNext == Places /\ [Next]_vars => Places'
<1> SUFFICES ASSUME Places, Next PROVE Places'
  BY DEF Places, vars, chip, life
<1> USE DEF Places, chip, life
<1>1. CASE PsTimer
  <2>1. pscmd' \in {pscmd, pscmd + 1}
    BY <1>1 DEF PsTimer
  <2>2. pscmd' \in Nat
    BY <2>1
  <2> QED
    BY <1>1, <2>2, Zenon DEF PsTimer
<1>2. CASE ThreadNext
  <2> USE DEF ThreadPc
  <2>1. CASE PsStart \/ PsMark \/ PsLook \/ IpsBusy \/ IpsFree \/ PsExit \/ ThreadStops
    BY <2>1 DEF PsStart, PsMark, PsLook, IpsBusy, IpsFree, PsExit, ThreadStops
  <2>2. CASE IpsLock
    BY <2>2 DEF IpsLock, EnterPwrlock
  <2>3. CASE IpsDown
    BY <2>3 DEF IpsDown, HalDeinit
  <2>4. CASE IpsDone
    BY <2>4 DEF IpsDone, ExitPwrlock
  <2> QED
    BY <1>2, <2>1, <2>2, <2>3, <2>4 DEF ThreadNext
<1>3. ASSUME NEW w \in Wakers, Wakeup(w) \/ WakerStep(w) PROVE Places'
  <2> USE DEF Goto, Return, WakerPc
  <2>1. CASE Wakeup(w)
    BY <2>1 DEF Wakeup
  <2>2. CASE WakePs(w) \/ WakePsTimeout(w) \/ WakeSus(w) \/ WakeSusTimeout(w)
    BY <2>2 DEF WakePs, WakePsTimeout, WakeSus, WakeSusTimeout
  <2>3. CASE WakeLook(w)
    BY <2>3 DEF WakeLook
  <2>4. CASE LeaveLock(w)
    BY <2>4 DEF LeaveLock, EnterPwrlock, ResetDrvSw
  <2>5. CASE LeaveRfOn(w)
    BY <2>5 DEF LeaveRfOn
  <2>6. CASE LeaveOk(w)
    BY <2>6 DEF LeaveOk, LeaveEnd, ExitPwrlock
  <2>7. CASE LeaveFail(w)
    BY <2>7 DEF LeaveFail, LeaveEnd, ExitPwrlock
  <2>8. CASE WakeFin(w)
    BY <2>8 DEF WakeFin
  <2>9. CASE Proceed(w)
    BY <2>9 DEF Proceed
  <2> QED
    BY <1>3, <2>1, <2>2, <2>3, <2>4, <2>5, <2>6, <2>7, <2>8, <2>9 DEF WakerStep
<1>4. ASSUME NEW m \in {"normal", "level2"}, SetIps(m) PROVE Places'
  BY <1>4 DEF SetIps
<1>5. CASE DenyExpires \/ FwChanges
  BY <1>5 DEF DenyExpires, FwChanges
<1>6. CASE SuspendStart \/ SuspendSkip \/ SystemNext
  <2> USE DEF SysPc, ThreadPc
  <2>1. CASE SuspendStart \/ SuspendSkip \/ SuspendStop \/ SuspendWait \/ Resume
    BY <2>1 DEF SuspendStart, SuspendSkip, SuspendStop, SuspendWait, Resume
  <2>2. CASE SuspendLock
    BY <2>2 DEF SuspendLock, EnterPwrlock
  <2>3. CASE SuspendOff
    BY <2>3 DEF SuspendOff, ExitPwrlock
  <2>4. CASE ResumeLock
    BY <2>4 DEF ResumeLock, EnterPwrlock, ResetDrvSw
  <2>5. CASE ResumeOpen
    BY <2>5 DEF ResumeOpen, ExitPwrlock
  <2>6. CASE ResumeFail
    BY <2>6 DEF ResumeFail
  <2> QED
    BY <1>6, <2>1, <2>2, <2>3, <2>4, <2>5, <2>6 DEF SystemNext
<1> QED
  BY <1>1, <1>2, <1>3, <1>4, <1>5, <1>6 DEF Next

LEMMA MutexNext == ~Signals /\ TypeOK /\ Mutex /\ [Next]_vars => Mutex'
<1> SUFFICES ASSUME ~Signals, TypeOK, Mutex, Next PROVE Mutex'
  BY DEF Mutex, HoldsW, HoldsT, HoldsS, vars
<1> USE DEF Mutex, HoldsW, HoldsT, HoldsS, TypeOK
<1>1. CASE PsTimer
  BY <1>1 DEF PsTimer
<1>2. CASE ThreadNext
  <2>1. CASE PsStart \/ PsMark \/ PsLook \/ IpsBusy \/ IpsFree \/ PsExit \/ ThreadStops
    BY <2>1 DEF PsStart, PsMark, PsLook, IpsBusy, IpsFree, PsExit, ThreadStops
  <2>2. CASE IpsLock
    BY <2>2 DEF IpsLock, EnterPwrlock
  <2>3. CASE IpsDown
    BY <2>3 DEF IpsDown
  <2>4. CASE IpsDone
    BY <2>4 DEF IpsDone, ExitPwrlock
  <2> QED
    BY <1>2, <2>1, <2>2, <2>3, <2>4 DEF ThreadNext
<1>3. ASSUME NEW w \in Wakers, Wakeup(w) \/ WakerStep(w) PROVE Mutex'
  <2> USE DEF Goto, Return
  <2>1. CASE Wakeup(w) \/ WakePs(w) \/ WakePsTimeout(w) \/ WakeSus(w) \/ WakeSusTimeout(w)
             \/ WakeFin(w) \/ Proceed(w)
    BY <2>1 DEF Wakeup, WakePs, WakePsTimeout, WakeSus, WakeSusTimeout, WakeFin, Proceed
  <2>3. CASE WakeLook(w)
    BY <2>3 DEF WakeLook
  <2>4. CASE LeaveLock(w)
    BY <2>4 DEF LeaveLock, EnterPwrlock
  <2>5. CASE LeaveRfOn(w)
    BY <2>5 DEF LeaveRfOn
  <2>6. CASE LeaveOk(w) \/ LeaveFail(w)
    BY <2>6 DEF LeaveOk, LeaveFail, LeaveEnd, ExitPwrlock
  <2> QED
    BY <1>3, <2>1, <2>3, <2>4, <2>5, <2>6 DEF WakerStep
<1>4. ASSUME NEW m \in {"normal", "level2"}, SetIps(m) PROVE Mutex'
  BY <1>4 DEF SetIps
<1>5. CASE DenyExpires \/ FwChanges
  BY <1>5 DEF DenyExpires, FwChanges
<1>6. CASE SuspendStart \/ SuspendSkip \/ SystemNext
  <2>1. CASE SuspendStart \/ SuspendSkip \/ SuspendStop \/ SuspendWait \/ Resume \/ ResumeFail
    BY <2>1 DEF SuspendStart, SuspendSkip, SuspendStop, SuspendWait, Resume, ResumeFail
  <2>2. CASE SuspendLock \/ ResumeLock
    BY <2>2 DEF SuspendLock, ResumeLock, EnterPwrlock
  <2>3. CASE SuspendOff \/ ResumeOpen
    BY <2>3 DEF SuspendOff, ResumeOpen, ExitPwrlock
  <2> QED
    BY <1>6, <2>1, <2>2, <2>3 DEF SystemNext
<1> QED
  BY <1>1, <1>2, <1>3, <1>4, <1>5, <1>6 DEF Next

LEMMA RunningNext ==
  ASSUME TypeOK, Running, Next
  PROVE  Running'
<1> USE DEF Running, chip, life
<1>1. CASE PsTimer
  BY <1>1 DEF PsTimer
<1>2. CASE ThreadNext
  <2>1. CASE PsStart \/ PsMark \/ PsLook \/ IpsBusy \/ IpsFree \/ PsExit \/ ThreadStops
    BY <2>1 DEF PsStart, PsMark, PsLook, IpsBusy, IpsFree, PsExit, ThreadStops
  <2>2. CASE IpsLock
    BY <2>2 DEF IpsLock, EnterPwrlock
  <2>3. CASE IpsDown
    BY <2>3 DEF IpsDown, HalDeinit
  <2>4. CASE IpsDone
    BY <2>4 DEF IpsDone, ExitPwrlock
  <2> QED
    BY <1>2, <2>1, <2>2, <2>3, <2>4 DEF ThreadNext
<1>3. ASSUME NEW w \in Wakers, Wakeup(w) \/ WakerStep(w) PROVE Running'
  <2> USE DEF Goto, Return
  <2>1. CASE Wakeup(w)
    BY <2>1 DEF Wakeup
  <2>2. CASE WakePs(w) \/ WakePsTimeout(w) \/ WakeSus(w) \/ WakeSusTimeout(w)
    BY <2>2 DEF WakePs, WakePsTimeout, WakeSus, WakeSusTimeout
  <2>3. CASE WakeLook(w) \/ WakeFin(w) \/ Proceed(w)
    BY <2>3 DEF WakeLook, WakeFin, Proceed
  <2>4. CASE LeaveLock(w)
    BY <2>4 DEF LeaveLock, EnterPwrlock, ResetDrvSw
  <2>5. CASE LeaveRfOn(w)
    BY <2>5 DEF LeaveRfOn
  <2>6. CASE LeaveOk(w) \/ LeaveFail(w)
    BY <2>6 DEF LeaveOk, LeaveFail, LeaveEnd, ExitPwrlock
  <2> QED
    BY <1>3, <2>1, <2>2, <2>3, <2>4, <2>5, <2>6 DEF WakerStep
<1>4. ASSUME NEW m \in {"normal", "level2"}, SetIps(m) PROVE Running'
  BY <1>4 DEF SetIps
<1>5. CASE DenyExpires \/ FwChanges
  BY <1>5 DEF DenyExpires, FwChanges
<1>6. CASE SuspendStart \/ SuspendSkip \/ SystemNext
  <2>1. CASE SuspendStart \/ SuspendSkip \/ SuspendStop \/ SuspendWait \/ Resume \/ ResumeFail
    BY <2>1 DEF SuspendStart, SuspendSkip, SuspendStop, SuspendWait, Resume, ResumeFail
  <2>2. CASE SuspendLock \/ ResumeLock
    BY <2>2 DEF SuspendLock, ResumeLock, EnterPwrlock, ResetDrvSw
  <2>3. CASE SuspendOff \/ ResumeOpen
    BY <2>3 DEF SuspendOff, ResumeOpen, ExitPwrlock
  <2> QED
    BY <1>6, <2>1, <2>2, <2>3 DEF SystemNext
<1> QED
  BY <1>1, <1>2, <1>3, <1>4, <1>5, <1>6 DEF Next

LEMMA SwitchingNext ==
  ASSUME TypeOK, ~Signals, Mutex, Running, Switching, Next
  PROVE  Switching'
<1> USE TypeParts DEF Switching, Running, Mutex, Places, HoldsW, HoldsT, HoldsS, chip, life
<1>1. CASE PsTimer
  BY <1>1 DEF PsTimer
<1>2. CASE ThreadNext
  <2>1. CASE PsStart \/ PsMark \/ PsLook \/ IpsBusy \/ IpsFree \/ PsExit \/ ThreadStops
    BY <2>1 DEF PsStart, PsMark, PsLook, IpsBusy, IpsFree, PsExit, ThreadStops
  <2>2. CASE IpsLock
    BY <2>2 DEF IpsLock, EnterPwrlock
  <2>3. CASE IpsDown
    BY <2>3 DEF IpsDown, HalDeinit
  <2>4. CASE IpsDone
    BY <2>4 DEF IpsDone, ExitPwrlock
  <2> QED
    BY <1>2, <2>1, <2>2, <2>3, <2>4 DEF ThreadNext
<1>3. ASSUME NEW w \in Wakers, Wakeup(w) \/ WakerStep(w) PROVE Switching'
  <2> USE DEF Goto, Return
  <2>1. CASE Wakeup(w)
    BY <2>1 DEF Wakeup
  <2>2. CASE WakePs(w) \/ WakePsTimeout(w) \/ WakeSus(w) \/ WakeSusTimeout(w)
    BY <2>2 DEF WakePs, WakePsTimeout, WakeSus, WakeSusTimeout
  <2>3. CASE WakeLook(w) \/ WakeFin(w) \/ Proceed(w)
    BY <2>3 DEF WakeLook, WakeFin, Proceed
  <2>4. CASE LeaveLock(w)
    BY <2>4 DEF LeaveLock, EnterPwrlock, ResetDrvSw
  <2>5. CASE LeaveRfOn(w)
    BY <2>5 DEF LeaveRfOn
  <2>6. CASE LeaveOk(w) \/ LeaveFail(w)
    BY <2>6 DEF LeaveOk, LeaveFail, LeaveEnd, ExitPwrlock
  <2> QED
    BY <1>3, <2>1, <2>2, <2>3, <2>4, <2>5, <2>6 DEF WakerStep
<1>4. ASSUME NEW m \in {"normal", "level2"}, SetIps(m) PROVE Switching'
  BY <1>4 DEF SetIps
<1>5. CASE DenyExpires \/ FwChanges
  BY <1>5 DEF DenyExpires, FwChanges
<1>6. CASE SuspendStart \/ SuspendSkip \/ SystemNext
  <2>1. CASE SuspendStart \/ SuspendSkip \/ SuspendStop \/ SuspendWait \/ Resume \/ ResumeFail
    BY <2>1 DEF SuspendStart, SuspendSkip, SuspendStop, SuspendWait, Resume, ResumeFail
  <2>2. CASE SuspendLock \/ ResumeLock
    BY <2>2 DEF SuspendLock, ResumeLock, EnterPwrlock, ResetDrvSw
  <2>3. CASE SuspendOff \/ ResumeOpen
    BY <2>3 DEF SuspendOff, ResumeOpen, ExitPwrlock
  <2> QED
    BY <1>6, <2>1, <2>2, <2>3 DEF SystemNext
<1> QED
  BY <1>1, <1>2, <1>3, <1>4, <1>5, <1>6 DEF Next

LEMMA FirmwareNext ==
  ASSUME TypeOK, ~Signals, Mutex, Running, Switching, Firmware, Next
  PROVE  Firmware'
<1> USE TypeParts DEF Firmware, Switching, Running, Mutex, Places, HoldsW, HoldsT, HoldsS, chip, life
<1>1. CASE PsTimer
  BY <1>1 DEF PsTimer
<1>2. CASE ThreadNext
  <2>1. CASE PsStart \/ PsMark \/ PsLook \/ IpsBusy \/ IpsFree \/ PsExit \/ ThreadStops
    BY <2>1 DEF PsStart, PsMark, PsLook, IpsBusy, IpsFree, PsExit, ThreadStops
  <2>2. CASE IpsLock
    BY <2>2 DEF IpsLock, EnterPwrlock
  <2>3. CASE IpsDown
    BY <2>3 DEF IpsDown, HalDeinit
  <2>4. CASE IpsDone
    BY <2>4 DEF IpsDone, ExitPwrlock
  <2> QED
    BY <1>2, <2>1, <2>2, <2>3, <2>4 DEF ThreadNext
<1>3. ASSUME NEW w \in Wakers, Wakeup(w) \/ WakerStep(w) PROVE Firmware'
  <2> USE DEF Goto, Return
  <2>1. CASE Wakeup(w)
    BY <2>1 DEF Wakeup
  <2>2. CASE WakePs(w) \/ WakePsTimeout(w) \/ WakeSus(w) \/ WakeSusTimeout(w)
    BY <2>2 DEF WakePs, WakePsTimeout, WakeSus, WakeSusTimeout
  <2>3. CASE WakeLook(w) \/ WakeFin(w) \/ Proceed(w)
    BY <2>3 DEF WakeLook, WakeFin, Proceed
  <2>4. CASE LeaveLock(w)
    BY <2>4 DEF LeaveLock, EnterPwrlock, ResetDrvSw
  <2>5. CASE LeaveRfOn(w)
    BY <2>5 DEF LeaveRfOn
  <2>6. CASE LeaveOk(w) \/ LeaveFail(w)
    BY <2>6 DEF LeaveOk, LeaveFail, LeaveEnd, ExitPwrlock
  <2> QED
    BY <1>3, <2>1, <2>2, <2>3, <2>4, <2>5, <2>6 DEF WakerStep
<1>4. ASSUME NEW m \in {"normal", "level2"}, SetIps(m) PROVE Firmware'
  BY <1>4 DEF SetIps
<1>5. CASE DenyExpires \/ FwChanges
  BY <1>5 DEF DenyExpires, FwChanges
<1>6. CASE SuspendStart \/ SuspendSkip \/ SystemNext
  <2>1. CASE SuspendStart \/ SuspendSkip \/ SuspendStop \/ SuspendWait \/ Resume \/ ResumeFail
    BY <2>1 DEF SuspendStart, SuspendSkip, SuspendStop, SuspendWait, Resume, ResumeFail
  <2>2. CASE SuspendLock \/ ResumeLock
    BY <2>2 DEF SuspendLock, ResumeLock, EnterPwrlock, ResetDrvSw
  <2>3. CASE SuspendOff \/ ResumeOpen
    BY <2>3 DEF SuspendOff, ResumeOpen, ExitPwrlock
  <2> QED
    BY <1>6, <2>1, <2>2, <2>3 DEF SystemNext
<1> QED
  BY <1>1, <1>2, <1>3, <1>4, <1>5, <1>6 DEF Next

LEMMA CheckDueNext ==
  ASSUME TypeOK, ~Signals, Mutex, Running, Switching, CheckDue, Next
  PROVE  CheckDue'
<1> USE TypeParts DEF CheckDue, Switching, Running, Mutex, Places, MaxPs, HoldsW, HoldsT, HoldsS, chip, life
<1>1. CASE PsTimer
  BY <1>1 DEF PsTimer
<1>2. CASE ThreadNext
  <2>1. CASE PsStart \/ PsMark \/ PsLook \/ IpsBusy \/ IpsFree \/ PsExit \/ ThreadStops
    BY <2>1 DEF PsStart, PsMark, PsLook, IpsBusy, IpsFree, PsExit, ThreadStops
  <2>2. CASE IpsLock
    BY <2>2 DEF IpsLock, EnterPwrlock
  <2>3. CASE IpsDown
    BY <2>3 DEF IpsDown, HalDeinit
  <2>4. CASE IpsDone
    BY <2>4 DEF IpsDone, ExitPwrlock
  <2> QED
    BY <1>2, <2>1, <2>2, <2>3, <2>4 DEF ThreadNext
<1>3. ASSUME NEW w \in Wakers, Wakeup(w) \/ WakerStep(w) PROVE CheckDue'
  <2> USE DEF Goto, Return
  <2>1. CASE Wakeup(w)
    BY <2>1 DEF Wakeup
  <2>2. CASE WakePs(w) \/ WakePsTimeout(w) \/ WakeSus(w) \/ WakeSusTimeout(w)
    BY <2>2 DEF WakePs, WakePsTimeout, WakeSus, WakeSusTimeout
  <2>3. CASE WakeLook(w) \/ WakeFin(w) \/ Proceed(w)
    BY <2>3 DEF WakeLook, WakeFin, Proceed
  <2>4. CASE LeaveLock(w)
    BY <2>4 DEF LeaveLock, EnterPwrlock, ResetDrvSw
  <2>5. CASE LeaveRfOn(w)
    BY <2>5 DEF LeaveRfOn
  <2>6. CASE LeaveOk(w) \/ LeaveFail(w)
    BY <2>6 DEF LeaveOk, LeaveFail, LeaveEnd, ExitPwrlock
  <2> QED
    BY <1>3, <2>1, <2>2, <2>3, <2>4, <2>5, <2>6 DEF WakerStep
<1>4. ASSUME NEW m \in {"normal", "level2"}, SetIps(m) PROVE CheckDue'
  BY <1>4 DEF SetIps
<1>5. CASE DenyExpires \/ FwChanges
  BY <1>5 DEF DenyExpires, FwChanges
<1>6. CASE SuspendStart \/ SuspendSkip \/ SystemNext
  <2>1. CASE SuspendStart \/ SuspendSkip \/ SuspendStop \/ SuspendWait \/ Resume \/ ResumeFail
    BY <2>1 DEF SuspendStart, SuspendSkip, SuspendStop, SuspendWait, Resume, ResumeFail
  <2>2. CASE SuspendLock \/ ResumeLock
    BY <2>2 DEF SuspendLock, ResumeLock, EnterPwrlock, ResetDrvSw
  <2>3. CASE SuspendOff \/ ResumeOpen
    BY <2>3 DEF SuspendOff, ResumeOpen, ExitPwrlock
  <2> QED
    BY <1>6, <2>1, <2>2, <2>3 DEF SystemNext
<1> QED
  BY <1>1, <1>2, <1>3, <1>4, <1>5, <1>6 DEF Next

LEMMA HeldNext ==
  ASSUME TypeOK, ~Signals, Mutex, Held, Running, Next
  PROVE  Held'
<1> USE TypeParts DEF Held, Running, Mutex, Places, MaxPs, HoldsW, HoldsT, HoldsS, chip, life
<1>1. CASE PsTimer
  BY <1>1 DEF PsTimer
<1>2. CASE ThreadNext
  <2>1. CASE PsStart \/ PsMark \/ PsLook \/ IpsBusy \/ IpsFree \/ PsExit \/ ThreadStops
    BY <2>1 DEF PsStart, PsMark, PsLook, IpsBusy, IpsFree, PsExit, ThreadStops
  <2>2. CASE IpsLock
    BY <2>2 DEF IpsLock, EnterPwrlock
  <2>3. CASE IpsDown
    BY <2>3 DEF IpsDown, HalDeinit
  <2>4. CASE IpsDone
    BY <2>4 DEF IpsDone, ExitPwrlock
  <2> QED
    BY <1>2, <2>1, <2>2, <2>3, <2>4 DEF ThreadNext
<1>3. ASSUME NEW w \in Wakers, Wakeup(w) \/ WakerStep(w) PROVE Held'
  <2> USE DEF Goto, Return
  <2>1. CASE Wakeup(w)
    BY <2>1 DEF Wakeup
  <2>2. CASE WakePs(w) \/ WakePsTimeout(w) \/ WakeSus(w) \/ WakeSusTimeout(w)
    BY <2>2 DEF WakePs, WakePsTimeout, WakeSus, WakeSusTimeout
  <2>3. CASE WakeLook(w) \/ WakeFin(w) \/ Proceed(w)
    BY <2>3 DEF WakeLook, WakeFin, Proceed
  <2>4. CASE LeaveLock(w)
    BY <2>4 DEF LeaveLock, EnterPwrlock, ResetDrvSw
  <2>5. CASE LeaveRfOn(w)
    BY <2>5 DEF LeaveRfOn
  <2>6. CASE LeaveOk(w) \/ LeaveFail(w)
    BY <2>6 DEF LeaveOk, LeaveFail, LeaveEnd, ExitPwrlock
  <2> QED
    BY <1>3, <2>1, <2>2, <2>3, <2>4, <2>5, <2>6 DEF WakerStep
<1>4. ASSUME NEW m \in {"normal", "level2"}, SetIps(m) PROVE Held'
  BY <1>4 DEF SetIps
<1>5. CASE DenyExpires \/ FwChanges
  BY <1>5 DEF DenyExpires, FwChanges
<1>6. CASE SuspendStart \/ SuspendSkip \/ SystemNext
  <2>1. CASE SuspendStart \/ SuspendSkip \/ SuspendStop \/ SuspendWait \/ Resume \/ ResumeFail
    BY <2>1 DEF SuspendStart, SuspendSkip, SuspendStop, SuspendWait, Resume, ResumeFail
  <2>2. CASE SuspendLock \/ ResumeLock
    BY <2>2 DEF SuspendLock, ResumeLock, EnterPwrlock, ResetDrvSw
  <2>3. CASE SuspendOff \/ ResumeOpen
    BY <2>3 DEF SuspendOff, ResumeOpen, ExitPwrlock
  <2> QED
    BY <1>6, <2>1, <2>2, <2>3 DEF SystemNext
<1> QED
  BY <1>1, <1>2, <1>3, <1>4, <1>5, <1>6 DEF Next

LEMMA WokenNext ==
  ASSUME TypeOK, Running, ~Slow, Woken, Next
  PROVE  Woken'
<1> USE TypeParts DEF Woken, Running, Places, chip, life
<1>1. CASE PsTimer
  BY <1>1 DEF PsTimer
<1>2. CASE ThreadNext
  <2>1. CASE PsStart \/ PsMark \/ PsLook \/ IpsBusy \/ IpsFree \/ PsExit \/ ThreadStops
    BY <2>1 DEF PsStart, PsMark, PsLook, IpsBusy, IpsFree, PsExit, ThreadStops
  <2>2. CASE IpsLock
    BY <2>2 DEF IpsLock, EnterPwrlock
  <2>3. CASE IpsDown
    BY <2>3 DEF IpsDown, HalDeinit
  <2>4. CASE IpsDone
    BY <2>4 DEF IpsDone, ExitPwrlock
  <2> QED
    BY <1>2, <2>1, <2>2, <2>3, <2>4 DEF ThreadNext
<1>3. ASSUME NEW w \in Wakers, Wakeup(w) \/ WakerStep(w) PROVE Woken'
  <2> USE DEF Goto, Return
  <2>1. CASE Wakeup(w)
    BY <2>1 DEF Wakeup
  <2>2. CASE WakePs(w) \/ WakePsTimeout(w) \/ WakeSus(w) \/ WakeSusTimeout(w)
    BY <2>2 DEF WakePs, WakePsTimeout, WakeSus, WakeSusTimeout
  <2>3. CASE WakeLook(w) \/ WakeFin(w) \/ Proceed(w)
    BY <2>3 DEF WakeLook, WakeFin, Proceed
  <2>4. CASE LeaveLock(w)
    BY <2>4 DEF LeaveLock, EnterPwrlock, ResetDrvSw
  <2>5. CASE LeaveRfOn(w)
    BY <2>5 DEF LeaveRfOn
  <2>6. CASE LeaveOk(w) \/ LeaveFail(w)
    BY <2>6 DEF LeaveOk, LeaveFail, LeaveEnd, ExitPwrlock
  <2> QED
    BY <1>3, <2>1, <2>2, <2>3, <2>4, <2>5, <2>6 DEF WakerStep
<1>4. ASSUME NEW m \in {"normal", "level2"}, SetIps(m) PROVE Woken'
  BY <1>4 DEF SetIps
<1>5. CASE DenyExpires \/ FwChanges
  BY <1>5 DEF DenyExpires, FwChanges
<1>6. CASE SuspendStart \/ SuspendSkip \/ SystemNext
  <2>1. CASE SuspendStart \/ SuspendSkip \/ SuspendStop \/ SuspendWait \/ Resume \/ ResumeFail
    BY <2>1 DEF SuspendStart, SuspendSkip, SuspendStop, SuspendWait, Resume, ResumeFail
  <2>2. CASE SuspendLock \/ ResumeLock
    BY <2>2 DEF SuspendLock, ResumeLock, EnterPwrlock, ResetDrvSw
  <2>3. CASE SuspendOff \/ ResumeOpen
    BY <2>3 DEF SuspendOff, ResumeOpen, ExitPwrlock
  <2> QED
    BY <1>6, <2>1, <2>2, <2>3 DEF SystemNext
<1> QED
  BY <1>1, <1>2, <1>3, <1>4, <1>5, <1>6 DEF Next

-----------------------------------------------------------------------------
\* Types, and where system and thread are, whatever signals do.
LEMMA NextSafe == TypeOK /\ Running /\ [Next]_vars => (TypeOK /\ Running)'
<1> SUFFICES ASSUME TypeOK, Running, [Next]_vars PROVE TypeOK' /\ Running'
  OBVIOUS
<1>1. TypeOK'
  <2>1. Flags' /\ Places'
    BY FlagsNext, PlacesNext, TypeParts
  <2> QED
    BY <2>1 DEF Flags, Places, TypeOK
<1>2. CASE Next
  BY <1>1, <1>2, RunningNext
<1>3. CASE UNCHANGED vars
  BY <1>1, <1>3 DEF Running, vars, chip, life
<1> QED
  BY <1>2, <1>3

LEMMA NextInv == ASSUME ~Signals PROVE IInv /\ [Next]_vars => IInv'
<1> SUFFICES ASSUME IInv, [Next]_vars PROVE IInv'
  OBVIOUS
<1>1. TypeOK' /\ Running'
  BY NextSafe DEF IInv
<1>2. CASE Next
  <2>1. Mutex'
    BY <1>2, MutexNext DEF IInv
  <2>2. Switching' /\ Firmware'
    BY <1>2, SwitchingNext, FirmwareNext DEF IInv
  <2>3. CheckDue' /\ Held'
    BY <1>2, CheckDueNext, HeldNext DEF IInv
  <2> QED
    BY <1>1, <2>1, <2>2, <2>3 DEF IInv
<1>3. CASE UNCHANGED vars
  <2>1. UNCHANGED <<lock, rf, change, hw, loaded, keepfw, timer, pscmd, thread, pc, sys, stopped>>
    BY <1>3 DEF vars, chip, life
  <2> QED
    BY <1>1, <2>1 DEF IInv, Mutex, Held, HoldsW, HoldsT, HoldsS, Switching, Firmware, CheckDue
<1> QED
  BY <1>2, <1>3

LEMMA PwrInvariant == ASSUME ~Signals PROVE Spec => []IInv
  BY InitInv, NextInv, PTL DEF Spec

\* A set without two members has at most one.
LEMMA AtMostOne ==
  ASSUME NEW S, \A x, y \in S : x = y
  PROVE  Cardinality(S) \in Nat /\ Cardinality(S) <= 1 /\ (S = {} => Cardinality(S) = 0)
<1>1. CASE S = {}
  BY <1>1, FS_EmptySet
<1>2. CASE S # {}
  <2>1. PICK x \in S : TRUE
    BY <1>2
  <2>2. S = {x}
    BY <2>1
  <2> QED
    BY <1>2, <2>2, FS_Singleton
<1> QED
  BY <1>1, <1>2

LEMMA MutexSwitcher == Mutex => OneSwitcher
<1> SUFFICES ASSUME Mutex PROVE OneSwitcher
  OBVIOUS
<1>1. \A x \in Holders : \/ x \in Wakers /\ HoldsW(x) /\ ~HoldsT /\ ~HoldsS
                         \/ x = "thread" /\ HoldsT /\ ~HoldsS
                         \/ x = "system" /\ HoldsS
  BY DEF Holders, Mutex, HoldsW, HoldsT, HoldsS
<1>2. \A x, y \in Holders : x = y
  BY <1>1 DEF Mutex
<1>3. lock = 1 => Holders = {}
  BY <1>1 DEF Mutex
<1> QED
  BY <1>2, <1>3, AtMostOne DEF OneSwitcher, Mutex

\* Nobody is switching exactly while the semaphore of a running interface is
\* free.
LEMMA FreeIsHeld == Mutex /\ Held /\ Holders = {} /\ sys = "up" => lock = 1
<1>1. (\E w \in Wakers : HoldsW(w)) \/ HoldsT => Holders # {}
  BY DEF Holders, HoldsW, HoldsT
<1> QED
  BY <1>1 DEF Mutex, Held

(***************************************************************************)
(* The semaphore of ips_enter, ips_leave, rtw_suspend and                  *)
(* rtw_resume_process lets one of them switch the chip at a time, for any  *)
(* number of callers of rtw_pwr_wakeup, suspends and failed resumes, as    *)
(* long as no signal ends a wait in _enter_pwrlock, which goes on without  *)
(* the semaphore (MCPwrCtrlSignal.cfg gives the behaviour).                *)
(***************************************************************************)
THEOREM PwrOneSwitcher == ASSUME ~Signals PROVE Spec => [](TypeOK /\ OneSwitcher)
<1>1. IInv => TypeOK /\ OneSwitcher
  BY MutexSwitcher DEF IInv
<1> QED
  BY <1>1, PwrInvariant, PTL

(***************************************************************************)
(* Whoever switched last, ips_enter, ips_leave (also one that failed) or a *)
(* resume: when nobody switches, rf_pwrstate tells whether the chip of a   *)
(* running interface is initialised, unless a signal ended a wait.         *)
(***************************************************************************)
THEOREM PwrStateIsTrue == ASSUME ~Signals PROVE Spec => []PowerStateIsTrue
<1>1. IInv => PowerStateIsTrue
  BY FreeIsHeld DEF IInv, Switching, PowerStateIsTrue
<1> QED
  BY <1>1, PwrInvariant, PTL

(***************************************************************************)
(* The power state of a chip that is on is looked at again, although       *)
(* pwr_state_check_handler does not set its timer and rtw_cmd_filter may   *)
(* refuse its command, unless a signal ended a wait.                       *)
(***************************************************************************)
THEOREM PwrCheckAlive == ASSUME ~Signals PROVE Spec => []PowerCheckAlive
<1>1. IInv => PowerCheckAlive
  BY FreeIsHeld DEF IInv, CheckDue, PowerCheckAlive
<1> QED
  BY <1>1, PwrInvariant, PTL

(***************************************************************************)
(* bkeepfwalive never makes rtl8188eu_hal_init skip a download that the    *)
(* chip needs: an initialised chip of a running interface holds firmware,  *)
(* also after IPS level 2 met a suspend, unless a signal ended a wait.     *)
(***************************************************************************)
THEOREM PwrFirmware == ASSUME ~Signals PROVE Spec => []FirmwareUnderChip
<1>1. IInv => FirmwareUnderChip
  BY DEF IInv, Firmware, FirmwareUnderChip
<1> QED
  BY <1>1, PwrInvariant, PTL

(***************************************************************************)
(* rtw_pwr_wakeup and rtw_ps_processor decide without a lock, one writes   *)
(* ips_deny_time and reads ps_processing, the other the reverse.  As long  *)
(* as no wait outlasts the 2 s of ips_deny_time, a wakeup that succeeded   *)
(* keeps the RF on, and no scan, join or link loses it, for any number of  *)
(* wakers, also across suspends and whatever signals do to the semaphore.  *)
(***************************************************************************)
THEOREM PwrWakeupIsKept == ASSUME ~Slow PROVE Spec => [](WakeupIsKept /\ NoIpsWhileBusy)
<1>1. TypeOK /\ Running /\ Woken /\ [Next]_vars => Woken'
  <2> SUFFICES ASSUME TypeOK, Running, Woken, [Next]_vars PROVE Woken'
    OBVIOUS
  <2>1. CASE Next
    BY <2>1, WokenNext
  <2>2. CASE UNCHANGED vars
    BY <2>2 DEF vars, chip, Woken
  <2> QED
    BY <2>1, <2>2
<1>2. Woken => WakeupIsKept /\ NoIpsWhileBusy
  BY DEF Woken, WakeupIsKept, NoIpsWhileBusy
<1>3. Init => TypeOK /\ Running /\ Woken
  BY InitInv DEF IInv
<1> QED
  BY <1>1, <1>2, <1>3, NextSafe, PTL DEF Spec
=============================================================================
