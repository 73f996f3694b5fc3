------------------------------ MODULE PwrCtrl ------------------------------
(***************************************************************************)
(* Inactive power save (core/rtw_pwrctrl.c) and its meeting with system    *)
(* suspend and resume (os_dep/usb_intf.c, os_dep/os_intfs.c).              *)
(*                                                                         *)
(* A timer queues a command for rtw_ps_processor, which the command thread *)
(* runs: when the interface has nothing to do it powers the chip down.     *)
(* Any caller of rtw_pwr_wakeup (an ioctl, P2P) brings it back.  The two   *)
(* sides share no lock while they decide: the thread marks ps_processing   *)
(* and reads ips_deny_time, the caller writes ips_deny_time and reads      *)
(* ps_processing.  The switch itself is under the semaphore `lock'.        *)
(* rtw_suspend holds that semaphore while it waits for the thread to end.  *)
(*                                                                         *)
(* Time: ips_deny_time is the flag deny, raised for 2 s by a wakeup and    *)
(* lowered by DenyExpires.  Unless Slow, no wakeup takes as long as that;  *)
(* with Slow the waits may outlast it and may run into their 3 s limit.    *)
(***************************************************************************)
EXTENDS Naturals, FiniteSets

CONSTANTS
  Wakers,       \* contexts that call rtw_pwr_wakeup
  Slow,         \* whether a wait may last longer than 2 s
  OpenFails,    \* whether the open of a resume may fail
  Signals,      \* whether a signal may end a wait for the semaphore
  Freezer,      \* whether the kernel freezes processes before a suspend
  MaxSuspend    \* bound: suspends

ASSUME PwrCtrlAssumption ==
  /\ IsFiniteSet(Wakers)
  /\ Slow \in BOOLEAN /\ OpenFails \in BOOLEAN /\ Freezer \in BOOLEAN
  /\ Signals \in BOOLEAN
  /\ MaxSuspend \in Nat

VARIABLES
  lock,        \* pwrctrl_priv.lock, a semaphore
  rf,          \* rf_pwrstate
  change,      \* change_rfpwrstate
  hw,          \* hw_init_completed
  loaded,      \* whether the chip holds its firmware
  keepfw,      \* bkeepfwalive
  bips,        \* bips_processing
  ps,          \* ps_processing
  deny,        \* whether ips_deny_time lies ahead
  req,         \* ips_mode_req
  timer,       \* pwr_state_check_timer pending
  pscmd,       \* power saving commands queued
  thread,      \* where the command thread is in rtw_ps_processor
  pc,          \* where each waker is in rtw_pwr_wakeup
  sys,         \* where rtw_suspend and rtw_resume are
  stopped,     \* bDriverStopped
  bup,         \* bup
  insusp,      \* bInSuspend
  fw,          \* fw_state, as far as power save looks at it
  roam,        \* to_roaming
  suspends     \* suspends so far

chip == <<rf, change, hw, loaded, keepfw, bips>>
life == <<stopped, bup, insusp, roam, suspends>>
vars == <<lock, chip, ps, deny, req, timer, pscmd, thread, pc, sys, life, fw>>

MaxPs == 2    \* bound: power saving commands queued at once

\* "look": fw_state and rf_pwrstate; "enter": the transmit buffers; "wait":
\* in _enter_pwrlock; "locked" and "down": the lock is held; "tail": the exit.
ThreadPc == {"gone", "idle", "mark", "look", "enter", "wait", "locked", "down", "tail"}

\* "ps" and "sus" are the two waits; "lock" waits for the semaphore, "leave"
\* and "rfon" hold it; "fin" is the final test; "ok" has returned _SUCCESS.
WakerPc == {"out", "ps", "sus", "look", "lock", "leave", "rfon", "fin", "ok"}

\* "lock", "hold", "wait", "off": rtw_suspend; "down": suspended; "rlock",
\* "open": rtw_resume_process; "dead": a resume that failed.
SysPc == {"up", "lock", "hold", "wait", "off", "down", "rlock", "open", "dead"}

TypeOK ==
  /\ lock \in Nat
  /\ rf \in {"on", "off"} /\ change \in {"on", "off"}
  /\ hw \in BOOLEAN /\ loaded \in BOOLEAN /\ keepfw \in BOOLEAN
  /\ bips \in BOOLEAN /\ ps \in BOOLEAN /\ deny \in BOOLEAN /\ timer \in BOOLEAN
  /\ req \in {"none", "normal", "level2"}
  /\ pscmd \in Nat
  /\ thread \in ThreadPc
  /\ pc \in [Wakers -> WakerPc]
  /\ sys \in SysPc
  /\ stopped \in BOOLEAN /\ bup \in BOOLEAN /\ insusp \in BOOLEAN /\ roam \in BOOLEAN
  /\ fw \in {"idle", "busy", "linked"}
  /\ suspends \in Nat

\* rtw_init_pwrctrl_priv, and the interface opened: the chip is on and the
\* first check of the power state is due.
Init ==
  /\ lock = 1
  /\ rf = "on" /\ change = "on" /\ hw = TRUE /\ loaded = TRUE /\ keepfw = FALSE
  /\ bips = FALSE /\ ps = FALSE /\ deny = FALSE
  /\ req \in {"none", "normal", "level2"}
  /\ timer = TRUE /\ pscmd = 0 /\ thread = "idle"
  /\ pc = [w \in Wakers |-> "out"]
  /\ sys = "up"
  /\ stopped = FALSE /\ bup = TRUE /\ insusp = FALSE /\ roam = FALSE
  /\ fw = "idle" /\ suspends = 0

-----------------------------------------------------------------------------
(* The semaphore.                                                          *)

\* _enter_pwrlock: down_interruptible sleeps on a semaphore that is taken.  A
\* signal ends the sleep; the result is not looked at and the caller goes on.
EnterPwrlock ==
  \/ lock > 0 /\ lock' = lock - 1
  \/ Signals /\ lock = 0 /\ UNCHANGED lock

ExitPwrlock == lock' = lock + 1

(* rtw_hal_deinit: with the firmware kept alive only the RF is closed, and *)
(* a chip that is already down is left alone.                              *)
HalDeinit ==
  /\ hw' = FALSE
  /\ loaded' = (loaded /\ (keepfw' \/ ~hw))

-----------------------------------------------------------------------------
(* The command thread: rtw_ps_processor.                                   *)

\* pwr_state_check_handler: rtw_ps_cmd, refused by rtw_cmd_filter when the
\* chip is down or the thread gone.  The timer is not set again here.
PsTimer ==
  /\ timer
  /\ timer' = FALSE
  /\ pscmd' = IF hw /\ thread # "gone" /\ pscmd < MaxPs THEN pscmd + 1 ELSE pscmd
  /\ UNCHANGED <<lock, chip, ps, deny, req, thread, pc, sys, life, fw>>

\* Mutant: rtw_ps_processor without ps_processing.
PsStartUnmarked ==
  /\ thread = "idle" /\ pscmd > 0 /\ ~stopped
  /\ pscmd' = pscmd - 1
  /\ thread' = IF hw THEN "mark" ELSE thread
  /\ UNCHANGED <<lock, chip, ps, deny, req, timer, pc, sys, life, fw>>

\* rtw_cmd_thread takes the command, and drops it when the chip has gone down
\* since it was queued.
PsStart ==
  /\ thread = "idle" /\ pscmd > 0 /\ ~stopped
  /\ pscmd' = pscmd - 1
  /\ IF hw THEN ps' = TRUE /\ thread' = "mark" ELSE UNCHANGED <<ps, thread>>
  /\ UNCHANGED <<lock, chip, deny, req, timer, pc, sys, life, fw>>

\* The tests up to ips_deny_time.
PsMark ==
  /\ thread = "mark"
  /\ thread' = IF bips \/ req = "none" \/ deny THEN "tail" ELSE "look"
  /\ UNCHANGED <<lock, chip, ps, deny, req, timer, pscmd, pc, sys, life, fw>>

\* rtw_pwr_unassociated_idle, and the state of the RF.
PsLook ==
  /\ thread = "look"
  /\ IF fw = "idle" /\ rf = "on"
     THEN thread' = "enter" /\ change' = "off"
     ELSE thread' = "tail" /\ UNCHANGED change
  /\ UNCHANGED <<lock, rf, hw, loaded, keepfw, bips, ps, deny, req, timer, pscmd,
                 pc, sys, life, fw>>

\* ips_enter: transmit buffers are still out, or all are back.
IpsBusy ==
  /\ thread = "enter"
  /\ thread' = "tail"
  /\ UNCHANGED <<lock, chip, ps, deny, req, timer, pscmd, pc, sys, life, fw>>

IpsFree ==
  /\ thread = "enter"
  /\ thread' = "wait"
  /\ UNCHANGED <<lock, chip, ps, deny, req, timer, pscmd, pc, sys, life, fw>>

\* ips_enter: the lock.
IpsLock ==
  /\ thread = "wait"
  /\ EnterPwrlock
  /\ bips' = TRUE
  /\ thread' = "locked"
  /\ UNCHANGED <<rf, change, hw, loaded, keepfw, ps, deny, req, timer, pscmd, pc,
                 sys, life, fw>>

\* ips_enter: rtw_ips_pwr_down.
IpsDown ==
  /\ thread = "locked"
  /\ IF change = "off"
     THEN keepfw' = (keepfw \/ req = "level2") /\ HalDeinit
     ELSE UNCHANGED <<keepfw, hw, loaded>>
  /\ thread' = "down"
  /\ UNCHANGED <<lock, rf, change, bips, ps, deny, req, timer, pscmd, pc, sys, life, fw>>

\* Mutant: ips_enter that forgets rf_pwrstate.
IpsDoneStale ==
  /\ thread = "down"
  /\ bips' = FALSE
  /\ ExitPwrlock
  /\ thread' = "tail"
  /\ UNCHANGED <<rf, change, hw, loaded, keepfw, ps, deny, req, timer, pscmd, pc, sys,
                 life, fw>>

\* ips_enter: the end.
IpsDone ==
  /\ thread = "down"
  /\ rf' = IF change = "off" THEN "off" ELSE rf
  /\ bips' = FALSE
  /\ ExitPwrlock
  /\ thread' = "tail"
  /\ UNCHANGED <<change, hw, loaded, keepfw, ps, deny, req, timer, pscmd, pc, sys, life, fw>>

\* rtw_ps_processor, the exit.
PsExit ==
  /\ thread = "tail"
  /\ timer' = TRUE
  /\ ps' = FALSE
  /\ thread' = "idle"
  /\ UNCHANGED <<lock, chip, deny, req, pscmd, pc, sys, life, fw>>

\* rtw_cmd_thread sees bDriverStopped between two commands and leaves; the
\* commands that wait are freed.
ThreadStops ==
  /\ thread = "idle" /\ stopped
  /\ thread' = "gone"
  /\ pscmd' = 0
  /\ UNCHANGED <<lock, chip, ps, deny, req, timer, pc, sys, life, fw>>

-----------------------------------------------------------------------------
(* _rtw_pwr_wakeup.                                                        *)

Goto(w, p) == pc' = [pc EXCEPT ![w] = p]

\* The call; rtw_pm_set_ips with IPS_NONE requests that mode first.
Wakeup(w) ==
  /\ pc[w] = "out"
  /\ Freezer => sys \in {"up", "dead"}
  /\ req' \in {req, "none"}
  /\ deny' = TRUE
  /\ Goto(w, "ps")
  /\ UNCHANGED <<lock, chip, ps, timer, pscmd, thread, sys, life, fw>>

\* rtw_pm_set_ips with one of the saving modes.
SetIps(m) ==
  /\ req # m
  /\ Freezer => sys \in {"up", "dead"}
  /\ req' = m
  /\ UNCHANGED <<lock, chip, ps, deny, timer, pscmd, thread, pc, sys, life, fw>>

\* The wait for ps_processing.
WakePs(w) ==
  /\ pc[w] = "ps" /\ ~ps
  /\ Goto(w, "sus")
  /\ UNCHANGED <<lock, chip, ps, deny, req, timer, pscmd, thread, sys, life, fw>>

\* The wait for ps_processing reaches its 3000 ms.
WakePsTimeout(w) ==
  /\ Slow
  /\ pc[w] = "ps" /\ ps
  /\ Goto(w, "sus")
  /\ UNCHANGED <<lock, chip, ps, deny, req, timer, pscmd, thread, sys, life, fw>>

\* The wait for bInSuspend.
WakeSus(w) ==
  /\ pc[w] = "sus" /\ ~insusp
  /\ Goto(w, "look")
  /\ UNCHANGED <<lock, chip, ps, deny, req, timer, pscmd, thread, sys, life, fw>>

\* The wait for bInSuspend reaches its 3000 ms: the wakeup goes on.
WakeSusTimeout(w) ==
  /\ Slow
  /\ pc[w] = "sus" /\ insusp
  /\ Goto(w, "look")
  /\ UNCHANGED <<lock, chip, ps, deny, req, timer, pscmd, thread, sys, life, fw>>

\* The way out sets ips_deny_time once more.
Return(w, p) == deny' = TRUE /\ Goto(w, p)

\* Linked: nothing to do.  Otherwise ips_leave when the RF is off.
WakeLook(w) ==
  /\ pc[w] = "look"
  /\ \/ fw = "linked" /\ Return(w, "ok")
     \/ fw # "linked" /\ rf = "off" /\ Goto(w, "lock") /\ UNCHANGED deny
     \/ fw # "linked" /\ rf = "on" /\ Goto(w, "fin") /\ UNCHANGED deny
  /\ UNCHANGED <<lock, chip, ps, req, timer, pscmd, thread, sys, life, fw>>

\* rtw_reset_drv_sw clears the survey and linking bits.
ResetDrvSw == fw' = IF fw = "busy" THEN "idle" ELSE fw

\* ips_leave: under the lock the state is read again; rtw_ips_pwr_up starts.
LeaveLock(w) ==
  /\ pc[w] = "lock"
  /\ lock > 0 \/ Signals
  /\ IF rf = "off" /\ ~bips
     THEN /\ EnterPwrlock
          /\ bips' = TRUE /\ change' = "on" /\ hw' = FALSE
          /\ stopped' = FALSE
          /\ ResetDrvSw
          /\ Goto(w, "leave")
     ELSE /\ lock' = IF lock > 0 THEN lock ELSE lock + 1
          /\ Goto(w, "fin")
          /\ UNCHANGED <<bips, change, hw, stopped, fw>>
  /\ UNCHANGED <<rf, loaded, keepfw, ps, deny, req, timer, pscmd, thread, sys,
                 bup, insusp, roam, suspends>>

\* rtl8188eu_hal_init, the full one, marks the RF on before it has finished;
\* no register of a suspended chip can be reached.
LeaveRfOn(w) ==
  /\ pc[w] = "leave" /\ ~keepfw
  /\ sys # "down"
  /\ rf' = "on" /\ loaded' = TRUE
  /\ Goto(w, "rfon")
  /\ UNCHANGED <<lock, change, hw, keepfw, bips, ps, deny, req, timer, pscmd, thread,
                 sys, life, fw>>

\* Mutant: An error path of ips_leave that returns with the lock.
LeaveEndLocked == bips' = FALSE /\ keepfw' = FALSE /\ UNCHANGED lock

\* The end of ips_leave.
LeaveEnd ==
  /\ bips' = FALSE /\ keepfw' = FALSE
  /\ ExitPwrlock

\* Mutant: ips_netdrv_open without rtw_set_pwr_state_check_timer.
LeaveOkUntimed(w) ==
  /\ pc[w] = "rfon" \/ (pc[w] = "leave" /\ keepfw)
  /\ rf' = "on" /\ hw' = TRUE
  /\ LeaveEnd
  /\ \/ Goto(w, "fin") /\ UNCHANGED deny
     \/ Return(w, "out")
  /\ UNCHANGED <<change, loaded, ps, req, timer, pscmd, thread, sys, life, fw>>

\* ips_leave succeeds; with the firmware kept alive rtl8188eu_hal_init only
\* opens the RF.  A WEP key whose command cannot be queued makes it a failure.
LeaveOk(w) ==
  /\ pc[w] = "rfon" \/ (pc[w] = "leave" /\ keepfw)
  /\ rf' = "on" /\ hw' = TRUE
  /\ timer' = TRUE
  /\ LeaveEnd
  /\ \/ Goto(w, "fin") /\ UNCHANGED deny
     \/ Return(w, "out")
  /\ UNCHANGED <<change, loaded, ps, req, pscmd, thread, sys, life, fw>>

\* rtw_hal_init fails: power on or firmware download.
LeaveFail(w) ==
  /\ pc[w] = "leave" /\ ~keepfw
  /\ LeaveEnd
  /\ Return(w, "out")
  /\ UNCHANGED <<rf, change, hw, loaded, ps, req, timer, pscmd, thread, sys, life, fw>>

\* The final test of bDriverStopped, bup and hw_init_completed.
WakeFin(w) ==
  /\ pc[w] = "fin"
  /\ Return(w, IF stopped \/ ~bup \/ ~hw THEN "out" ELSE "ok")
  /\ UNCHANGED <<lock, chip, ps, req, timer, pscmd, thread, sys, life, fw>>

\* The caller goes on: it starts a scan or a join, or only sets a parameter.
Proceed(w) ==
  /\ pc[w] = "ok"
  /\ \/ fw = "idle" /\ ~stopped /\ hw /\ fw' = "busy"
     \/ UNCHANGED fw
  /\ Goto(w, "out")
  /\ UNCHANGED <<lock, chip, ps, deny, req, timer, pscmd, thread, sys, life>>

-----------------------------------------------------------------------------
(* The environment.                                                        *)

\* 2 s have passed since ips_deny_time was last set.
DenyExpires ==
  /\ deny
  /\ \A w \in Wakers : pc[w] \in (IF Slow THEN {"out", "ps", "sus"} ELSE {"out"})
  /\ deny' = FALSE
  /\ UNCHANGED <<lock, chip, ps, req, timer, pscmd, thread, pc, sys, life, fw>>

\* A scan or a join ends; a link is lost.
FwChanges ==
  /\ ~stopped
  /\ \/ fw = "busy" /\ fw' \in {"idle", "linked"}
     \/ fw = "linked" /\ fw' = "idle"
  /\ UNCHANGED <<lock, chip, ps, deny, req, timer, pscmd, thread, pc, sys, life>>

-----------------------------------------------------------------------------
(* rtw_suspend and rtw_resume_process.                                     *)

SuspendStart ==
  /\ sys = "up" /\ suspends < MaxSuspend
  /\ bup /\ ~stopped
  /\ Freezer => \A w \in Wakers : pc[w] = "out"
  /\ suspends' = suspends + 1
  /\ insusp' = TRUE
  /\ timer' = FALSE                \* rtw_cancel_all_timer
  /\ sys' = "lock"
  /\ UNCHANGED <<lock, chip, ps, deny, req, pscmd, thread, pc, stopped, bup, roam, fw>>

\* Under the lock: disconnect, and remember to come back.
SuspendLock ==
  /\ sys = "lock"
  /\ EnterPwrlock
  /\ roam' = (fw = "linked")
  /\ fw' \in {"idle"} \cup ({"busy"} \cap {fw})
  /\ sys' = "hold"
  /\ UNCHANGED <<chip, ps, deny, req, timer, pscmd, thread, pc, stopped, bup,
                 insusp, suspends>>

\* rtw_dev_unload: bDriverStopped, the URBs, and the wait for the thread.
SuspendStop ==
  /\ sys = "hold"
  /\ stopped' = TRUE
  /\ sys' = "wait"
  /\ UNCHANGED <<lock, chip, ps, deny, req, timer, pscmd, thread, pc, bup, insusp,
                 roam, suspends, fw>>

SuspendWait ==
  /\ sys = "wait" /\ thread = "gone"
  /\ sys' = "off"
  /\ UNCHANGED <<lock, chip, ps, deny, req, timer, pscmd, thread, pc, life, fw>>

\* rtw_hal_deinit and the end; then the bus takes the chip's power away.
SuspendOff ==
  /\ sys = "off"
  /\ hw' = FALSE /\ loaded' = FALSE
  /\ bup' = FALSE
  /\ ExitPwrlock
  /\ sys' = "down"
  /\ UNCHANGED <<rf, change, keepfw, bips, ps, deny, req, timer, pscmd, thread, pc,
                 stopped, insusp, roam, suspends, fw>>

Resume ==
  /\ sys = "down"
  /\ sys' = "rlock"
  /\ UNCHANGED <<lock, chip, ps, deny, req, timer, pscmd, thread, pc, life, fw>>

\* rtw_reset_drv_sw, and the start of _netdev_open.
ResumeLock ==
  /\ sys = "rlock"
  /\ EnterPwrlock
  /\ ResetDrvSw
  /\ keepfw' = FALSE
  /\ stopped' = FALSE /\ hw' = FALSE
  /\ sys' = "open"
  /\ UNCHANGED <<rf, change, loaded, bips, ps, deny, req, timer, pscmd, thread, pc,
                 bup, insusp, roam, suspends>>

\* _netdev_open succeeds, the thread runs again; rtw_roaming joins again,
\* within the 2 s of the timer that was just set.
ResumeOpen ==
  /\ sys = "open"
  /\ hw' = TRUE /\ bup' = TRUE /\ bips' = FALSE
  /\ IF keepfw THEN UNCHANGED <<rf, loaded>> ELSE rf' = "on" /\ loaded' = TRUE
  /\ thread' = "idle" /\ timer' = TRUE
  /\ fw' = IF roam /\ fw = "idle" THEN "busy" ELSE fw
  /\ roam' = FALSE
  /\ ExitPwrlock
  /\ insusp' = FALSE
  /\ sys' = "up"
  /\ UNCHANGED <<change, keepfw, ps, deny, req, pscmd, pc, stopped, suspends>>

\* The open fails, in rtw_hal_init or after it: the exit label leaves the lock
\* taken.
ResumeFail ==
  /\ OpenFails
  /\ sys = "open"
  /\ \/ UNCHANGED <<rf, hw, loaded>>
     \/ rf' = "on" /\ hw' = TRUE /\ loaded' = TRUE
  /\ bup' = FALSE
  /\ insusp' = FALSE
  /\ sys' = "dead"
  /\ UNCHANGED <<lock, change, keepfw, bips, ps, deny, req, timer, pscmd, thread, pc,
                 stopped, roam, suspends, fw>>

\* rtw_suspend of an interface that is not up returns at once.
SuspendSkip ==
  /\ sys = "dead" /\ suspends < MaxSuspend
  /\ ~bup \/ stopped
  /\ Freezer => \A w \in Wakers : pc[w] = "out"
  /\ suspends' = suspends + 1
  /\ sys' = "down"
  /\ UNCHANGED <<lock, chip, ps, deny, req, timer, pscmd, thread, pc, stopped, bup,
                 insusp, roam, fw>>

-----------------------------------------------------------------------------
ThreadNext ==
  \/ PsStart \/ PsMark \/ PsLook \/ IpsBusy \/ IpsFree \/ IpsLock \/ IpsDown \/ IpsDone
  \/ PsExit \/ ThreadStops

WakerStep(w) ==
  \/ WakePs(w) \/ WakePsTimeout(w) \/ WakeSus(w) \/ WakeSusTimeout(w)
  \/ WakeLook(w)
  \/ LeaveLock(w) \/ LeaveRfOn(w) \/ LeaveOk(w) \/ LeaveFail(w) \/ WakeFin(w)
  \/ Proceed(w)

SystemNext ==
  \/ SuspendLock \/ SuspendStop \/ SuspendWait \/ SuspendOff
  \/ Resume \/ ResumeLock \/ ResumeOpen \/ ResumeFail

Next ==
  \/ PsTimer
  \/ ThreadNext
  \/ \E w \in Wakers : Wakeup(w) \/ WakerStep(w)
  \/ \E m \in {"normal", "level2"} : SetIps(m)
  \/ DenyExpires \/ FwChanges
  \/ SuspendStart \/ SuspendSkip \/ SystemNext

Spec == Init /\ [][Next]_vars

(* The semaphore hands itself to its waiters in their order, and the       *)
(* scheduler serves every context that is not asleep on it: nobody is owed *)
(* a signal that would end the sleep.  Transmit buffers do not stay out    *)
(* for ever: every bulk URB completes.  A waker looks at ps_processing     *)
(* every 10 ms: unless it times out it finds it clear.  Nothing forces a   *)
(* scan, a wakeup or a suspend to happen.                                  *)
Fairness ==
  /\ WF_vars(PsTimer) /\ WF_vars(DenyExpires)
  /\ WF_vars((thread = "wait" => lock > 0) /\ ThreadNext)
  /\ SF_vars(IpsFree) /\ SF_vars(lock > 0 /\ IpsLock)
  /\ \A w \in Wakers :
       /\ WF_vars((pc[w] = "lock" => lock > 0) /\ WakerStep(w))
       /\ SF_vars(lock > 0 /\ LeaveLock(w)) /\ SF_vars(WakePs(w))
  /\ WF_vars((sys \in {"lock", "rlock"} => lock > 0) /\ SystemNext)
  /\ SF_vars(lock > 0 /\ SuspendLock) /\ SF_vars(lock > 0 /\ ResumeLock)

FairSpec == Spec /\ Fairness

-----------------------------------------------------------------------------
(* Properties.                                                             *)

\* Those that hold the semaphore.
Holders ==
  {w \in Wakers : pc[w] \in {"leave", "rfon"}}
  \cup {"thread" : x \in {thread} \cap {"locked", "down"}}
  \cup {"system" : x \in {sys} \cap {"hold", "wait", "off", "open"}}

(* ips_enter, ips_leave, rtw_suspend and rtw_resume_process: one context   *)
(* at a time switches the chip, and none while the semaphore is free, also *)
(* after a resume that failed and kept it; unless a signal ended a wait.   *)
OneSwitcher == Cardinality(Holders) + lock <= 1

(* rtw_pwr_wakeup and rtw_ps_processor: a wakeup that returned _SUCCESS    *)
(* has left the RF on, whatever the thread was about to do; only a suspend *)
(* takes it away.                                                          *)
WakeupIsKept == \A w \in Wakers : pc[w] = "ok" /\ ~stopped => rf = "on"

(* ips_enter: the chip is not powered down under a scan, a join or a link. *)
NoIpsWhileBusy == fw # "idle" /\ ~stopped => rf = "on"

(* bkeepfwalive: the initialised chip of a running interface holds its     *)
(* firmware, also when IPS level 2 and a suspend, which takes its power,   *)
(* came between.                                                           *)
FirmwareUnderChip == hw /\ sys = "up" => loaded

(* rf_pwrstate, the "cur power state" of include/rtw_pwrctrl.h:224, and    *)
(* hw_init_completed agree whenever nobody is switching.                   *)
PowerStateIsTrue == Holders = {} /\ sys = "up" => (hw <=> rf = "on")

(* pwr_state_check_timer: while the RF is on another look at the power     *)
(* state is always due, although the handler does not set its timer again  *)
(* and rtw_cmd_filter may refuse its command.                              *)
PowerCheckAlive ==
  sys = "up" /\ rf = "on" /\ Holders = {} =>
    timer \/ pscmd > 0 \/ thread \notin {"idle", "gone"}

(* rtw_pwr_wakeup "Return _SUCCESS or _FAIL": every call returns.          *)
WakeupReturns == \A w \in Wakers : pc[w] # "out" ~> pc[w] \in {"out", "ok"}

(* rtw_suspend: rtw_stop_drv_threads terminates the thread, so a suspend   *)
(* that has begun ends.                                                    *)
SuspendReturns == sys = "lock" ~> sys = "down"

(* rtw_ps_processor: an interface left alone in a saving mode goes to      *)
(* sleep.                                                                  *)
IdleSleeps ==
  <>[](fw = "idle" /\ req # "none" /\ \A w \in Wakers : pc[w] = "out")
    => []<>(rf = "off")

=============================================================================
