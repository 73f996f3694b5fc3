# A TLA+ verification of the rtl8188eu driver

This directory models the concurrent core of the out-of-tree Linux driver for
Realtek RTL8188EU USB adapters (`core/`, `hal/`, `os_dep/`), checks the models
with TLC and proves properties of them with TLAPS. Paths are relative to the
repository root. `PROJECT.json` gives, for every definition, the source lines it
stands for, and lists runs, mutants, hazards, findings and theorems.

## 1. The system

The driver runs in the following contexts; almost everything hard in it comes from
their meeting.

| context | code | may be preempted by |
|---|---|---|
| user processes: ioctls, open, close | `os_dep/ioctl_linux.c`, `os_dep/os_intfs.c`, `core/rtw_ioctl_set.c` | everything below |
| the network stack, one sender per queue | `rtw_xmit_entry`, `core/rtw_xmit.c` | softirqs, other processors |
| the command thread | `rtw_cmd_thread`, `core/rtw_cmd.c`, the `*_hdl` of `core/rtw_mlme_ext.c` | softirqs |
| the receive tasklet | `rtl8188eu_recv_tasklet`, `core/rtw_recv.c`, `On*` of `core/rtw_mlme_ext.c` | other processors |
| the transmit tasklet | `rtl8188eu_xmit_tasklet` | other processors |
| timers: association, scan, link, survey, reordering, power check | `_rtw_*_timeout_handler`, `*_timer_hdl` | other processors |
| USB: probe, disconnect, suspend, resume, URB completions | `os_dep/usb_intf.c`, `hal/usb_ops_linux.c` | everything below it |

Work is handed over by the command queue (both commands and events of the MLME
travel in it), by lists with a spin lock each, by flags that are read without a
lock (`bDriverStopped`, `bSurpriseRemoved`, `hw_init_completed`, `ps_processing`,
`pmlmeinfo->state`), and by timers.

### Components

| component | state | operations | what makes it correct |
|---|---|---|---|
| RX reorder buffer (`core/rtw_recv.c`) | `recv_reorder_ctrl`: window start, pending queue, timer | receive, time out, ADDBA, DELBA, rejoin, free station | order, no frame refused or kept without a reason |
| command queue and thread (`core/rtw_cmd.c`) | queue, two semaphores, `cmdthd_running` | enqueue, run, start, stop | one owner per command, no lost wakeup, the thread ends |
| inactive power save, suspend, resume (`core/rtw_pwrctrl.c`, `os_dep/usb_intf.c`) | `rf_pwrstate`, `ips_deny_time`, `ps_processing`, semaphore | enter, leave, wake up, suspend, resume | chip on when promised, one switcher, everyone returns |
| AP power save (`core/rtw_xmit.c`, `rtw_recv.c`, `rtw_ap.c`) | `sleep_q`, its counters, `tim_bitmap`, beacon | doze, wake, trigger, PS-Poll, send, beacon | counted, announced, released, sent once |
| scan, join, roam (`core/rtw_mlme.c`, `rtw_mlme_ext.c`, `rtw_ioctl_set.c`) | `fw_state`, `to_join`, `to_roaming`, `pmlmeinfo->state`, scanned queue, four timers | set SSID/BSSID, scan, disassociate, survey, authenticate, associate, lose, roam | joins are timed, links are real, roaming ends |
| AP association (`core/rtw_mlme_ext.c`, `core/rtw_ap.c`) | `sta_aid`, `asoc_list`, `auth_list` | authenticate, associate, expire, kick | one AID per station, every station aged, lists that outlive the races |
| station table (`core/rtw_sta_mgt.c`) | free list, hash lists | allocate, find, free | a structure is free or in one list, and freed once |
| transmit path (`os_dep/xmit_linux.c`, `core/rtw_xmit.c`, `hal/rtl8188eu_xmit.c`) | frame and buffer pools, per-class queues, network queues | hand over, queue, send, aggregate, complete | pools conserved, order kept, a stopped queue is woken, a queued frame is served |
| receive path (`hal/usb_ops_linux.c`, `core/rtw_recv.c`) | `recv_buf`s, two `sk_buff` queues; frame pool, `defrag_q` | read, complete, parse, defragment, indicate | one owner per `sk_buff`, what is received is served |
| USB transfers, life cycle (`os_dep/usb_ops_linux.c`, `os_dep/usb_intf.c`) | URBs, `bReadPortCancel`, `bDriverStopped` | submit, complete, cancel, stop, start | a URB is submitted once, a stop ends |
| leisure power save | `pwr_mode`, `bLeisurePs` | enter, leave, special packets | awake when it must send |
| LEDs, P2P, TKIP countermeasures, bridge, EFUSE, H2C, power sequences, rate adaptation | small machines or pure functions | | see the plan |
| ODM, calibration, crypto, IEs, ioctl parsing, MP, tables, debug, hostapd | | | not modelled, see section 7 |

Hard behaviours, each listed at its line under "hazards": interleavings of the
contexts above (most of the list), locks taken in two orders or held over a
synchronous cancel, tests made before a lock is taken, timers that race the event
they guard, events that arrive after what they report was given up, failures half
way, and sequence numbers that wrap.

## 2. Modules

Every module has its state as variables, `Init`, one action per handler or per part
of a handler between two points where another context can come in, `Next`, `Spec`
and `FairSpec`. Operators keep the names of the C functions where one corresponds.
A definition whose comment starts with "Mutant:" is a plausible wrong version of the
definition below it and is used by nothing; it shows that a property can fail.
Integer widths are kept where the code depends on them (sequence numbers).

**RxReorder** - one (station, TID) reordering buffer. The tasklet's path through
`recv_indicatepkt_reorder` is cut at its lock, in its indication loop, and between
the unlock and the synchronous cancel of the timer. ADDBA, DELBA and rejoin write
`enable` and `indicate_seq` without the lock, as in the code, and
`rtw_free_stainfo` recycles the station while the tasklet holds it. A frame is the
originator's unwrapped number; the code sees `SeqNum(n)` only. The originator keeps
to its window and to what it may lose (external).

**CmdThread** - `rtw_enqueue_cmd` as three steps (filter, link, `up`), the thread's
loop, its start and stop with the shared semaphore `terminate_cmdthread_sema`,
signals, surprise removal. Inactive power save takes the chip down and up, and its way up
clears the stop flags (`ips_netdrv_open`); a command dropped by the thread's own filter
goes through its callback, which for a disconnect does not free the object (`lost`). `cut`
is a history variable: a signal has ended the opener's or the unloader's wait.

**PwrCtrl** - `rtw_ps_processor`, `ips_enter`, `ips_leave`, `_rtw_pwr_wakeup`,
`rtw_pm_set_ips`, `rtw_suspend`, `rtw_resume_process`. Time is the flag `deny`
(`ips_deny_time` lies ahead); the constant `Slow` says whether a wait may outlast it, and
`Signals` whether a signal may end the wait of `_enter_pwrlock`, whose caller then goes on
without the semaphore and raises it when it leaves.
The dead code for the hardware power pin is left out.

**ApSleep** - sleep queues of dozing stations and of multicast, U-APSD triggers,
PS-Polls, the TIM in the driver's and in the chip's beacon, the high queue.
`wakeup_sta_to_xmit` and `tx_beacon_hdl` are cut where they drop the lock around a
transmission. `tim_bitmap` and `sta_dz_bitmap` are read and written by three contexts with no
lock in common: with the constant `Races` an update may be lost to another.

**Mlme** - station mode from the ioctl to the association and back. The record `m`
is `struct mlme_priv` with the command queue; the C functions that change it are
operators from a record to a record, or to the set of possible results where they
choose or fail. The lock-free machine `pmlmeinfo->state` is `ext`. The tasklet's
test of that state and its consequence are two steps, and the report of a result is
three (lock, synchronous cancel, event). An SSID is the set of its BSSs. With `NoMem` any
allocation of a command or of an event may fail, and what it was to carry is then lost as in
the code (`Posted`, `Reported`). The chip is powered throughout: the callbacks of commands
that the thread's filter drops (`core/rtw_cmd.c:2053-2095`) belong to a chip that is down and
are not modelled. The test of privacy and mode in `rtw_is_desired_network` is left out: a
network that fails it counts as one that was not found.

**ApAssoc** - the stations of an access point. `sta` is the pool of `sta_info`,
whose structures are found by address and never returned to the kernel, so that a
stale pointer stays well defined. A handler of the receive tasklet is two steps, since
it carries a pointer from the lookup to the lists under no lock. `expire_timeout_chk`
is cut where it drops a list lock: between the unlinking of an authenticated station
and its freeing (`"gap"`), where its walk goes on at a saved neighbour (`"auth"`), and
while it waits for the answers to its null frames (`"alive"`). `FreeAllStainfo` frees what is
hashed whether or not `asoc_list` was flushed before. Once a list is damaged
(`~Sound`) nothing more is modelled; `SoundUnlessRaced` says when that can happen.

**XmitPath** - from `rtw_xmit_entry` to the end of the bulk transfer. A sender is five
places (stopping its queue, allocating, `pre_xmitframe` under `pxmitpriv->lock`, sending
itself, or done); the tasklet takes a buffer, a frame, those that fit with it, and
writes. Transfers may be denied, refused or fail, and some failures stop the driver.
Surveys and joins hold data frames back; their end, or a transfer's, is what schedules
the tasklet. `silent` is a history variable: a buffer came back, or a join ended,
without the tasklet being scheduled. The receiver may leave: `rtw_free_stainfo` empties its
pending queues under `pxmitpriv->lock` (`FreeStainfo`) and re-initialises them after the
unlock (`FreeReinit`), as the next allocation does again (`AllocStainfo`). What a sender
queued in between is `swept`; the list of its class is then `Torn`, and a tasklet that walks
it (`rtw_dequeue_xframe`) goes round for ever with the lock held (`"hang"`). That the interface
must be linked (`rtw_if_up`) is part of `XmitRefused`.

**TxQueue** - the abstract specification of the same: packets outside, inside, done or
refused, and queues stopped and woken, as the network layer sees a multiqueue device.
`XmitPath!ImplementsTxQueue` is the refinement: `fate <- Fate` computes a packet's fate
from who holds it in the detailed state, and each step of the pools, queues and tasklet
is a step of the contract or none. TLC checks it on the instance, TLAPS proves it.

**RecvPath** - the `sk_buff`s between the URBs, `rx_skb_queue`, the receive tasklet and
`free_recv_skb_queue`. The end of a read is two steps (its verdict, then
`rtw_read_port`), `usb_read_port_cancel` three per buffer (mark, kill, wait). A suspend
stops the driver and kills the reads, inactive power save only kills them; both start
again on what is left. `leaked` and `broke` are history variables: `sk_buff`s nobody
refers to, and a tasklet that broke off with others queued.

**ListFilter** - what stays of a list when a loop takes entries out of it, used by
`ApSleep` and `ApAssoc`; written with positions rather than `SelectSeq`, of which the
prover knows nothing.

**RxReorderProofs**, **CmdThreadProofs**, **PwrCtrlProofs**, **ApSleepProofs**,
**MlmeProofs**, **ApAssocProofs**, **XmitPathProofs**, **RecvPathProofs** - the theorems of
section 5, each about the module it extends.

`XmitPath` with `TxQueue` is composed by refinement. The other modules meet at named
points rather than by composition: `RecvPath` ends at `recvbuf2recvframe`, from where
`RxReorder`'s tasklet goes on; the receive tasklet of `ApAssoc` is that of `Mlme` in the
other role; `XmitPath!busy` is what `Mlme` keeps in `fw_state`, with the paths by
which Mlme clears it; `ApSleep` has the receivers that `XmitPath` leaves out; `Mlme` and `ApSleep`
use the command queue as `CmdThread` guarantees it (each command run once, in order,
by one thread), `PwrCtrl` abstracts what Mlme does to `fw` (idle, busy, linked) and
Mlme's `rtw_free_assoc_resources` is the removal `RxReorder` calls `Station`.

## 3. Runs

All runs but those of `ApAssoc` allow the system to stop (`CHECK_DEADLOCK FALSE`):
traffic, requests and opens are bounded, and when they are used up nothing needs to
happen. Waiting for ever is looked for with liveness properties instead. The stations
of `ApAssoc` never run out of requests, so deadlock is checked there.

| run | instance | properties and what they show |
|---|---|---|
| `rx_reorder` | sequence space 8, window 2, 10 frames (the space wraps), 2 resets, removal | `InOrder`: no reordering or repetition across wraps; `RefusedForAReason`: no promised frame dropped; `NoStrandedFrame`: kept frames have a timer or a context; `BufferDrains` (liveness) |
| `cmd_thread` | 3 commands (one a disconnect, one never filtered), 2 opens, SIGTERM, interrupted waits | `TypeOK`; `OneOwner`: no double free; `NoLostWakeup`; `NoThreadAfterUnload`, until a signal has cut a wait; `CommandsAreServed` and `UnloadReturns` (liveness) |
| `pwr_ctrl` | 2 wakers, slow waits, failing opens, 2 suspends, no signals | `PowerStateIsTrue`, `PowerCheckAlive` |
| `pwr_ctrl_live` | 2 wakers, waits below 2 s, signals | `WakeupIsKept`; `WakeupReturns` (liveness) |
| `pwr_ctrl_signal` | the same instance | **violated**: `OneSwitcher`, a signal lets a second context in |
| `ap_sleep` | 1 station without or with full U-APSD, 2 frames, 1 multicast, 3 received, no lost updates | `SleepqCounted`, `HeldOnlyAsleep`, `StationsTold`: the beacon on air shows the stations that frames are held for |
| `ap_sleep_mcast` | 1 station, 2 multicast frames | **violated**: `MulticastTold`, the bit of the second frame is cleared with that of the first |
| `mlme` | 1 BSS, 2 requests, 1 loss, 1 roaming attempt, 1 retry, 1 channel | `LinkingIsTimed`, `LinkIsReal`, `ToJoinHasSurvey`, `RoamIsPending`; `SurveyEnds` and `RoamConcludes` (liveness) |
| `ap_assoc` | 2 stations, 2 structures, 2 aids | `AidsUnique`: whatever is refused, repeated or removed; `AgingReaches`: no structure where aging misses it; `SoundUnlessRaced` (action property): lists and their count are damaged only in the three windows named; `AidsLostByRefusal` (action property): an aid is lost by a refused request and by nothing else |
| `ap_assoc_live` | 2 stations, 1 structure, timeouts of 3, 3 retries | `SilentLeaves`: a station that falls silent gives up its structure |
| `xmit_path` | 2 queues, 3 packets, 3 frames, 2 buffers, two of: a survey or join, a management frame, a departure of the receiver; faults | `PoolsAccounted`, `StoppedHasPacket`, `NoStranded`, `QueueOrder`; `StoppedIsWoken` (liveness); `ImplementsTxQueue` (refinement) |
| `recv_path` | 2 buffers, 4 `sk_buff`s, 1 tolerated error, 1 stop, faults | `OneOwner`, `RxServed`, `ReadsOnce`, `LeaksKnown` (action property), `UnloadEnds` (liveness) |

Beside the runs there are configurations for the same modules that are not part of
them. In those named `MC*More.cfg` and in `MCMlmeRoam` TLC finds no violation: type invariants of
`PwrCtrl`, `ApSleep`, `Mlme`, `ApAssoc`, `XmitPath` and `RecvPath`, some plainer properties
(`FirmwareUnderChip`, `NoIpsWhileBusy`, `IdleSleeps`, `OnePlace`, `LinkHasSta`, `HostKnows`,
`SkbDelivered`), the properties of `ap_sleep` with two multicast frames, the safety properties
of `xmit_path` with a survey, a management frame and a departure in one behaviour, and two
roaming attempts (the driver's default) in place of two requests. `MCApAssocAid`,
`MCRxReorderFree`, `MCCmdThreadLeak`, `MCPwrCtrlSuspend`, `MCApSleepTrigger`, `MCMlmeTimeout`
and `MCApSleepRace` give the counterexamples to findings 3 to 9 of section 4.

### Bounds and why they are enough

* `RxReorder`: only the relation of the window to the sequence space matters
  (`WSize < Half` and `2*WSize <= Half+1`, which hold for 64 and 2048); ten frames pass the wrap, and
  two resets meet in each order. The theorems need no bound.
* `CmdThread`: three commands let one be queued, one held and one between `up` and
  link; a second open meets what the first left behind.
* `PwrCtrl`: two wakers meet each other and the thread; the second suspend meets the
  state the first resume left. `MaxPs = 2` queued commands is what the timer and a
  wakeup can produce before the thread runs.
* `ApSleep`: two frames give a list with a head and a rest, and three receptions a doze, a
  trigger or poll, and a wakeup. What needs two multicast frames is `ap_sleep_mcast`;
  `MCApSleepMore` has two of them and one frame with the properties of `ap_sleep`, and the theorems
  have no bound. A walker of the multicast queue whose next frame another walker has taken
  (`core/rtw_mlme_ext.c:8329`) is not modelled further.
* `Mlme`: a second request meets every stage of the first, a loss meets both, a
  retry precedes giving up, and one roaming attempt both succeeds and fails. With two
  BSSs the safety properties hold too, as the theorems of section 5 say (what `LinkIsReal`
  does not ask is in the note at `core/rtw_mlme_ext.c:7094`); with failing allocations
  (`NoMem = TRUE`) `RoamIsPending`, `LinkIsReal` and `ToJoinHasSurvey` fail, as the note at
  `core/rtw_ioctl_set.c:97` says, and `LinkingIsTimed` holds. Two roaming attempts are
  `MCMlmeRoam`.
* `ApAssoc`: two structures give a list with a head and a rest, a saved neighbour that
  can go, and a second owner for what was freed; two aids, one of them lost. Timeouts
  of 1 and 2 rounds reach every stage of aging; the liveness run, where only one
  station matters, has those that make a retry differ from the last.
* `XmitPath`: `MaxEvent = 2` lets any two of survey or join, management frame and departure
  meet; `MCXmitPathMore` has all three, safety only. With three frames and a low mark of one, a
  queue is stopped while another still allocates; three packets in any distribution over two queues fill an aggregate
  and leave one behind; with two buffers one is in transfer while the other is with the
  tasklet.
* `RecvPath`: two buffers, so that a kill of one meets the handler of the other; four
  `sk_buff`s, so that two are read into, one queued and one parsed; the allocation of
  further ones fails or succeeds.

### Fairness

Liveness is claimed only under weak fairness of contexts that the kernel runs: a
tasklet or softirq that was scheduled, a thread that is runnable, a timer that is
pending, a URB that is submitted. Users, access points and stations owe nothing, and no
sleeper is owed a signal: fairness is over the steps that a free semaphore or a raise allows.
In `CmdThread` an unload, once begun, and an open go on; that a user closes the interface is
not assumed. In `ApAssoc` the check timer re-arms itself and posts `expire_timeout_chk` for ever; in
`XmitPath` every transfer completes (`usb_kill_urb` at the latest) and a survey or join
ends by event or timer, and `rtw_free_stainfo`, once begun, re-initialises its station; in `RecvPath` only a URB that is being cancelled must complete,
a read may wait for ever. Strong fairness appears in `PwrCtrl` alone, for the semaphore, whose waiters the
kernel serves in turn, and for a waker that polls a flag every 10 ms. `Mlme` needs
none: its lock is taken finitely often in a bounded instance.

## 4. Findings

What the code does against what it, or its documentation, says. The first two are runs; the
others are reproduced by the configurations named.

1. `_enter_pwrlock` ignores that a signal ended its wait (`include/rtw_pwrctrl.h:111`): the
   caller switches the chip beside the holder of a semaphore made for one, and raises it once
   too often (`pwr_ctrl_signal`).
2. `rtw_chk_hi_queue_hdl` clears the multicast bit after a wait without looking at the sleep
   queue again (`core/rtw_cmd.c:1852`): multicast held back meanwhile is announced to nobody and
   stays (`ap_sleep_mcast`).
3. `OnAssocReqFail` sets `pstat->aid = 0` for a station that may have an aid and leaves
   its entry in `sta_aid`, "NULL if AID free" (`include/sta_info.h:335`); after
   `max_num_sta` such refusals no station can associate (`MCApAssocAid`). `AidsLostByRefusal`
   shows that aids are lost in this way only.
4. `rtw_free_stainfo` cancels reordering timers once (`core/rtw_sta_mgt.c:401`), but a
   tasklet that found the station earlier sets them again (`MCRxReorderFree`).
5. `rtw_enqueue_cmd` tests `cmdthd_running` outside the queue lock; a command linked
   after the final drain, "free all cmd_obj resources" (`core/rtw_cmd.c:374`), is lost
   (`MCCmdThreadLeak`).
6. `rtw_suspend` holds the power semaphore while it waits for the command thread,
   which may wait for it in `ips_enter` (`MCPwrCtrlSuspend`).
7. `xmit_delivery_enabled_frames` and `rtw_xmit` take `sleep_q.lock` and
   `pxmitpriv->lock` in opposite orders (`MCApSleepTrigger`).
8. `rtw_joinbss_event_prehandle` calls `del_timer_sync` on `assoc_timer` under the
   lock its handler takes (`MCMlmeTimeout`).
9. `tim_bitmap` is changed by senders, the receive tasklet and the command thread without a
   common lock (`core/rtw_xmit.c:2008`, `core/rtw_cmd.c:1853`, `core/rtw_ap.c:351`): an update can
   be lost, and a station that frames are held for is not told (`MCApSleepRace`).

Exceptions that the properties make, because the code does so:

* `CommandsAreServed`: a disconnect that the thread's own filter drops (`core/rtw_cmd.c:325`) is
  not freed, since `rtw_disassoc_cmd_callback` returns early (`core/rtw_cmd.c:2070`).
* `NoThreadAfterUnload`: a signal that ends the wait of `rtw_stop_drv_threads` or of the open.
* `StoppedHasPacket`: a queue is stopped by a packet that is then refused (no frame, no
  receiver); if no other packet of the queue is inside, nothing wakes it.
* `NoStranded`, `StoppedIsWoken`: a refused transfer returns its buffer, and a join that
  times out ends the hold on data, without scheduling the tasklet; frames that are
  pending then wait for the next transfer.
* `PoolsAccounted`: `dump_mgntframe` loses a frame and a buffer once the driver has stopped, and
  `rtw_free_stainfo` (`core/rtw_sta_mgt.c:387`) loses what was queued for the station after it had
  emptied the queues. `StoppedHasPacket`, `StoppedIsWoken` and `NoStranded` except the same: the
  queue of a lost packet is not woken, a `qcnt` left over sends frames to a queue nobody serves,
  and a tasklet in the torn list does not come back.
* `RxServed`: a suspend while two or more `sk_buff`s are queued makes the tasklet break
  off; nothing purges `rx_skb_queue`, and a completion schedules the tasklet only when it
  leaves at most one in the queue, so nothing is received after the resume.
* `LeaksKnown`: each failed read loses an `sk_buff`, and so does a start that meets a
  buffer whose last submission was refused.
* `SoundUnlessRaced`: the windows of `expire_timeout_chk` at `core/rtw_ap.c:303` and
  `:400`, handlers whose station is freed by another context, and `rtw_free_all_stainfo` with
  stations still in `asoc_list` (`core/rtw_mlme.c:935` flushes nothing, `core/rtw_ap.c:1961` lets
  go of the lock after the flush).

Properties that hold only in the instances checked say so in the hazard they belong
to, with the behaviour TLC finds outside them. Hazards seen and not listed there: a
PS-Poll takes a frame off the sleep queue that `hal_xmitframe_enqueue`, never set, does
not send, and does not lower `sleepq_ac_len` (`core/rtw_recv.c:1090`, `:1099`); a TIM
element of four bytes carries aids 1 to 7 (`core/rtw_ap.c:123`); `rtw_usb_if1_deinit` cancels timers before the
command thread that sets them has stopped (`os_dep/usb_intf.c:752`); the parameter of a
join command is `securitypriv.sec_bss` itself (`core/rtw_cmd.c:874`); a rejoin clears
`_FW_UNDER_LINKING` and leaves a half-open link (`core/rtw_mlme.c:999`); `recv_tasklet`
is never killed.

## 5. Proofs

Proved by TLAPS for all values of the constants that satisfy the modules'
assumptions (which TLC evaluates in the runs). An invariant is seldom inductive as it
stands; what was added to make it so is the argument, and was checked by TLC first.

* **RxReorder**: `ReorderTypeOK`, `ReorderNoStrandedFrame`. The invariant is
  `TypeOK /\ RxHoldsFrame /\ CancelsWhenEmpty /\ NoStrandedFrame`. `CancelsWhenEmpty` is
  the point: the tasklet cancels the timer after it has dropped the lock, and this loses
  nothing because it is the only context that queues frames, and it left the buffer empty.
* `ReorderInOrder`, `ReorderRefusedForAReason`: the code compares numbers modulo 4096 and
  never sees the true ones, so the invariant `OInv` states what the masked window start
  stands for. As long as no session was reset in the middle there are a frame `p`, the
  newest the window has seen, and a number `w` whose masked value is `indicate_seq`
  (`Window(p, w)`): `w` is at most a window behind `p`, everything buffered lies in
  `w .. p` in ascending order, everything delivered below `w`. Before the window has
  opened, `Opening(p)` holds instead. `Traffic(p)` bounds what is on the way by the
  originator's window and losses, so that every comparison is of numbers less than half
  the space apart; lemmas about `%` (`ModUnique`, `SeqOrder`, `SeqShift`, `CheckWindow`)
  turn each masked comparison into one of true numbers. The assumption `WSize < Half`
  excludes a sequence space of two numbers only.
* **CmdThread**: `CmdTypeOK`, `CmdOneOwner`, `CmdNoLostWakeup`. The invariant is
  `TypeOK /\ HoldsObject /\ OneOwner /\ WakeupComing`; `WakeupComing` strengthens
  `NoLostWakeup` to the times before the thread sleeps, when a command may already be
  queued. `CmdNoThreadAfterUnload`, which excepts lives in which a signal has cut a wait, needs
  `TermCount`: how often the semaphore that start and stop share has been raised and
  not awaited, for each place of opener, unloader and thread.
* **PwrCtrl**: `PwrOneSwitcher`, `PwrStateIsTrue`, `PwrCheckAlive`, `PwrFirmware`. `Mutex`
  says that the semaphore has one holder, `Running` how suspend, resume and the thread
  exclude each other, `Switching` what the holder has done of its switch so far,
  `Firmware` where the firmware has to be in the chip. These four assume `~Signals`, without which
  they are false (finding 1). `PwrWakeupIsKept` needs no mutual exclusion and holds with signals; it assumes `~Slow`, that no wait for the
  semaphore outlasts `ips_deny_time`: otherwise the promise of 2 s is over before
  the caller gets to use it, and TLC shows so.
* **ApSleep**: `SleepHeldOnlyAsleep`, for any number of stations and frames and any
  offers of U-APSD: `wakeup_sta_to_xmit` declares a station awake by `sleepq_len`, so
  the invariant says that the length counts the list (`Lists`), and, because the loop
  keeps its next frame while the lock is dropped, that this frame is still linked
  (`NextIsLinked`): only the receive tasklet takes frames from a station's list.
  `SleepCounted` adds `sleepq_ac_len`, under the hypothesis that a station that enables
  a class enables best effort too: a PS-Poll of any other takes frames of enabled classes
  that the counter goes on counting, and TLC shows so for `Offers = {{"vo"}}`. Lemmas
  count positions of a list under `Append`, `\o` and `RemoveAt` by bijections.
* `SleepStationsTold`: the TIM exists four times, and the invariant
  `BInv` follows a station's bit from one copy to the next. The beacon in the chip differs
  from the element only while a command that loads it is queued, or one was lost
  (`Loaded`); the element differs from `tim_bitmap` only for a station just declared awake
  (`Ending`); `tim_bitmap` shows each station frames are held for, and no other but one
  that is probed or being woken (`Waking`). The theorem assumes stations without or with full
  U-APSD (`Offers \subseteq {{}, Class}`): then every frame held is announced
  (`AllOrNothing`), and the first one held is the one that needs a new beacon. It has any
  number of frames and of multicast frames, and assumes `~Races`, as does
  `SleepHeldOnlyAsleep`: where updates of the bitmaps are lost it is false (finding 9).
  `MulticastTold` is not proved, since it is false (finding 2).
* **Mlme**: `MlmeLinkingIsTimed`, `MlmeToJoinHasSurvey`. The invariant adds
  `SyncLinked` (the lock is held across steps by the tasklet that cancels
  `assoc_timer` alone; then the link is up and no join waits for that timer) and `SurveyIsComing` (`_FW_UNDER_SURVEY`
  has a survey behind it). `MlmeLinkingIsTimed` has no hypothesis. The other three assume `~NoMem`: a
  user's request whose survey command cannot be allocated clears `to_join` while roaming waits
  for it, `survey_timer_hdl` and `report_surveydone_event` give up a survey that a join waits
  for, and `report_del_sta_event` (`core/rtw_mlme_ext.c:7156`) leaves `_FW_LINKED` without an
  association. For `MlmeLinkIsReal`: a link and a join exclude each other, and while
  either lasts it is `Answered` (the exchange is associated, or goes on under `link_timer`
  with the station entry set, or has failed with the event or the removal of the station
  on its way, or a join command is the last of the queue) or `Doomed` (`assoc_timer` is
  set and nobody is about to cancel it); `Prepared` says that a queued join has its
  BSS, and that a queued disconnect is followed by a join.
* **ApAssoc**: `ApAidsUnique`, from `AidHeld`: a station's aid is the index of the entry
  of `sta_aid` that points to it. The entry that the search
  loop ends at is a least number (`LeastNat`). `ApAgingReaches` and the action property
  `ApSoundUnlessRaced` share the invariant `LInv`: `asoc_list` has nothing twice
  (`Linked`; its count would drift otherwise), a handler that authenticates a station has
  it out of `asoc_list` (`Carried`), and, while the lists are sound, what is hashed and
  what is in the free queue are complements (`Hashed`), so that a station in use is never
  freed twice. `Alone` says that neither of the first two windows is open; each action's lemma
  shows `Alone => Sound'` with the invariant, but for `rtw_free_all_stainfo` with stations
  listed. `ApAidsLostByRefusal` adds `Nameless`, that a structure out of the hash has no aid, so
  that reuse forgets none. `PickProperties` is what the prover knows of a
  filtered list: `Nth` inverts the rank of a position, a bijection.
* **XmitPath**: `XmitPools` (with the types), `XmitQueueOrder`, `XmitStoppedHasPacket`. `Numbered` relates
  the packets of a queue to how many it was given, `PoolsAccounted` equates free, pending,
  held, lost and swept frames and buffers with the pools' sizes. `StationOK` and `SweptApart` say
  when a receiver's queues can hold what a re-initialisation loses, and that no packet lost so is
  held or done. `XmitNoStranded` assumes at
  least two buffers (the driver has four): with one, a sender may queue its frame for want
  of the very buffer the tasklet is giving back. `XmitImplementsTxQueue` is the refinement: `Init`
  maps to `Init`, and each action to a step of the contract (`Enters`, `Stops`, `Refuses`,
  ...) or to none (`Keeps`).
* **RecvPath**: `RecvOneOwner`, `RecvRxServed`, `RecvReadsOnce`, and the action property
  `RecvLeaksKnown`. `KilledAreIdle` says that the buffers `usb_read_port_cancel` has
  passed stay idle, `ReadsWithoutLoss` that a buffer about to read again reuses its
  `sk_buff` or has none.

Only model-checked:

* liveness (`BufferDrains`, `CommandsAreServed`, `UnloadReturns`, `WakeupReturns`,
  `SurveyEnds`, `RoamConcludes`, `SilentLeaves`, `StoppedIsWoken`, `UnloadEnds`): fairness
  and `ENABLED` are outside this prover;
* `PwrCtrl!OneSwitcher` with signals and `ApSleep!MulticastTold`, which are violated.

Every other invariant and action property of the runs is stated by a theorem.

## 6. Plan

Proofs: none is open for the modules there are; a correction of the race at
`core/rtw_cmd.c:1852` would make `MulticastTold` worth proving.

Models next: `Lps` beside `PwrCtrl`, with the same interface to `Mlme`; the pool of
`recv_frame`s with `defrag_q` between `RecvPath` and `RxReorder`; the aging of sleep queues
and the removal of a dozing station in `ApSleep`; pure operators against reference
definitions (TIM bytes, power sequences, EFUSE sections, H2C boxes); LEDs, TKIP
countermeasures, P2P.

Extensions of the models there are: the callbacks of dropped commands in `Mlme`, with the
power state of the chip; a survey whose event is lost in `XmitPath` (`ScanTimeout` takes it
that the event still comes). The number of runs is kept small: a run is for a question of its own, and a violated
property whose finding is recorded keeps its configuration only.

## 7. Not modelled

Cryptography, information element parsing, ioctl argument handling, hardware tables
and descriptors, the numeric control loops of ODM and calibration, and the factory
mode are sequential and about bytes, registers or measurements; hostapd is vendored
user-space code. Kernel rules such as "no sleeping in atomic context" are not
represented: `rtw_set_802_11_disassociate` calls `rtw_pwr_wakeup`, which sleeps, under a spin
lock, and no model shows it. Within the modules: the ACL, protection counters and `rtw_add_sta` of the access point;
fragments, the copies of multicast to unicast, acknowledgement waits (`sctx`), bridging
and the `wifi_spec` queue limits of the transmit path; the `recv_frame` pool,
defragmentation and decryption, and an open that fails in `hal_init`, of the receive
path; control transfers, probe and disconnect; ad-hoc
mode, the `wifi_spec` auto scan, the null frames and pauses a scan makes for the old
link beyond their place in the survey's states, jiffies that wrap, and allocation
failures except where a constant (`NoMem`) asks for them.
