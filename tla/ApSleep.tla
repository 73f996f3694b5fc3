------------------------------ MODULE ApSleep ------------------------------
(***************************************************************************)
(* Power-saving stations of the access point: core/rtw_xmit.c (the sleep   *)
(* queues), core/rtw_recv.c (the power bit, U-APSD triggers and PS-Polls), *)
(* core/rtw_mlme_ext.c and core/rtw_cmd.c (beacons and the high queue).    *)
(*                                                                         *)
(* A frame for a dozing station goes to its sleep_q, a multicast frame to  *)
(* that of the bc/mc station while anyone dozes, and tim_bitmap tells the  *)
(* beacon.  Four contexts meet: the network layer, one per access class;   *)
(* the receive tasklet, which moves stations in and out of power save; the *)
(* transmit tasklet; and the command thread, which loads beacons, sends    *)
(* multicast after them and clears the multicast bit.  The locks are       *)
(* pxmitpriv->lock and the sleep_q.lock of each station.  The latter is    *)
(* held across another lock only by xmit_delivery_enabled_frames, so that  *)
(* it needs no variable of its own.                                        *)
(*                                                                         *)
(* No lock protects tim_bitmap and sta_dz_bitmap: senders (and the tasklet *)
(* where it dozes a station or serves a PS-Poll) change them under         *)
(* pxmitpriv->lock, the tasklet otherwise under one sleep_q.lock, the      *)
(* command thread under neither.  With Races, an update that meets one of  *)
(* another context may be lost; without, each is taken as indivisible.     *)
(***************************************************************************)
EXTENDS Integers, Sequences, SequencesExt, FiniteSets, ListFilter

CONSTANTS
  Sta,        \* the associated stations, each with its aid
  Bmc,        \* the bc/mc station, aid 0
  NoFrame,    \* the end of a list
  Offers,     \* the sets of classes stations may ask U-APSD for
  Races,      \* whether updates of the bitmaps may overwrite each other
  Traffic,    \* the access classes the network layer uses
  MaxFrame,   \* bound: frames for stations
  MaxMcast,   \* bound: multicast frames
  MaxRx       \* bound: frames received

\* Voice, and best effort for the other three.
Class == {"vo", "be"}

ASSUME ApSleepAssumption ==
  /\ IsFiniteSet(Sta) /\ Bmc \notin Sta
  /\ Offers \subseteq SUBSET Class /\ Offers # {} /\ Traffic \subseteq Class
  /\ Races \in BOOLEAN
  /\ MaxFrame \in Nat /\ MaxMcast \in Nat /\ MaxRx \in Nat

VARIABLES
  uapsd,    \* uapsd_vo, uapsd_be: the delivery and trigger enabled classes
  sleep,    \* stations in WIFI_SLEEP_STATE
  alive,    \* stations in WIFI_STA_ALIVE_CHK_STATE
  dz,       \* sta_dz_bitmap
  tim,      \* tim_bitmap
  ietim,    \* the TIM element of the driver's beacon
  hwtim,    \* the one in the beacon the chip sends
  sleepq,   \* sleep_q of each receiver
  len,      \* sleepq_len
  aclen,    \* sleepq_ac_len
  pend,     \* sta_pending of each receiver and class
  qcnt,     \* the qcnt beside it
  linked,   \* whether its tx_pending is linked, so that it is served
  xlock,    \* pxmitpriv->lock: the class whose sender holds it, or "free"
  tx,       \* rtw_xmit, per class
  rx,       \* the receive tasklet
  cmd,      \* the command thread
  cmdq,     \* the commands posted to it
  hiq,      \* frames in the chip's high queue
  hiqurb,   \* completions of high queue transfers still to come
  sent,     \* frames handed to the chip
  lost,     \* whether send_beacon ever gave up
  frames, mcasts, rxs   \* counted against the bounds

queues == <<sleepq, len, aclen>>
pending == <<pend, qcnt, linked>>
chip == <<hiq, hiqurb, sent>>
bits == <<uapsd, sleep, alive, dz, tim>>
beacon == <<ietim, cmdq>>
count == <<frames, mcasts, rxs>>
vars == <<bits, ietim, hwtim, queues, pending, xlock, tx, rx, cmd, cmdq, chip, lost,
          count>>

Rcv == Sta \cup {Bmc}

Frame == [id : Nat, ra : Rcv, ac : Class, trig : BOOLEAN, hiq : BOOLEAN]

TypeOK ==
  /\ uapsd \in [Sta -> SUBSET Class]
  /\ sleep \subseteq Sta /\ alive \subseteq Sta
  /\ dz \subseteq Rcv /\ tim \subseteq Rcv /\ ietim \subseteq Rcv /\ hwtim \subseteq Rcv
  /\ sleepq \in [Rcv -> Seq(Frame)] /\ len \in [Rcv -> Nat] /\ aclen \in [Rcv -> Nat]
  /\ pend \in [Rcv -> [Class -> Seq(Frame)]]
  /\ qcnt \in [Rcv -> [Class -> Int]] /\ linked \in [Rcv -> [Class -> BOOLEAN]]
  /\ xlock \in Class \cup {"free"}
  /\ tx \in [Class -> [pc : {"idle", "look", "hal"}, f : Frame \cup {NoFrame}]]
  /\ rx \in [pc : {"idle", "wake", "hal", "relock", "bmc", "mhal", "mrelock", "wmm",
                   "deliver"},
             s : Rcv, f : Frame \cup {NoFrame}, next : Frame \cup {NoFrame},
             upd : BOOLEAN, trig : BOOLEAN]
  /\ cmd \in [pc : {"idle", "atim", "hal", "relock", "hiq"},
              f : Frame \cup {NoFrame}, next : Frame \cup {NoFrame}]
  /\ cmdq \in Seq({"bcn", "hiq"})
  /\ hiq \in Nat /\ hiqurb \in Nat /\ sent \subseteq Frame /\ lost \in BOOLEAN
  /\ frames \in Nat /\ mcasts \in Nat /\ rxs \in Nat

RxIdle == [pc |-> "idle", s |-> Bmc, f |-> NoFrame, next |-> NoFrame, upd |-> FALSE,
           trig |-> FALSE]
CmdIdle == [pc |-> "idle", f |-> NoFrame, next |-> NoFrame]
TxIdle == [pc |-> "idle", f |-> NoFrame]

\* OnAssocReq reads qos_info: both bits of a class are set together.
Init ==
  /\ uapsd \in [Sta -> Offers]
  /\ sleep = {} /\ alive = {} /\ dz = {} /\ tim = {} /\ ietim = {} /\ hwtim = {}
  /\ sleepq = [r \in Rcv |-> << >>]
  /\ len = [r \in Rcv |-> 0] /\ aclen = [r \in Rcv |-> 0]
  /\ pend = [r \in Rcv |-> [a \in Class |-> << >>]]
  /\ qcnt = [r \in Rcv |-> [a \in Class |-> 0]]
  /\ linked = [r \in Rcv |-> [a \in Class |-> FALSE]]
  /\ xlock = "free" /\ tx = [a \in Class |-> TxIdle]
  /\ rx = RxIdle /\ cmd = CmdIdle /\ cmdq = << >>
  /\ hiq = 0 /\ hiqurb = 0 /\ sent = {} /\ lost = FALSE
  /\ frames = 0 /\ mcasts = 0 /\ rxs = 0

-----------------------------------------------------------------------------
(* Helpers.                                                                *)

Uapsd(s, a) == s \in Sta /\ a \in uapsd[s]
HasLegacyAc(s) == uapsd[s] # Class

\* The frames the TIM speaks of.
Announced(f) == HasLegacyAc(f.ra) # Uapsd(f.ra, f.ac)

\* The positions of the delivery enabled frames of a list, and their number.
EnabledAt(q) == {i \in DOMAIN q : Uapsd(q[i].ra, q[i].ac)}
NrEnabled(q) == Cardinality(EnabledAt(q))

First(q) == IF q = << >> THEN NoFrame ELSE Head(q)

\* list_del_init, and the successor that was read before it.
Position(q, f) == CHOOSE i \in DOMAIN q : q[i] = f
Unlink(q, f) == RemoveAt(q, Position(q, f))
After(q, f) == IF Position(q, f) = Len(q) THEN NoFrame ELSE q[Position(q, f) + 1]

\* Another context than c may be between its read and its write of a bitmap:
\* a sender with the lock, the tasklet in wakeup_sta_to_xmit or in a service
\* period, the thread in rtw_chk_hi_queue_hdl.  (expire_timeout_chk, which has
\* no place of its own in the model, may lose its update but undoes none.)
Overlapped(c) ==
  \/ c # "tx" /\ xlock # "free"
  \/ c # "rx" /\ rx.pc \notin {"idle", "wmm"}
  \/ c # "cmd" /\ cmd.pc = "hiq" /\ hiq = 0

\* A bitmap after an update by context c: the other's write may undo it.
Lands(c, old, new, result) ==
  result = new \/ (Races /\ Overlapped(c) /\ result = old)

\* update_beacon of the TIM element: rewrite it and post a command.
UpdateBeacon == ietim' = tim' /\ cmdq' = Append(cmdq, "bcn")

\* rtw_hal_xmit, where a transmit buffer is at hand.
Direct(f) ==
  /\ qcnt[f.ra][f.ac] <= 0
  /\ sent' = sent \cup {f}
  /\ hiq' = hiq + (IF f.hiq THEN 1 ELSE 0)
  /\ hiqurb' = hiqurb + (IF f.hiq THEN 1 ELSE 0)
  /\ UNCHANGED pending

\* rtw_hal_xmit, where there is none, a scan runs or others wait:
\* rtw_xmit_classifier.
Classify(f) ==
  /\ pend' = [pend EXCEPT ![f.ra][f.ac] = Append(@, f)]
  /\ qcnt' = [qcnt EXCEPT ![f.ra][f.ac] = @ + 1]
  /\ linked' = [linked EXCEPT ![f.ra][f.ac] = TRUE]
  /\ UNCHANGED chip

HalXmit(f) == xlock = "free" /\ (Direct(f) \/ Classify(f))

-----------------------------------------------------------------------------
(* The network layer: rtw_xmit.                                            *)

\* The attributes are set and the lock is taken.
TxStart(a, r) ==
  /\ tx[a].pc = "idle" /\ xlock = "free"
  /\ \/ r = Bmc /\ a = "be" /\ mcasts < MaxMcast
        /\ mcasts' = mcasts + 1 /\ UNCHANGED frames
     \/ r \in Sta /\ frames < MaxFrame
        /\ frames' = frames + 1 /\ UNCHANGED mcasts
  /\ xlock' = a
  /\ tx' = [tx EXCEPT ![a] =
       [pc |-> "look", f |-> [id |-> frames + mcasts + 1, ra |-> r, ac |-> a,
                              trig |-> FALSE, hiq |-> FALSE]]]
  /\ UNCHANGED <<bits, beacon, hwtim, queues, pending, rx, cmd, chip, lost, rxs>>

\* Mutant: the length is compared before it is raised.
TxSleepsLate(a) ==
  LET f == tx[a].f  s == f.ra IN
  /\ tx[a].pc = "look" /\ s \in sleep \cap dz
  /\ ~(rx.pc = "deliver" /\ rx.s = s)
  /\ sleepq' = [sleepq EXCEPT ![s] = Append(@, f)]
  /\ len' = [len EXCEPT ![s] = @ + 1]
  /\ aclen' = [aclen EXCEPT ![s] = @ + (IF Uapsd(s, a) THEN 1 ELSE 0)]
  /\ Lands("tx", tim, IF Announced(f) THEN tim \cup {s} ELSE tim, tim')
  /\ IF Announced(f) /\ len[s] = 1 THEN UpdateBeacon ELSE UNCHANGED beacon
  /\ xlock' = "free" /\ tx' = [tx EXCEPT ![a] = TxIdle]
  /\ UNCHANGED <<uapsd, sleep, alive, dz, hwtim, pending, rx, cmd, chip, lost, count>>

\* xmitframe_enqueue_for_sleeping_sta for a station that dozes.
TxSleeps(a) ==
  LET f == tx[a].f  s == f.ra IN
  /\ tx[a].pc = "look" /\ s \in sleep \cap dz
  /\ ~(rx.pc = "deliver" /\ rx.s = s)
  /\ sleepq' = [sleepq EXCEPT ![s] = Append(@, f)]
  /\ len' = [len EXCEPT ![s] = @ + 1]
  /\ aclen' = [aclen EXCEPT ![s] = @ + (IF Uapsd(s, a) THEN 1 ELSE 0)]
  /\ Lands("tx", tim, IF Announced(f) THEN tim \cup {s} ELSE tim, tim')
  /\ IF Announced(f) /\ len[s] = 0 THEN UpdateBeacon ELSE UNCHANGED beacon
  /\ xlock' = "free" /\ tx' = [tx EXCEPT ![a] = TxIdle]
  /\ UNCHANGED <<uapsd, sleep, alive, dz, hwtim, pending, rx, cmd, chip, lost, count>>

\* The same for multicast while anyone dozes.
TxMcastSleeps(a) ==
  /\ tx[a].pc = "look" /\ tx[a].f.ra = Bmc /\ dz # {}
  /\ sleepq' = [sleepq EXCEPT ![Bmc] = Append(@, tx[a].f)]
  /\ len' = [len EXCEPT ![Bmc] = @ + 1]
  /\ Lands("tx", tim, tim \cup {Bmc}, tim')
  /\ Lands("tx", dz, dz \cup {Bmc}, dz')
  /\ UpdateBeacon
  /\ xlock' = "free" /\ tx' = [tx EXCEPT ![a] = TxIdle]
  /\ UNCHANGED <<uapsd, sleep, alive, hwtim, aclen, pending, rx, cmd, chip, lost, count>>

\* Nobody dozes: the lock is dropped before rtw_hal_xmit.
TxAwake(a) ==
  LET r == tx[a].f.ra IN
  /\ tx[a].pc = "look"
  /\ r = Bmc => dz = {}
  /\ r # Bmc => r \notin sleep \cap dz /\ ~(rx.pc = "deliver" /\ rx.s = r)
  /\ xlock' = "free" /\ tx' = [tx EXCEPT ![a].pc = "hal"]
  /\ UNCHANGED <<bits, beacon, hwtim, queues, pending, rx, cmd, chip, lost, count>>

TxHal(a) ==
  /\ tx[a].pc = "hal"
  /\ HalXmit(tx[a].f)
  /\ tx' = [tx EXCEPT ![a] = TxIdle]
  /\ UNCHANGED <<bits, beacon, hwtim, queues, xlock, rx, cmd, lost, count>>

\* The transmit tasklet: rtw_dequeue_xframe.
Dequeue(r, a) ==
  /\ xlock = "free" /\ linked[r][a] /\ pend[r][a] # << >>
  /\ LET f == Head(pend[r][a]) IN
       /\ sent' = sent \cup {f}
       /\ hiq' = hiq + (IF f.hiq THEN 1 ELSE 0)
       /\ hiqurb' = hiqurb + (IF f.hiq THEN 1 ELSE 0)
  /\ pend' = [pend EXCEPT ![r][a] = Tail(@)]
  /\ qcnt' = [qcnt EXCEPT ![r][a] = @ - 1]
  /\ linked' = [linked EXCEPT ![r][a] = Len(pend[r][a]) > 1]
  /\ UNCHANGED <<bits, beacon, hwtim, queues, xlock, tx, rx, cmd, lost, count>>

-----------------------------------------------------------------------------
(* The receive tasklet: process_pwrbit_data, then process_wmmps_data for   *)
(* QoS data.  t says whether the frame is of a trigger enabled class.      *)

RxFrame(s, t) ==
  /\ rx.pc = "idle" /\ rxs < MaxRx
  /\ t => uapsd[s] # {}
  /\ rxs' = rxs + 1

RxNext(s, t) == IF t THEN [RxIdle EXCEPT !.pc = "wmm", !.s = s, !.trig = TRUE] ELSE RxIdle

Triggered(q) == Pick(q, {i \in DOMAIN q : q[i].trig})
Untriggered(q) == Pick(q, {i \in DOMAIN q : ~q[i].trig})
\* A triggered multicast frame that is met again is given to the high queue.
ForHiq(q) == [i \in DOMAIN q |-> [q[i] EXCEPT !.hiq = TRUE]]
Moved(s) == Untriggered(pend[s]["vo"]) \o Untriggered(pend[s]["be"])

\* The power bit of a station that was awake: stop_sta_xmit, which moves what
\* waits for it, and multicast, to the sleep queues.  Frames sent once before
\* (triggered) are not moved, but uncounted and unlinked with the others.
RxDoze(s, t) ==
  LET mine == Moved(s)
      mc == Untriggered(pend[Bmc]["be"])
      posts == (IF mine # << >> /\ len[s] = 0 /\ Announced(mine[1]) THEN 1 ELSE 0) + Len(mc)
  IN
  /\ RxFrame(s, t)
  /\ s \notin sleep /\ xlock = "free"
  /\ sleep' = sleep \cup {s}
  /\ Lands("rx", dz, dz \cup {s} \cup (IF mc # << >> THEN {Bmc} ELSE {}), dz')
  /\ Lands("rx", tim, tim \cup (IF \E i \in DOMAIN mine : Announced(mine[i]) THEN {s} ELSE {})
                          \cup (IF mc # << >> THEN {Bmc} ELSE {}), tim')
  /\ sleepq' = [sleepq EXCEPT ![s] = @ \o mine, ![Bmc] = @ \o mc]
  /\ len' = [len EXCEPT ![s] = @ + Len(mine), ![Bmc] = @ + Len(mc)]
  /\ aclen' = [aclen EXCEPT ![s] = @ + NrEnabled(mine)]
  /\ pend' = [pend EXCEPT
       ![s] = [a \in Class |-> Triggered(@[a])],
       ![Bmc]["be"] = ForHiq(Triggered(@))]
  /\ qcnt' = [qcnt EXCEPT
       ![s] = [a \in Class |-> @[a] - Len(pend[s][a])],
       ![Bmc]["be"] = @ - Len(pend[Bmc]["be"])]
  /\ linked' = [linked EXCEPT ![s] = [a \in Class |-> FALSE], ![Bmc]["be"] = FALSE]
  /\ cmdq' = cmdq \o [i \in 1..posts |-> "bcn"]
  /\ ietim' = IF posts > 0 THEN tim' ELSE ietim
  /\ rx' = RxNext(s, t)
  /\ UNCHANGED <<uapsd, alive, hwtim, xlock, tx, cmd, chip, lost, frames, mcasts>>

\* A power bit that says what is known already.
RxSame(s, t) ==
  /\ RxFrame(s, t) /\ s \in sleep /\ t
  /\ rx' = RxNext(s, t)
  /\ UNCHANGED <<bits, beacon, hwtim, queues, pending, xlock, tx, cmd, chip, lost,
                 frames, mcasts>>

\* A clear power bit of a station that dozed: wakeup_sta_to_xmit.
RxWake(s, t) ==
  /\ RxFrame(s, t) /\ s \in sleep
  /\ rx' = [RxIdle EXCEPT !.pc = "wake", !.s = s, !.trig = t]
  /\ UNCHANGED <<bits, beacon, hwtim, queues, pending, xlock, tx, cmd, chip, lost,
                 frames, mcasts>>

\* The loop reads its next frame when it takes one and keeps it while the
\* lock is dropped.
WakeNext(r) == IF rx.pc \in {"wake", "bmc"} THEN First(sleepq[r]) ELSE rx.next

\* Mutant: sleepq_ac_len is forgotten.
WakeTakeUncounted ==
  LET s == rx.s  f == WakeNext(s) IN
  /\ rx.pc \in {"wake", "relock"} /\ f # NoFrame
  /\ sleepq' = [sleepq EXCEPT ![s] = Unlink(@, f)]
  /\ len' = [len EXCEPT ![s] = @ - 1]
  /\ aclen' = [aclen EXCEPT ![s] = @]
  /\ rx' = [rx EXCEPT !.pc = "hal", !.f = [f EXCEPT !.trig = TRUE],
                      !.next = After(sleepq[s], f)]
  /\ UNCHANGED <<bits, beacon, hwtim, pending, xlock, tx, cmd, chip, lost, count>>

WakeTake ==
  LET s == rx.s  f == WakeNext(s) IN
  /\ rx.pc \in {"wake", "relock"} /\ f # NoFrame
  /\ sleepq' = [sleepq EXCEPT ![s] = Unlink(@, f)]
  /\ len' = [len EXCEPT ![s] = @ - 1]
  /\ aclen' = [aclen EXCEPT ![s] = @ - (IF Uapsd(s, f.ac) THEN 1 ELSE 0)]
  /\ rx' = [rx EXCEPT !.pc = "hal", !.f = [f EXCEPT !.trig = TRUE],
                      !.next = After(sleepq[s], f)]
  /\ UNCHANGED <<bits, beacon, hwtim, pending, xlock, tx, cmd, chip, lost, count>>

WakeHal ==
  /\ rx.pc \in {"hal", "mhal"}
  /\ HalXmit(rx.f)
  /\ rx' = [rx EXCEPT !.pc = IF @ = "hal" THEN "relock" ELSE "mrelock", !.f = NoFrame]
  /\ UNCHANGED <<bits, beacon, hwtim, queues, xlock, tx, cmd, lost, count>>

\* Mutant: the station is awake whatever came meanwhile.
WakeEndAnyway ==
  LET s == rx.s  done == {s} IN
  /\ rx.pc \in {"wake", "relock"} /\ WakeNext(s) = NoFrame
  /\ Lands("rx", tim, tim \ done, tim') /\ sleep' = sleep \ done
  /\ alive' = alive \ done /\ Lands("rx", dz, dz \ done, dz')
  /\ rx' = [rx EXCEPT !.pc = "bmc", !.next = NoFrame, !.upd = (done # {})]
  /\ UNCHANGED <<uapsd, beacon, hwtim, queues, pending, xlock, tx, cmd, chip, lost, count>>

\* The end of the loop: the station is awake, unless a frame came meanwhile.
WakeEnd ==
  LET s == rx.s  done == IF len[s] = 0 THEN {s} ELSE {} IN
  /\ rx.pc \in {"wake", "relock"} /\ WakeNext(s) = NoFrame
  /\ Lands("rx", tim, tim \ done, tim') /\ sleep' = sleep \ done
  /\ alive' = alive \ done /\ Lands("rx", dz, dz \ done, dz')
  /\ rx' = [rx EXCEPT !.pc = "bmc", !.next = NoFrame, !.upd = (done # {})]
  /\ UNCHANGED <<uapsd, beacon, hwtim, queues, pending, xlock, tx, cmd, chip, lost, count>>

\* Nobody dozes any more: multicast is sent too.
WakeMcast ==
  LET f == WakeNext(Bmc) IN
  /\ \/ rx.pc = "bmc" /\ dz \cap Sta = {}
     \/ rx.pc = "mrelock"
  /\ f # NoFrame /\ f \in {sleepq[Bmc][i] : i \in DOMAIN sleepq[Bmc]}
  /\ sleepq' = [sleepq EXCEPT ![Bmc] = Unlink(@, f)]
  /\ len' = [len EXCEPT ![Bmc] = @ - 1]
  /\ rx' = [rx EXCEPT !.pc = "mhal", !.f = [f EXCEPT !.trig = TRUE],
                      !.next = After(sleepq[Bmc], f)]
  /\ UNCHANGED <<bits, beacon, hwtim, aclen, pending, xlock, tx, cmd, chip, lost, count>>

\* The way out of wakeup_sta_to_xmit.
WakeDone ==
  LET all == rx.pc = "mrelock" \/ dz \cap Sta = {}
      clear == IF all /\ len[Bmc] = 0 THEN {Bmc} ELSE {}
  IN
  /\ rx.pc \in {"bmc", "mrelock"}
  /\ all => WakeNext(Bmc) = NoFrame
  /\ Lands("rx", tim, tim \ clear, tim') /\ Lands("rx", dz, dz \ clear, dz')
  /\ IF rx.upd \/ clear # {} THEN UpdateBeacon ELSE UNCHANGED beacon
  /\ rx' = RxNext(rx.s, rx.trig)
  /\ UNCHANGED <<uapsd, sleep, alive, hwtim, queues, pending, xlock, tx, cmd, chip, lost, count>>

\* process_wmmps_data: a trigger of a dozing station opens a service period,
\* or is answered with a QoS null frame.
RxTrigger ==
  /\ rx.pc = "wmm"
  /\ rx' = IF rx.s \in sleep /\ aclen[rx.s] > 0 THEN [rx EXCEPT !.pc = "deliver"] ELSE RxIdle
  /\ UNCHANGED <<bits, beacon, hwtim, queues, pending, xlock, tx, cmd, chip, lost, count>>

\* xmit_delivery_enabled_frames, one frame: sleep_q.lock stays taken over
\* rtw_hal_xmit, which takes pxmitpriv->lock.
Deliver ==
  LET s == rx.s  f == sleepq[s][Nth(EnabledAt(sleepq[s]), 1)] IN
  /\ rx.pc = "deliver" /\ EnabledAt(sleepq[s]) # {}
  /\ HalXmit([f EXCEPT !.trig = TRUE])
  /\ sleepq' = [sleepq EXCEPT ![s] = Unlink(@, f)]
  /\ len' = [len EXCEPT ![s] = @ - 1]
  /\ aclen' = [aclen EXCEPT ![s] = @ - 1]
  /\ IF aclen[s] = 1 /\ ~HasLegacyAc(s)
       THEN Lands("rx", tim, tim \ {s}, tim') /\ UpdateBeacon
       ELSE UNCHANGED <<tim, beacon>>
  /\ UNCHANGED <<uapsd, sleep, alive, dz, hwtim, xlock, tx, rx, cmd, lost, count>>

Delivered ==
  /\ rx.pc = "deliver" /\ EnabledAt(sleepq[rx.s]) = {}
  /\ rx' = RxIdle
  /\ UNCHANGED <<bits, beacon, hwtim, queues, pending, xlock, tx, cmd, chip, lost, count>>

\* validate_recv_ctrl_frame: a PS-Poll.  Its frame goes to
\* rtw_hal_xmitframe_enqueue, which has no implementation behind it: it is
\* in no queue any more.
RxPoll(s) ==
  LET asleep == s \in sleep \cap dz
      got == asleep /\ sleepq[s] # << >>
      clear == \/ got /\ len[s] = 1
               \/ asleep /\ ~got /\ s \in tim
  IN
  /\ RxFrame(s, FALSE) /\ "be" \notin uapsd[s]
  /\ asleep => xlock = "free"
  /\ alive' = alive \ {s}
  /\ sleepq' = IF got THEN [sleepq EXCEPT ![s] = Tail(@)] ELSE sleepq
  /\ len' = [len EXCEPT ![s] = IF got THEN @ - 1 ELSE IF clear THEN 0 ELSE @]
  /\ IF clear THEN Lands("rx", tim, tim \ {s}, tim') /\ UpdateBeacon ELSE UNCHANGED <<tim, beacon>>
  /\ UNCHANGED <<uapsd, sleep, dz, hwtim, aclen, pending, xlock, tx, rx, cmd, chip, lost,
                 frames, mcasts>>

-----------------------------------------------------------------------------
(* The command thread.                                                     *)

CmdHead(c) == cmd.pc = "idle" /\ cmdq # << >> /\ Head(cmdq) = c

\* tx_beacon_hdl; multicast follows the beacon that announces it.
CmdBeacon ==
  /\ CmdHead("bcn")
  /\ cmdq' = Tail(cmdq)
  /\ hwtim' = ietim
  /\ cmd' = IF Bmc \in tim /\ len[Bmc] > 0 THEN [CmdIdle EXCEPT !.pc = "atim"] ELSE CmdIdle
  /\ UNCHANGED <<bits, ietim, queues, pending, xlock, tx, rx, chip, lost, count>>

\* send_beacon gives up.
CmdBeaconFails ==
  /\ CmdHead("bcn")
  /\ cmdq' = Tail(cmdq)
  /\ lost' = TRUE
  /\ UNCHANGED <<bits, ietim, hwtim, queues, pending, xlock, tx, rx, cmd, chip, count>>

CmdNext == IF cmd.pc = "atim" THEN First(sleepq[Bmc]) ELSE cmd.next

CmdTake ==
  LET f == CmdNext IN
  /\ cmd.pc \in {"atim", "relock"}
  /\ f # NoFrame /\ f \in {sleepq[Bmc][i] : i \in DOMAIN sleepq[Bmc]}
  /\ sleepq' = [sleepq EXCEPT ![Bmc] = Unlink(@, f)]
  /\ len' = [len EXCEPT ![Bmc] = @ - 1]
  /\ cmd' = [pc |-> "hal", f |-> [f EXCEPT !.trig = TRUE, !.hiq = TRUE],
             next |-> After(sleepq[Bmc], f)]
  /\ UNCHANGED <<bits, beacon, hwtim, aclen, pending, xlock, tx, rx, chip, lost, count>>

CmdHal ==
  /\ cmd.pc = "hal"
  /\ HalXmit(cmd.f)
  /\ cmd' = [cmd EXCEPT !.pc = "relock", !.f = NoFrame]
  /\ UNCHANGED <<bits, beacon, hwtim, queues, xlock, tx, rx, lost, count>>

CmdSent ==
  /\ cmd.pc \in {"atim", "relock"} /\ CmdNext = NoFrame
  /\ cmd' = CmdIdle
  /\ UNCHANGED <<bits, beacon, hwtim, queues, pending, xlock, tx, rx, chip, lost, count>>

\* rtw_chk_hi_queue_hdl: nothing held back, wait for the chip.
CmdChkHiq ==
  /\ CmdHead("hiq")
  /\ cmdq' = Tail(cmdq)
  /\ cmd' = IF len[Bmc] = 0 THEN [CmdIdle EXCEPT !.pc = "hiq"] ELSE CmdIdle
  /\ UNCHANGED <<bits, ietim, hwtim, queues, pending, xlock, tx, rx, chip, lost, count>>

CmdHiqEmpty ==
  /\ cmd.pc = "hiq" /\ hiq = 0
  /\ Lands("cmd", tim, tim \ {Bmc}, tim') /\ Lands("cmd", dz, dz \ {Bmc}, dz')
  /\ UpdateBeacon
  /\ cmd' = CmdIdle
  /\ UNCHANGED <<uapsd, sleep, alive, hwtim, queues, pending, xlock, tx, rx, chip, lost, count>>

\* Not empty after 1 s: "re check again".
CmdHiqBusy ==
  /\ cmd.pc = "hiq" /\ hiq > 0
  /\ cmdq' = Append(cmdq, "hiq")
  /\ cmd' = CmdIdle
  /\ UNCHANGED <<bits, ietim, hwtim, queues, pending, xlock, tx, rx, chip, lost, count>>

\* expire_timeout_chk: a silent station that dozes is announced, to see
\* whether it answers.
AliveCheck(s) ==
  /\ cmd.pc = "idle" /\ s \in sleep \ alive
  /\ alive' = alive \cup {s}
  /\ Lands("cmd", tim, tim \cup {s}, tim')
  /\ UpdateBeacon
  /\ UNCHANGED <<uapsd, sleep, dz, hwtim, queues, pending, xlock, tx, rx, cmd, chip, lost, count>>

\* The completion of a high queue transfer: usb_write_port_complete.
HiqComplete ==
  /\ hiqurb > 0
  /\ hiqurb' = hiqurb - 1
  /\ cmdq' = Append(cmdq, "hiq")
  /\ UNCHANGED <<bits, ietim, hwtim, queues, pending, xlock, tx, rx, cmd, hiq, sent,
                 lost, count>>

\* The chip empties its high queue after a beacon.
ChipDtim ==
  /\ hiq > 0
  /\ hiq' = 0
  /\ UNCHANGED <<bits, beacon, hwtim, queues, pending, xlock, tx, rx, cmd, hiqurb, sent,
                 lost, count>>

-----------------------------------------------------------------------------
TxNext(a) == TxSleeps(a) \/ TxMcastSleeps(a) \/ TxAwake(a) \/ TxHal(a)

RxStep ==
  \/ WakeTake \/ WakeHal \/ WakeEnd \/ WakeMcast \/ WakeDone
  \/ RxTrigger \/ Deliver \/ Delivered

CmdStep ==
  \/ CmdBeacon \/ CmdTake \/ CmdHal \/ CmdSent \/ CmdChkHiq \/ CmdHiqEmpty \/ CmdHiqBusy

Next ==
  \/ \E a \in Traffic : TxNext(a) \/ \E r \in Rcv : TxStart(a, r) \/ Dequeue(r, a)
  \/ \E s \in Sta, t \in BOOLEAN : RxDoze(s, t) \/ RxSame(s, t) \/ RxWake(s, t)
  \/ \E s \in Sta : RxPoll(s) \/ AliveCheck(s)
  \/ RxStep \/ CmdStep \/ CmdBeaconFails \/ HiqComplete \/ ChipDtim

Spec == Init /\ [][Next]_vars

\* Softirqs and the command thread run; a sender inside rtw_xmit goes on.
FairSpec ==
  /\ Spec
  /\ \A a \in Traffic : WF_vars(TxNext(a))
  /\ WF_vars(RxStep) /\ WF_vars(CmdStep) /\ WF_vars(HiqComplete) /\ WF_vars(ChipDtim)

-----------------------------------------------------------------------------
(* Properties.                                                             *)

Linked(q) == {q[i] : i \in DOMAIN q}

(* sleepq_len and sleepq_ac_len: the counters that decide on More Data,    *)
(* on EOSP and on waking up count the frames on the list, although PS-Poll *)
(* changes them under another lock than the rest.                          *)
SleepqCounted ==
  \A r \in Rcv : /\ len[r] = Len(sleepq[r])
                 /\ r # Bmc => aclen[r] = NrEnabled(sleepq[r])

(* wakeup_sta_to_xmit against rtw_xmit: a frame is held back only for a    *)
(* station that counts as dozing, so that its next frame releases it; also *)
(* one that arrives while the loop has dropped the lock.                   *)
HeldOnlyAsleep ==
  \A s \in Sta : sleepq[s] # << >> => s \in sleep \cap dz

Held(s) == \E f \in Linked(sleepq[s]) : Announced(f)

\* Nothing is on its way to the beacon, and none was lost.
Quiet ==
  /\ cmdq = << >> /\ cmd.pc = "idle" /\ rx.pc = "idle" /\ xlock = "free"
  /\ hiq = 0 /\ hiqurb = 0 /\ ~lost

(* The TIM: when all is quiet the beacon on air shows every station that   *)
(* announced frames are held for, and no other but one that is probed.     *)
StationsTold ==
  Quiet => \A s \in Sta : /\ Held(s) => s \in hwtim
                          /\ s \in hwtim => Held(s) \/ s \in alive

(* core/rtw_xmit.c:1961 says of multicast held back "tx bc/mc packets      *)
(* after upate bcn": when all is quiet, the beacon on air shows the bit of *)
(* multicast that is held, so that the next one sends it.                  *)
MulticastTold == Quiet => (sleepq[Bmc] # << >> => Bmc \in hwtim)

(* The lists change hands in four contexts, and no frame is in two of them *)
(* or in a list and at the chip: a second owner would send, complete and   *)
(* free it twice.                                                          *)
OnePlace ==
  LET Ids(S) == {f.id : f \in S \ {NoFrame}}
      at == [sleepq |-> UNION {Ids(Linked(sleepq[r])) : r \in Rcv},
             pend |-> UNION {Ids(Linked(pend[r][a])) : r \in Rcv, a \in Class},
             tx |-> Ids({tx[a].f : a \in Class}),
             rx |-> Ids({rx.f}), cmd |-> Ids({cmd.f}), sent |-> Ids(sent)]
  IN \A p, q \in DOMAIN at : p # q => at[p] \cap at[q] = {}

(* process_wmmps_data, "process received triggered frame": the service     *)
(* period that a trigger opens ends.                                       *)
TriggerProcessed == rx.pc = "deliver" ~> rx.pc = "idle"
=============================================================================
