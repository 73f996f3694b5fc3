----------------------------- MODULE XmitPath ------------------------------
(***************************************************************************)
(* The transmit path: os_dep/xmit_linux.c (the network queues),            *)
(* core/rtw_xmit.c (the pools of frames and buffers, the pending queues),  *)
(* hal/rtl8188eu_xmit.c and hal/usb_ops_linux.c (sending at once, or from  *)
(* the transmit tasklet) and os_dep/usb_ops_linux.c (bulk transfers).      *)
(*                                                                         *)
(* A packet takes an xmit_frame.  If nothing of its class is pending, no   *)
(* survey or join is on and there is an xmit_buf, its sender writes it to  *)
(* the chip itself; otherwise the frame is queued, and nobody is told: it  *)
(* is the end of a transfer, of a survey or of a join that schedules the   *)
(* tasklet.  Senders (one per queue), tasklet, completions and the command *)
(* thread meet under pxmitpriv->lock; each step below that tests or        *)
(* changes the pending queues is one section of it.                        *)
(*                                                                         *)
(* One receiver that is awake (ApSleep has the sleeping ones); a queue of  *)
(* the device is an access class.  When the receiver leaves, its pending   *)
(* queues are emptied under the lock and re-initialised without it: what a *)
(* sender that knew the receiver has queued in between is lost, and the    *)
(* list of the class is left in a knot at which the tasklet goes round for *)
(* ever, with the lock held (Torn).                                        *)
(***************************************************************************)
EXTENDS Integers, Sequences, FiniteSets, Functions

CONSTANTS
  NrQueue,     \* the access classes in use, the first the most urgent
  NrFrame,     \* NR_XMITFRAME
  Low,         \* free frames at which a queue is stopped: 4
  NrBuf,       \* NR_XMITBUFF
  NrExt,       \* NR_XMIT_EXTBUFF, the buffers of management frames
  Burst,       \* most frames the tasklet puts in a buffer
  Faults,      \* whether transfers may be refused or fail
  MaxPacket,   \* bound: packets of all queues
  MaxScan,     \* bound: surveys and joins
  MaxMgmt,     \* bound: management frames
  MaxLeave,    \* bound: departures of the receiver
  MaxEvent     \* bound: all three together

ASSUME XmitAssumption ==
  /\ {NrQueue, NrFrame, NrBuf, NrExt, Burst} \subseteq Nat \ {0}
  /\ {Low, MaxPacket, MaxScan, MaxMgmt, MaxLeave, MaxEvent} \subseteq Nat
  /\ Faults \in BOOLEAN

Queue == 1 .. NrQueue
Packet == Queue \X (1 .. MaxPacket)
QueueOf(p) == p[1]

VARIABLES
  tx,        \* rtw_xmit_entry, per queue: its place and its packet
  next,      \* the next packet of each queue
  stopped,   \* the queues netif_stop_subqueue stopped
  refused,   \* the queues whose last packet was refused
  done,      \* the packets freed by rtw_os_pkt_complete
  frames,    \* free_xmitframe_cnt
  bufs,      \* free_xmitbuf_cnt
  exts,      \* free_xmit_extbuf_cnt
  pend,      \* sta_pending of each class
  urbs,      \* transfers of buffers that are under way
  eurbs,     \* transfers of management frames
  task,      \* the transmit tasklet: its place and the packets in its hands
  sched,     \* whether it is scheduled
  busy,      \* _FW_UNDER_SURVEY and _FW_UNDER_LINKING
  events,    \* the events of surveys and joins that are still to come
  wake,      \* whether the command thread is about to rtw_os_xmit_schedule
  mgmt,      \* a management frame being sent
  lost,      \* frames of management frames dropped when the driver had stopped
  dead,      \* bDriverStopped or bSurpriseRemoved
  silent,    \* whether a buffer came back, or a join timed out, without a word
             \* to the tasklet since it was last scheduled
  sta,       \* the sta_info of the receiver: "hashed", "freed" while
             \* rtw_free_stainfo has still to re-initialise it, then in the "pool"
  stale,     \* the classes whose qcnt is not zero although nothing is pending
  swept,     \* the packets lost when their pending queue was re-initialised
  scans, mgmts, leaves   \* counted against the bounds

net == <<tx, next, stopped, refused, done>>
pools == <<frames, bufs, exts, pend>>
usb == <<urbs, eurbs, dead>>
tasklet == <<task, sched, silent>>
mlme == <<busy, events, wake, scans>>
mgnt == <<mgmt, lost, mgmts>>
station == <<sta, stale, swept, leaves>>
vars == <<net, pools, usb, tasklet, mlme, mgnt, station>>

\* The bound on surveys, joins, management frames and departures together.
Bounded == scans + mgmts + leaves < MaxEvent

TxIdle == [pc |-> "idle", p |-> <<>>]
TaskIdle == [pc |-> "idle", ps |-> <<>>]

Init ==
  /\ tx = [q \in Queue |-> TxIdle] /\ next = [q \in Queue |-> 1]
  /\ stopped = {} /\ refused = {} /\ done = {}
  /\ frames = NrFrame /\ bufs = NrBuf /\ exts = NrExt
  /\ pend = [q \in Queue |-> <<>>]
  /\ urbs = 0 /\ eurbs = 0 /\ dead = FALSE
  /\ task = TaskIdle /\ sched = FALSE /\ silent = FALSE
  /\ busy = {} /\ events = {} /\ wake = FALSE /\ scans = 0
  /\ mgmt = "idle" /\ lost = 0 /\ mgmts = 0
  /\ sta = "hashed" /\ stale = {} /\ swept = {} /\ leaves = 0

-----------------------------------------------------------------------------
(* Sending, in the context of the network layer. *)

\* The packet leaves the driver without being sent; nothing wakes its queue.
Drop(q) ==
  /\ tx' = [tx EXCEPT ![q] = TxIdle]
  /\ refused' = refused \cup {q}
  /\ UNCHANGED <<stopped, done, next>>

\* Mutant: the packet is freed and the queue forgotten.
CompleteNoWake(P) == done' = done \cup P /\ UNCHANGED stopped

\* rtw_os_pkt_complete, of packets that have been copied to a buffer or given
\* up: a stopped queue is woken.
Complete(P) ==
  /\ done' = done \cup P
  /\ stopped' = stopped \ {QueueOf(p) : p \in P}

\* rtw_xmit_entry: a packet is dropped unless the interface is up, and
\* rtw_check_xmit_resource reads the number of free frames.
XmitEntry(q) ==
  /\ tx[q].pc = "idle" /\ q \notin stopped
  /\ next[q] <= MaxPacket /\ SumFunction(next) < NrQueue + MaxPacket
  /\ next' = [next EXCEPT ![q] = @ + 1]
  /\ IF dead THEN tx' = tx /\ refused' = refused \cup {q}
     ELSE /\ tx' = [tx EXCEPT ![q] = [pc |-> IF frames <= Low THEN "stop" ELSE "alloc",
                                      p |-> <<q, next[q]>>]]
          /\ refused' = refused \ {q}
  /\ UNCHANGED <<stopped, done, pools, usb, tasklet, mlme, mgnt, station>>

\* It stops the queue later, and under no lock.
StopQueue(q) ==
  /\ tx[q].pc = "stop"
  /\ stopped' = stopped \cup {q}
  /\ tx' = [tx EXCEPT ![q].pc = "alloc"]
  /\ UNCHANGED <<next, refused, done, pools, usb, tasklet, mlme, mgnt, station>>

\* rtw_xmit: no frame, or one given back because the packet has no receiver
\* (update_attrib, rtw_br_client_tx).
XmitRefused(q) == tx[q].pc = "alloc" /\ Drop(q) /\ UNCHANGED <<pools, usb, tasklet, mlme, mgnt, station>>

\* rtw_alloc_xmitframe, for a receiver that is found.
XmitAlloc(q) ==
  /\ tx[q].pc = "alloc" /\ frames > 0 /\ sta # "pool"
  /\ frames' = frames - 1
  /\ tx' = [tx EXCEPT ![q].pc = "hal"]
  /\ UNCHANGED <<next, stopped, refused, done, bufs, exts, pend, usb, tasklet, mlme, mgnt, station>>

\* Mutant: a sender takes a buffer whatever is pending.
MustQueueAnyClass(q) == busy # {} \/ bufs = 0

\* pre_xmitframe under pxmitpriv->lock: the frame is queued behind those of
\* its class, as qcnt has it, during a survey or a join, or for want of a buffer.
MustQueue(q) == pend[q] # <<>> \/ q \in stale \/ busy # {} \/ bufs = 0

\* pxmitpriv->lock is not held for ever by rtw_dequeue_xframe.
Unlocked == task.pc # "hang"

XmitEnqueue(q) ==
  /\ tx[q].pc = "hal" /\ Unlocked /\ MustQueue(q)
  /\ pend' = [pend EXCEPT ![q] = Append(@, tx[q].p)]
  /\ tx' = [tx EXCEPT ![q] = TxIdle]
  /\ UNCHANGED <<next, stopped, refused, done, frames, bufs, exts, usb, tasklet, mlme, mgnt, station>>

XmitTakeBuf(q) ==
  /\ tx[q].pc = "hal" /\ Unlocked /\ ~MustQueue(q)
  /\ bufs' = bufs - 1
  /\ tx' = [tx EXCEPT ![q].pc = "direct"]
  /\ UNCHANGED <<next, stopped, refused, done, frames, exts, pend, usb, tasklet, mlme, mgnt, station>>

\* Mutant: a transfer that is refused keeps its buffer.
WritePortLeaks ==
  \/ ~dead /\ urbs' = urbs + 1 /\ UNCHANGED <<bufs, dead, silent>>
  \/ /\ dead \/ Faults
     /\ dead' \in {dead, dead \/ Faults}
     /\ UNCHANGED <<bufs, urbs, silent>>

\* usb_write_port: the transfer starts, or is denied (the driver has stopped)
\* or refused, -ENODEV stopping the driver, and the buffer is freed.
WritePort ==
  \/ ~dead /\ urbs' = urbs + 1 /\ UNCHANGED <<bufs, dead, silent>>
  \/ /\ dead \/ Faults
     /\ bufs' = bufs + 1 /\ silent' = TRUE
     /\ dead' \in {dead, dead \/ Faults}
     /\ UNCHANGED urbs

\* xmitframe_direct: the packet is copied and written, the frame is freed with
\* the packet.  A copy that fails frees the buffer as a refused transfer does.
XmitDirect(q) ==
  /\ tx[q].pc = "direct"
  /\ WritePort
  /\ frames' = frames + 1
  /\ Complete({tx[q].p})
  /\ tx' = [tx EXCEPT ![q] = TxIdle]
  /\ UNCHANGED <<next, refused, exts, pend, eurbs, task, sched, mlme, mgnt, station>>

-----------------------------------------------------------------------------
(* rtl8188eu_xmit_tasklet. *)

\* tasklet_hi_schedule.
Schedule == sched' = TRUE /\ silent' = FALSE

TaskStart ==
  /\ sched /\ task.pc = "idle"
  /\ sched' = FALSE
  /\ task' = IF "survey" \in busy THEN task ELSE [task EXCEPT !.pc = "loop"]
  /\ UNCHANGED <<net, pools, usb, silent, mlme, mgnt, station>>

\* rtl8188eu_xmitframe_complete takes a buffer before it looks for a frame.
TaskTakeBuf ==
  /\ task.pc = "loop" /\ ~dead /\ bufs > 0
  /\ bufs' = bufs - 1
  /\ task' = [task EXCEPT !.pc = "buf"]
  /\ UNCHANGED <<net, frames, exts, pend, usb, sched, silent, mlme, mgnt, station>>

TaskEnd ==
  /\ task.pc = "loop" /\ (dead \/ bufs = 0)
  /\ task' = TaskIdle
  /\ UNCHANGED <<net, pools, usb, sched, silent, mlme, mgnt, station>>

Pending == {q \in Queue : pend[q] # <<>>}
PendingPackets == UNION {Range(pend[q]) : q \in Queue}

\* The classes whose list leads to a queue that was re-initialised within it.
Torn == {QueueOf(p) : p \in swept}

\* rtw_dequeue_xframe, from the most urgent class that has a frame; one that has
\* none but is torn is never left.
TaskDequeue ==
  /\ task.pc = "buf"
  /\ \E q \in Pending \cup Torn :
       /\ \A r \in Pending \cup Torn : q <= r
       /\ \/ /\ pend[q] # <<>>
             /\ pend' = [pend EXCEPT ![q] = Tail(@)]
             /\ task' = [pc |-> "first", ps |-> <<Head(pend[q])>>]
          \/ /\ pend[q] = <<>>
             /\ task' = [task EXCEPT !.pc = "hang"]
             /\ UNCHANGED pend
  /\ UNCHANGED <<net, frames, bufs, exts, usb, sched, silent, mlme, mgnt, station>>

\* The first packet is copied and completed; then, under the lock again, others
\* of its class join it and their frames are freed.
TaskAggregate ==
  /\ task.pc = "first"
  /\ LET q == QueueOf(task.ps[1])
         room == {k \in 0 .. Burst - 1 : k <= Len(pend[q])}
     IN \E k \in room :
          LET more == SubSeq(pend[q], 1, k)
          IN /\ pend' = [pend EXCEPT ![q] = SubSeq(@, k + 1, Len(@))]
             /\ frames' = frames + k
             /\ task' = [pc |-> "write", ps |-> task.ps \o more]
             /\ Complete(Range(task.ps \o more))
  /\ UNCHANGED <<tx, next, refused, bufs, exts, usb, sched, silent, mlme, mgnt, station>>

\* Mutant: pkt is not cleared in the frame, and freed again with it.
TaskWriteTwice ==
  /\ task.pc = "write"
  /\ WritePort
  /\ frames' = frames + 1
  /\ Complete(Range(task.ps))
  /\ task' = [pc |-> "loop", ps |-> <<>>]
  /\ UNCHANGED <<tx, next, refused, exts, pend, eurbs, sched, mlme, mgnt, station>>

\* The buffer is written, the first frame freed, and the loop goes on.
TaskWrite ==
  /\ task.pc = "write"
  /\ WritePort
  /\ frames' = frames + 1
  /\ task' = [pc |-> "loop", ps |-> <<>>]
  /\ UNCHANGED <<net, exts, pend, eurbs, sched, mlme, mgnt, station>>

\* No frame was found; the buffer goes back later, when a sender may have
\* missed it.
TaskNoFrame ==
  /\ task.pc = "buf" /\ Pending \cup Torn = {}
  /\ task' = [task EXCEPT !.pc = "giveback"]
  /\ UNCHANGED <<net, pools, usb, sched, silent, mlme, mgnt, station>>

TaskGiveBack ==
  /\ task.pc = "giveback"
  /\ bufs' = bufs + 1
  /\ task' = TaskIdle
  /\ UNCHANGED <<net, frames, exts, pend, usb, sched, silent, mlme, mgnt, station>>

-----------------------------------------------------------------------------
(* usb_write_port_complete: whatever the status, the buffer is freed and   *)
(* the tasklet scheduled; some errors stop the driver.                     *)

\* Mutant: a transfer that failed schedules nothing.
UrbCompleteFails ==
  /\ urbs > 0
  /\ urbs' = urbs - 1 /\ bufs' = bufs + 1
  /\ dead' \in {dead, dead \/ Faults}
  /\ Schedule \/ (Faults /\ UNCHANGED <<sched, silent>>)
  /\ UNCHANGED <<net, frames, exts, pend, eurbs, task, mlme, mgnt, station>>

UrbComplete ==
  /\ urbs > 0
  /\ urbs' = urbs - 1 /\ bufs' = bufs + 1
  /\ dead' \in {dead, dead \/ Faults}
  /\ Schedule
  /\ UNCHANGED <<net, frames, exts, pend, eurbs, task, mlme, mgnt, station>>

ExtComplete ==
  /\ eurbs > 0
  /\ eurbs' = eurbs - 1 /\ exts' = exts + 1
  /\ dead' \in {dead, dead \/ Faults}
  /\ Schedule
  /\ UNCHANGED <<net, frames, bufs, pend, urbs, task, mlme, mgnt, station>>

-----------------------------------------------------------------------------
(* Surveys and joins, which hold back data frames. *)

Begin(what) ==
  /\ busy = {} /\ what \notin events /\ scans < MaxScan /\ Bounded
  /\ busy' = {what} /\ scans' = scans + 1
  /\ events' = IF what = "survey" THEN events \cup {what} ELSE events
  /\ UNCHANGED <<net, pools, usb, tasklet, wake, mgnt, station>>

\* rtw_joinbss_event_prehandle: the flag is cleared, the event goes to the
\* command thread.
JoinPrehandle ==
  /\ "linking" \in busy
  /\ busy' = {} /\ events' = events \cup {"linking"}
  /\ UNCHANGED <<net, pools, usb, tasklet, wake, scans, mgnt, station>>

\* _rtw_join_timeout_handler, by way of rtw_indicate_disconnect: the join is
\* over, and nothing is scheduled.
JoinTimeout ==
  /\ "linking" \in busy
  /\ busy' = {} /\ silent' = TRUE
  /\ UNCHANGED <<net, pools, usb, task, sched, events, wake, scans, mgnt, station>>

\* rtw_scan_timeout_handler: the survey is over, and its event still to come.
ScanTimeout ==
  /\ "survey" \in busy
  /\ busy' = {}
  /\ UNCHANGED <<net, pools, usb, tasklet, events, wake, scans, mgnt, station>>

\* rtw_surveydone_event_callback and rtw_joinbss_event_callback, in the command
\* thread, up to rtw_os_xmit_schedule.
EventDone(what) ==
  /\ what \in events /\ ~wake
  /\ events' = events \ {what} /\ wake' = TRUE
  /\ busy' = IF what = "survey" THEN busy \ {what} ELSE busy
  /\ UNCHANGED <<net, pools, usb, tasklet, scans, mgnt, station>>

\* Mutant: as in a build without the call at the end of the event.
XmitScheduleSkipped ==
  /\ wake /\ wake' = FALSE
  /\ UNCHANGED <<net, pools, usb, tasklet, busy, events, scans, mgnt, station>>

\* rtw_os_xmit_schedule, under pxmitpriv->lock.
XmitSchedule ==
  /\ wake /\ wake' = FALSE /\ Unlocked
  /\ IF Pending \cup Torn # {} THEN Schedule ELSE UNCHANGED <<sched, silent>>
  /\ UNCHANGED <<net, pools, usb, task, busy, events, scans, mgnt, station>>

-----------------------------------------------------------------------------
(* Management frames, and the end of the receiver. *)

\* alloc_mgtxmitframe takes a frame from the same pool and a buffer of its own.
MgmtAlloc ==
  /\ mgmt = "idle" /\ mgmts < MaxMgmt /\ Bounded /\ frames > 0 /\ exts > 0
  /\ frames' = frames - 1 /\ exts' = exts - 1
  /\ mgmt' = "dump" /\ mgmts' = mgmts + 1
  /\ UNCHANGED <<net, bufs, pend, usb, tasklet, mlme, lost, station>>

\* dump_mgntframe returns at once when the driver has stopped: the frame and
\* its buffer are not given back.  A transfer that is refused frees both.
MgmtDump ==
  /\ mgmt = "dump" /\ mgmt' = "idle"
  /\ \/ dead /\ lost' = lost + 1 /\ UNCHANGED <<frames, exts, eurbs, dead>>
     \/ ~dead /\ eurbs' = eurbs + 1 /\ frames' = frames + 1 /\ UNCHANGED <<exts, lost, dead>>
     \/ /\ ~dead /\ Faults /\ dead' \in BOOLEAN
        /\ exts' = exts + 1 /\ frames' = frames + 1 /\ UNCHANGED <<eurbs, lost>>
  /\ UNCHANGED <<net, bufs, pend, urbs, tasklet, mlme, mgmts, station>>

\* rtw_free_stainfo: under pxmitpriv->lock the pending frames of a receiver
\* that leaves are freed; qcnt is left as it was.
FreeStainfo ==
  /\ sta = "hashed" /\ Unlocked /\ leaves < MaxLeave /\ Bounded
  /\ sta' = "freed" /\ leaves' = leaves + 1
  /\ frames' = frames + Cardinality(PendingPackets)
  /\ Complete(PendingPackets)
  /\ pend' = [q \in Queue |-> <<>>]
  /\ stale' = Pending
  /\ UNCHANGED <<tx, next, refused, bufs, exts, usb, tasklet, mlme, mgnt, swept>>

\* _rtw_init_sta_xmit_priv, under no lock.
Reinit ==
  /\ swept' = swept \cup PendingPackets
  /\ pend' = [q \in Queue |-> <<>>]
  /\ stale' = {}
  /\ UNCHANGED <<net, frames, bufs, exts, usb, tasklet, mlme, mgnt, leaves>>

\* The rest of rtw_free_stainfo, and _rtw_init_stainfo when the structure is
\* taken from the pool again.
FreeReinit == sta = "freed" /\ sta' = "pool" /\ Reinit
AllocStainfo == sta = "pool" /\ sta' = "hashed" /\ Reinit

Next ==
  \/ \E q \in Queue : \/ XmitEntry(q) \/ StopQueue(q) \/ XmitRefused(q) \/ XmitAlloc(q)
                      \/ XmitEnqueue(q) \/ XmitTakeBuf(q) \/ XmitDirect(q)
  \/ TaskStart \/ TaskTakeBuf \/ TaskEnd \/ TaskDequeue \/ TaskAggregate \/ TaskWrite
  \/ TaskNoFrame \/ TaskGiveBack
  \/ UrbComplete \/ ExtComplete
  \/ Begin("survey") \/ Begin("linking") \/ JoinPrehandle \/ JoinTimeout \/ ScanTimeout
  \/ EventDone("survey") \/ EventDone("linking") \/ XmitSchedule
  \/ MgmtAlloc \/ MgmtDump
  \/ FreeStainfo \/ FreeReinit \/ AllocStainfo

Spec == Init /\ [][Next]_vars

\* A call of ndo_start_xmit runs to its end, a tasklet that is scheduled runs
\* and ends, every transfer completes (usb_kill_urb at the latest), the command
\* thread handles the events of surveys and joins, which end, and
\* rtw_free_stainfo runs to its end.  Nobody need send.
FairSpec ==
  /\ Spec
  /\ \A q \in Queue : WF_vars(\/ StopQueue(q) \/ XmitRefused(q) \/ XmitAlloc(q)
                              \/ XmitEnqueue(q) \/ XmitTakeBuf(q) \/ XmitDirect(q))
  /\ WF_vars(\/ TaskStart \/ TaskTakeBuf \/ TaskEnd \/ TaskDequeue \/ TaskAggregate
             \/ TaskWrite \/ TaskNoFrame \/ TaskGiveBack)
  /\ WF_vars(UrbComplete) /\ WF_vars(ExtComplete)
  /\ WF_vars(JoinPrehandle \/ JoinTimeout) /\ WF_vars(FreeReinit)
  /\ WF_vars(EventDone("survey")) /\ WF_vars(EventDone("linking")) /\ WF_vars(XmitSchedule)

-----------------------------------------------------------------------------
(* Properties *)

TxPc == {"idle", "stop", "alloc", "hal", "direct"}
TaskPc == {"idle", "loop", "buf", "first", "write", "giveback", "hang"}

\* Types, and the counts within their pools: free_xmitframe_cnt and the counts
\* of the buffers never pass zero or the size of the pool.
TypeOK ==
  /\ tx \in [Queue -> [pc : TxPc, p : Packet \cup {<<>>}]]
  /\ next \in [Queue -> 1 .. MaxPacket + 1]
  /\ stopped \subseteq Queue /\ refused \subseteq Queue /\ done \subseteq Packet
  /\ frames \in 0 .. NrFrame /\ bufs \in 0 .. NrBuf /\ exts \in 0 .. NrExt
  /\ pend \in [Queue -> Seq(Packet)]
  /\ urbs \in 0 .. NrBuf /\ eurbs \in 0 .. NrExt
  /\ task \in [pc : TaskPc, ps : Seq(Packet)] /\ Len(task.ps) <= Burst
  /\ sched \in BOOLEAN /\ silent \in BOOLEAN /\ dead \in BOOLEAN
  /\ busy \subseteq {"survey", "linking"} /\ events \subseteq {"survey", "linking"} /\ wake \in BOOLEAN
  /\ mgmt \in {"idle", "dump"} /\ lost \in 0 .. NrExt
  /\ sta \in {"hashed", "freed", "pool"} /\ stale \subseteq Queue /\ swept \subseteq Packet
  /\ scans \in 0 .. MaxScan /\ mgmts \in 0 .. MaxMgmt /\ leaves \in 0 .. MaxLeave

Senders(pcs) == {q \in Queue : tx[q].pc \in pcs}
Tasklet(pcs) == IF task.pc \in pcs THEN 1 ELSE 0
NrPending == Cardinality(PendingPackets)

(***************************************************************************)
(* Nothing leaks from the pools of xmit_frames and xmit_bufs, on any path  *)
(* through a refused transfer, a failed one, an aggregate or a station     *)
(* that leaves: every frame is free, pending, or in the hands of a sender, *)
(* the tasklet or the management path; every buffer is free, in a transfer *)
(* or in the hands of one of the two that fill it.  There are two leaks:   *)
(* that of dump_mgntframe, once the driver has stopped, and that of        *)
(* _rtw_init_sta_xmit_priv, of what was queued for a receiver that is      *)
(* gone.                                                                   *)
(***************************************************************************)
PoolsAccounted ==
  /\ frames + NrPending + Cardinality(Senders({"hal", "direct"}))
       + Tasklet({"first", "write"}) + (IF mgmt = "dump" THEN 1 ELSE 0) + lost
       + Cardinality(swept) = NrFrame
  /\ bufs + urbs + Cardinality(Senders({"direct"}))
       + Tasklet({"buf", "first", "write", "giveback", "hang"}) = NrBuf
  /\ exts + eurbs + (IF mgmt = "dump" THEN 1 ELSE 0) + lost = NrExt
  /\ lost > 0 => dead

\* The packets of the driver, in the hands of a sender or the tasklet or pending.
InTasklet == IF task.pc = "first" THEN Range(task.ps) ELSE {}
Held == {tx[q].p : q \in Senders(TxPc \ {"idle"})} \cup InTasklet
          \cup PendingPackets

(***************************************************************************)
(* rtw_check_xmit_resource reads free_xmitframe_cnt and stops the queue    *)
(* under no lock, and only rtw_os_pkt_complete of a packet of that queue   *)
(* wakes it.  Whatever completes in between, a stopped queue has a packet  *)
(* in the driver that will wake it, with two exceptions: the very packet   *)
(* that stopped it was then refused (no frame, or no receiver), or a       *)
(* packet of it was lost with the queue of a receiver that left.           *)
(***************************************************************************)
StoppedHasPacket ==
  \A q \in stopped : q \in refused \cup Torn \/ \E p \in Held : QueueOf(p) = q

(***************************************************************************)
(* A frame that is queued schedules nothing, so somebody must still be     *)
(* about to: while frames are pending the tasklet is scheduled or has yet  *)
(* to look at the queues, a transfer is to complete, a sender is to start  *)
(* one, or the end of a survey or join is to come.  The exceptions are a   *)
(* driver that has stopped, a buffer that usb_write_port freed because its *)
(* transfer was refused, and a join that timed out: they schedule nothing; *)
(* a frame queued behind a stale qcnt, which rtw_free_stainfo is about to  *)
(* lose; and a tasklet that goes round in a torn list.                     *)
(***************************************************************************)
NoStranded ==
  (Pending # {} /\ ~dead /\ ~silent /\ stale = {} /\ task.pc # "hang") =>
     \/ sched \/ Tasklet({"loop", "buf", "first", "write"}) = 1
     \/ urbs > 0 \/ eurbs > 0 \/ Senders({"direct"}) # {}
     \/ busy # {} \/ events # {} \/ wake

\* A packet was sent before another of its class; so were all of P before those
\* of R; a sequence is in the order its packets were sent.
Earlier(x, y) == QueueOf(x) = QueueOf(y) => x[2] < y[2]
SentBefore(P, R) == \A x \in P, y \in R : Earlier(x, y)
InOrder(s) == \A i, j \in DOMAIN s : i < j => Earlier(s[i], s[j])

(***************************************************************************)
(* pre_xmitframe sends at once only past an empty queue of its class: a    *)
(* sender never overtakes a packet that is pending, and the tasklet takes  *)
(* them in the order they were sent.  (A sender may overtake the packets   *)
(* the tasklet has already dequeued.)                                      *)
(***************************************************************************)
QueueOrder ==
  /\ InOrder(task.ps)
  /\ \A q \in Queue :
       /\ InOrder(pend[q]) /\ SentBefore(Range(task.ps), Range(pend[q]))
       /\ tx[q].pc # "idle" => SentBefore(Range(task.ps) \cup Range(pend[q]), {tx[q].p})
       /\ tx[q].pc = "direct" => pend[q] = <<>>

(***************************************************************************)
(* A stopped queue is woken: by the completion of a transfer and the       *)
(* tasklet, by the end of a survey, or by its own sender; unless its last  *)
(* packet was refused, the driver stopped, a buffer or the end of a join   *)
(* came silently, or a packet was lost with the queue of a receiver that   *)
(* left.                                                                   *)
(***************************************************************************)
StoppedIsWoken ==
  \A q \in Queue : q \in stopped ~> (q \notin stopped \/ q \in refused \/ dead \/ silent \/ swept # {})

-----------------------------------------------------------------------------
(* The contract with the network layer: where a packet is decides its fate. *)
Fate ==
  LET held == Held \cup swept
  IN [p \in Packet |-> IF p[2] >= next[QueueOf(p)] THEN "out"
                       ELSE IF p \in held THEN "in"
                       ELSE IF p \in done THEN "done" ELSE "refused"]

Net == INSTANCE TxQueue WITH fate <- Fate

(***************************************************************************)
(* Every step of senders, tasklet and completions is a step of TxQueue: no *)
(* packet is completed twice or after it was refused, no queue is woken    *)
(* but by the completion of one of its packets, none is stopped without a  *)
(* packet inside.                                                          *)
(***************************************************************************)
ImplementsTxQueue == Net!Spec

=============================================================================
