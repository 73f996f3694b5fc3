----------------------------- MODULE RxReorder -----------------------------
(***************************************************************************)
(* The receive reordering buffer of one (station, TID) pair: struct        *)
(* recv_reorder_ctrl and the code of core/rtw_recv.c that moves it.        *)
(*                                                                         *)
(* Four contexts touch one recv_reorder_ctrl:                              *)
(*   - the receive tasklet (rx): data frames, and the ADDBA and DELBA      *)
(*     action frames of the peer;                                          *)
(*   - the reordering timer (th), on any CPU;                              *)
(*   - the driver's own DELBA and rejoin (send_delba,                      *)
(*     rtw_joinbss_update_stainfo), which write enable and indicate_seq    *)
(*     without taking pending_recvframe_queue.lock;                        *)
(*   - rtw_free_stainfo / rtw_alloc_stainfo (fr), which recycle the whole  *)
(*     station while the tasklet may still hold a pointer to it.           *)
(*                                                                         *)
(* A frame is the number n the peer gave it, counted without wrapping;     *)
(* the code only ever sees SeqNum(n).  The originator is external: it      *)
(* keeps its window of WSize frames, retransmits inside it, and does not   *)
(* lose more than MaxLost numbers in a row.                                *)
(***************************************************************************)
EXTENDS Integers, Sequences

CONSTANTS
  Half,      \* half of the sequence space: 0x800 in the code
  WSize,     \* wsize_b, the reorder window: 64 in the code
  MaxFrame,  \* bound: the last frame number of the originator
  MaxReset,  \* bound: ADDBA, DELBA and rejoin resets in one behaviour
  Amsdu,     \* the frame numbers that are A-MSDUs
  Removal    \* whether the station may be freed and recycled

ASSUME RxReorderAssumption ==
  /\ Half \in Nat /\ WSize \in Nat /\ MaxFrame \in Nat /\ MaxReset \in Nat
  /\ WSize > 0 /\ WSize < Half /\ 2 * WSize <= Half + 1
  /\ Removal \in BOOLEAN

Modulus == 2 * Half              \* 4096
UNSET   == 16 * Modulus - 1      \* 0xffff, "no frame seen yet"
MaxLost == Half - 2 * WSize + 1  \* what the originator may lose in a row
Frames  == 0 .. MaxFrame
NoFrame == -1

\* Mutant: the sequence number taken without its 12-bit mask.
SeqNumUnmasked(n) == n

SeqNum(n) == n % Modulus

\* Mutant: the plain comparison, without wrapping.
SN_LESS_Plain(a, b) == a < b

\* SN_LESS: bit 11 of the difference, whatever the two operands are.
SN_LESS(a, b) == (a - b) % Modulus >= Half

VARIABLES
  enable,        \* preorder_ctrl->enable
  indicate_seq,  \* preorder_ctrl->indicate_seq, the window start
  pending,       \* pending_recvframe_queue, head first
  timer,         \* reordering_ctrl_timer is queued
  lock,          \* who holds pending_recvframe_queue.lock
  rxcache,       \* rxcache.tid_rxseq of this TID
  rx,            \* the receive tasklet: its place and its frame
  th,            \* the timer handler
  fr,            \* the station: live, the steps of rtw_free_stainfo, free
  stopped,       \* bDriverStopped or bSurpriseRemoved
  tx,            \* the originator's window start (external)
  hi,            \* highest frame number the tasklet was given
  out,           \* last frame passed up, and whether order was kept so far
  got,           \* history: accepted frames of the last window
  floor,         \* history: where the window first opened or a timeout moved it
  resets,        \* resets so far
  dirty          \* a reset came in the middle of a block-ack session

vars == <<enable, indicate_seq, pending, timer, lock, rxcache, rx, th, fr,
          stopped, tx, hi, out, got, floor, resets, dirty>>

Ctrl == <<enable, indicate_seq, pending, timer, lock>>
Peer == <<tx, hi, resets, dirty>>
Past == <<out, got, floor>>

TypeOK ==
  /\ enable \in BOOLEAN
  /\ indicate_seq \in 0 .. Modulus - 1 \cup {UNSET}
  /\ pending \in Seq(Frames)
  /\ timer \in BOOLEAN
  /\ lock \in {"none", "rx", "timer", "free"}
  /\ rxcache \in 0 .. Modulus - 1 \cup {UNSET}
  /\ rx \in [pc : {"idle", "got", "direct", "lock", "loop", "cancel"},
             n : Frames \cup {NoFrame}]
  /\ th \in {"idle", "lock", "loop"}
  /\ fr \in {"live", "cancel", "drain", "release", "free"}
  /\ stopped \in BOOLEAN
  /\ tx \in Frames
  /\ hi \in Frames \cup {NoFrame}
  /\ out \in [last : Frames \cup {NoFrame}, ok : BOOLEAN]
  /\ got \in SUBSET Frames
  /\ floor \in Frames
  /\ resets \in 0 .. MaxReset
  /\ dirty \in BOOLEAN

Idle == [pc |-> "idle", n |-> NoFrame]

(***************************************************************************)
(* rtw_alloc_stainfo leaves the control block like this.                   *)
(***************************************************************************)
Init ==
  /\ enable = FALSE
  /\ indicate_seq = UNSET
  /\ pending = << >>
  /\ timer = FALSE
  /\ lock = "none"
  /\ rxcache = UNSET
  /\ rx = Idle
  /\ th = "idle"
  /\ fr = "live"
  /\ stopped = FALSE
  /\ tx = 0
  /\ hi = NoFrame
  /\ out = [last |-> NoFrame, ok |-> TRUE]
  /\ got = {}
  /\ floor = 0
  /\ resets = 0
  /\ dirty = FALSE

-----------------------------------------------------------------------------
(***************************************************************************)
(* The algorithms.                                                         *)
(***************************************************************************)

\* Mutant: the window shifted one too far.
WinShiftTooFar(s) == (s + 2 - WSize) % Modulus

\* The window start after a frame beyond the window end.
WinShift(s) == (s + 1 - WSize) % Modulus

\* check_indicate_seq: is the frame accepted, and the new window start.
\* The window end is computed before an unset start is initialised.
CheckIndicateSeq(ind, s) ==
  LET wend  == (ind + WSize - 1) % Modulus
      start == IF ind = UNSET THEN s ELSE ind
  IN  [ok  |-> ~SN_LESS(s, start),
       ind |-> IF SN_LESS(s, start) THEN start
               ELSE IF s = start THEN (start + 1) % Modulus
               ELSE IF SN_LESS(wend, s) THEN WinShift(s)
               ELSE start]

\* enqueue_reorder_recvframe: the walk over the queue stops at position i.
WalkStops(n, i) ==
  /\ \A j \in 1 .. i - 1 : SN_LESS(SeqNum(pending[j]), SeqNum(n))
  /\ i <= Len(pending) => ~SN_LESS(SeqNum(pending[i]), SeqNum(n))

IsDuplicate(n) ==
  \E i \in 1 .. Len(pending) :
    WalkStops(n, i) /\ SeqNum(pending[i]) = SeqNum(n)

Enqueue(n) ==
  \E i \in 1 .. Len(pending) + 1 :
    /\ WalkStops(n, i)
    /\ pending' = SubSeq(pending, 1, i - 1) \o <<n>>
                     \o SubSeq(pending, i, Len(pending))

\* rtw_recv_indicatepkt / amsdu_to_msdu: the frame goes up the stack.
Deliver(n) == out' = [last |-> n, ok |-> out.ok /\ n > out.last]

\* History: frame n is accepted; frames a window behind hi are forgotten.
Accept(n) == got' = {m \in got \cup {n} : m + WSize > hi}
Larger(a, b) == IF a > b THEN a ELSE b

\* In recv_indicatepkts_in_order an MSDU of a stopped driver is unlinked and
\* goes nowhere.
Indicate(n) == IF stopped /\ n \notin Amsdu THEN UNCHANGED out ELSE Deliver(n)

\* One turn of the loop of recv_indicatepkts_in_order: the head leaves.
HeadIsDue ==
  pending # << >> /\ ~SN_LESS(indicate_seq, SeqNum(Head(pending)))

IndicateHead ==
  /\ HeadIsDue
  /\ pending' = Tail(pending)
  /\ indicate_seq' = IF indicate_seq = SeqNum(Head(pending))
                     THEN (indicate_seq + 1) % Modulus
                     ELSE indicate_seq
  /\ Indicate(Head(pending))

-----------------------------------------------------------------------------
(***************************************************************************)
(* The originator (external) and the driver's management paths.            *)
(***************************************************************************)

\* The originator moves its window on: frames were acknowledged or given up.
OriginatorAdvance ==
  /\ tx < MaxFrame
  /\ tx < hi + MaxLost
  /\ tx' = tx + 1
  /\ UNCHANGED <<Ctrl, rxcache, rx, th, fr, stopped, hi, Past, resets, dirty>>

\* What the originator may have on the air: with block ack any frame of its
\* window, without it the next frame or a retransmission of the last one.
\* After a reset it may not know yet that the agreement is gone.
OnAir ==
  IF enable \/ dirty THEN {n \in Frames : tx <= n /\ n < tx + WSize}
  ELSE {n \in Frames : n = tx /\ n >= hi}

\* validate_recv_data_frame: the station is found and its control block
\* remembered; recv_decache drops an immediate repetition.
Receive(n) ==
  /\ rx.pc = "idle"
  /\ ~stopped
  /\ fr = "live"
  /\ n \in OnAir
  /\ SeqNum(n) # rxcache
  /\ rxcache' = SeqNum(n)
  /\ hi' = IF n > hi THEN n ELSE hi
  /\ rx' = [pc |-> "got", n |-> n]
  /\ UNCHANGED <<Ctrl, th, fr, stopped, tx, Past, resets, dirty>>

\* process_addba_req, run by the tasklet: a new session, no queue touched.
AddBA(accept) ==
  /\ rx.pc = "idle"
  /\ fr = "live"
  /\ resets < MaxReset
  /\ resets' = resets + 1
  /\ dirty' = (dirty \/ (enable /\ hi # NoFrame))
  /\ indicate_seq' = UNSET
  /\ enable' = accept
  /\ UNCHANGED <<pending, timer, lock, rxcache, rx, th, fr, stopped, tx, hi, Past>>

\* The peer's DELBA (OnAction_back), run by the tasklet.
DelBA ==
  /\ rx.pc = "idle"
  /\ fr = "live"
  /\ resets < MaxReset
  /\ resets' = resets + 1
  /\ dirty' = (dirty \/ (enable /\ hi # NoFrame))
  /\ enable' = FALSE
  /\ indicate_seq' = UNSET
  /\ UNCHANGED <<pending, timer, lock, rxcache, rx, th, fr, stopped, tx, hi, Past>>

\* send_delba and rtw_joinbss_update_stainfo: the same two writes from
\* another context, without the lock.  A writer inside the lock may be
\* between reading and writing indicate_seq, and then this write is lost.
SendDelBA ==
  /\ fr = "live"
  /\ enable
  /\ resets < MaxReset
  /\ resets' = resets + 1
  /\ dirty' = (dirty \/ (enable /\ hi # NoFrame))
  /\ enable' = FALSE
  /\ \/ indicate_seq' = UNSET
     \/ lock # "none" /\ UNCHANGED indicate_seq
  /\ UNCHANGED <<pending, timer, lock, rxcache, rx, th, fr, stopped, tx, hi, Past>>

-----------------------------------------------------------------------------
(***************************************************************************)
(* recv_indicatepkt_reorder, in the receive tasklet.                       *)
(***************************************************************************)

\* Reordering is off: the frame is the window start and goes up at once.
RxDirect ==
  /\ rx.pc = "got"
  /\ ~enable
  /\ indicate_seq' = SeqNum(rx.n)
  /\ Deliver(rx.n)
  /\ Accept(rx.n)
  /\ floor' = Larger(floor, rx.n)
  /\ rx' = [rx EXCEPT !.pc = "direct"]
  /\ UNCHANGED <<enable, pending, timer, lock, rxcache, th, fr, stopped, Peer>>

\* ... and the start moves past it, from whatever it is by now.
RxDirectDone ==
  /\ rx.pc = "direct"
  /\ indicate_seq' = (indicate_seq + 1) % Modulus
  /\ rx' = Idle
  /\ UNCHANGED <<enable, pending, timer, lock, rxcache, th, fr, stopped, Past, Peer>>

RxEnabled ==
  /\ rx.pc = "got"
  /\ enable
  /\ rx' = [rx EXCEPT !.pc = "lock"]
  /\ UNCHANGED <<Ctrl, rxcache, th, fr, stopped, Past, Peer>>

\* s2 fails, or s3 finds the number queued already: the caller frees the
\* frame.  The window start has moved all the same.
RxRefuse ==
  /\ rx.pc = "lock"
  /\ lock = "none"
  /\ LET c == CheckIndicateSeq(indicate_seq, SeqNum(rx.n))
     IN  /\ ~c.ok \/ IsDuplicate(rx.n)
         /\ indicate_seq' = c.ind
  /\ rx' = Idle
  /\ UNCHANGED <<enable, pending, timer, lock, rxcache, th, fr, stopped, Past, Peer>>

\* s2 and s3: the frame is queued and the lock kept for s4.
RxQueue ==
  /\ rx.pc = "lock"
  /\ lock = "none"
  /\ LET c == CheckIndicateSeq(indicate_seq, SeqNum(rx.n))
     IN  /\ c.ok
         /\ indicate_seq' = c.ind
  /\ ~IsDuplicate(rx.n)
  /\ Enqueue(rx.n)
  /\ Accept(rx.n)
  /\ floor' = IF indicate_seq = UNSET THEN Larger(floor, rx.n) ELSE floor
  /\ lock' = "rx"
  /\ rx' = [pc |-> "loop", n |-> NoFrame]
  /\ UNCHANGED <<enable, timer, rxcache, th, fr, stopped, out, Peer>>

\* s4: recv_indicatepkts_in_order, not forced.
RxIndicate ==
  /\ rx.pc = "loop"
  /\ IndicateHead
  /\ UNCHANGED <<enable, timer, lock, rxcache, rx, th, fr, stopped, got, floor, Peer>>

\* Mutant: the timer is not set for what stays buffered.
RxBufferedUnarmed ==
  /\ rx.pc = "loop"
  /\ pending # << >>
  /\ ~HeadIsDue
  /\ lock' = "none"
  /\ rx' = Idle
  /\ UNCHANGED <<enable, indicate_seq, pending, timer, rxcache, th, fr, stopped, Past, Peer>>

\* Frames are left in the buffer: the timer is set under the lock.
RxBuffered ==
  /\ rx.pc = "loop"
  /\ pending # << >>
  /\ ~HeadIsDue
  /\ timer' = TRUE
  /\ lock' = "none"
  /\ rx' = Idle
  /\ UNCHANGED <<enable, indicate_seq, pending, rxcache, th, fr, stopped, Past, Peer>>

\* None is left: the lock is dropped first, the timer cancelled after it.
RxEmptied ==
  /\ rx.pc = "loop"
  /\ pending = << >>
  /\ lock' = "none"
  /\ rx' = [rx EXCEPT !.pc = "cancel"]
  /\ UNCHANGED <<enable, indicate_seq, pending, timer, rxcache, th, fr, stopped, Past, Peer>>

\* _cancel_timer_ex is del_timer_sync: it waits for a running handler.
RxCancelTimer ==
  /\ rx.pc = "cancel"
  /\ th = "idle"
  /\ timer' = FALSE
  /\ rx' = Idle
  /\ UNCHANGED <<enable, indicate_seq, pending, lock, rxcache, th, fr, stopped, Past, Peer>>

-----------------------------------------------------------------------------
(***************************************************************************)
(* rtw_reordering_ctrl_timeout_handler.                                    *)
(***************************************************************************)

TimerFires ==
  /\ timer
  /\ th = "idle"
  /\ timer' = FALSE
  /\ th' = IF stopped THEN "idle" ELSE "lock"
  /\ UNCHANGED <<enable, indicate_seq, pending, lock, rxcache, rx, fr, stopped, Past, Peer>>

\* Mutant: the timeout pass is not forced.
TimerLockUnforced ==
  /\ th = "lock"
  /\ lock = "none"
  /\ lock' = "timer"
  /\ th' = "loop"
  /\ UNCHANGED <<enable, indicate_seq, pending, timer, rxcache, rx, fr, stopped, Past, Peer>>

\* A forced pass starts at the head; over an empty queue it returns true,
\* and the timer is set again.
TimerLock ==
  /\ th = "lock"
  /\ lock = "none"
  /\ IF pending = << >>
     THEN /\ timer' = TRUE
          /\ th' = "idle"
          /\ UNCHANGED <<indicate_seq, lock, floor>>
     ELSE /\ indicate_seq' = SeqNum(Head(pending))
          /\ floor' = Larger(floor, Head(pending))
          /\ lock' = "timer"
          /\ th' = "loop"
          /\ UNCHANGED timer
  /\ UNCHANGED <<enable, pending, rxcache, rx, fr, stopped, out, got, Peer>>

TimerIndicate ==
  /\ th = "loop"
  /\ IndicateHead
  /\ UNCHANGED <<enable, timer, lock, rxcache, rx, th, fr, stopped, got, floor, Peer>>

TimerDone ==
  /\ th = "loop"
  /\ ~HeadIsDue
  /\ timer' = (timer \/ pending # << >>)
  /\ lock' = "none"
  /\ th' = "idle"
  /\ UNCHANGED <<enable, indicate_seq, pending, rxcache, rx, fr, stopped, Past, Peer>>

-----------------------------------------------------------------------------
(***************************************************************************)
(* rtw_free_stainfo and rtw_alloc_stainfo.                                 *)
(***************************************************************************)

\* The station leaves the hash list; the receive cache is cleared with the
\* rest of sta_recvpriv.
FreeUnhash ==
  /\ Removal
  /\ fr = "live"
  /\ fr' = "cancel"
  /\ rxcache' = 0
  /\ UNCHANGED <<Ctrl, rx, th, stopped, Past, Peer>>

FreeCancelTimer ==
  /\ fr = "cancel"
  /\ th = "idle"
  /\ timer' = FALSE
  /\ fr' = "drain"
  /\ UNCHANGED <<enable, indicate_seq, pending, lock, rxcache, rx, th, stopped, Past, Peer>>

\* All buffered frames go back to free_recv_queue under the queue lock.
FreeDrain ==
  /\ fr = "drain"
  /\ lock = "none"
  /\ pending' = << >>
  /\ fr' = "release"
  /\ UNCHANGED <<enable, indicate_seq, timer, lock, rxcache, rx, th, stopped, Past, Peer>>

\* The station goes to free_sta_queue.
FreeRelease ==
  /\ fr = "release"
  /\ fr' = "free"
  /\ UNCHANGED <<Ctrl, rxcache, rx, th, stopped, Past, Peer>>

\* rtw_alloc_stainfo takes it again and initialises the queue, its lock and
\* the timer in place, whatever they hold.  Initialising a queued timer
\* leaves it in the kernel's timer wheel, so it may still fire.
AllocStation ==
  /\ fr = "free"
  /\ resets < MaxReset
  /\ resets' = resets + 1
  /\ dirty' = (dirty \/ hi # NoFrame)
  /\ enable' = FALSE
  /\ indicate_seq' = UNSET
  /\ pending' = << >>
  /\ timer' \in {FALSE, timer}
  /\ lock' = "none"
  /\ rxcache' = UNSET
  /\ fr' = "live"
  /\ UNCHANGED <<rx, th, stopped, tx, hi, Past>>

\* bDriverStopped / bSurpriseRemoved is set by the unload and unplug paths.
DriverStop ==
  /\ ~stopped
  /\ stopped' = TRUE
  /\ UNCHANGED <<Ctrl, rxcache, rx, th, fr, Past, Peer>>

-----------------------------------------------------------------------------
Tasklet ==
  \/ \E n \in Frames : Receive(n)
  \/ \E accept \in BOOLEAN : AddBA(accept)
  \/ DelBA
  \/ RxDirect \/ RxDirectDone \/ RxEnabled \/ RxRefuse \/ RxQueue
  \/ RxIndicate \/ RxBuffered \/ RxEmptied \/ RxCancelTimer

Handler == TimerFires \/ TimerLock \/ TimerIndicate \/ TimerDone

Station == FreeUnhash \/ FreeCancelTimer \/ FreeDrain \/ FreeRelease \/ AllocStation

Next ==
  \/ OriginatorAdvance
  \/ Tasklet
  \/ Handler
  \/ SendDelBA
  \/ Station
  \/ DriverStop

Spec == Init /\ [][Next]_vars

\* A tasklet that has started a frame finishes it; a timer that stays queued
\* fires and its handler finishes; a station whose removal began is removed.
RxProgress ==
  \/ RxDirect \/ RxDirectDone \/ RxEnabled \/ RxRefuse \/ RxQueue
  \/ RxIndicate \/ RxBuffered \/ RxEmptied \/ RxCancelTimer
FreeProgress == FreeCancelTimer \/ FreeDrain \/ FreeRelease

FairSpec ==
  /\ Spec
  /\ WF_vars(RxProgress)
  /\ WF_vars(Handler)
  /\ WF_vars(FreeProgress)

-----------------------------------------------------------------------------
(***************************************************************************)
(* Properties.                                                             *)
(***************************************************************************)

\* As long as no session was reset in the middle, frames go up the stack in
\* the order of the originator's numbers and none goes up twice, although
\* the code compares them modulo 4096 only (SN_LESS, check_indicate_seq,
\* recv_indicatepkts_in_order).
InOrder == ~dirty => out.ok

\* A frame that check_indicate_seq or enqueue_reorder_recvframe refuses is
\* refused for a reason: it was accepted before, or it is a whole window
\* behind the newest frame, or the window first opened after it or a timeout
\* has given it up.  No frame that the window still promises is dropped.
RefusedForAReason ==
  (/\ rx.pc = "lock" /\ lock = "none" /\ ~dirty /\ ~stopped
   /\ \/ ~CheckIndicateSeq(indicate_seq, SeqNum(rx.n)).ok
      \/ IsDuplicate(rx.n))
  => \/ rx.n \in got
     \/ rx.n + WSize <= hi
     \/ rx.n < floor

\* Frames are never left in the buffer with nobody to look after them: the
\* timer is queued, its handler runs, the tasklet is inside the lock, or
\* rtw_free_stainfo is about to drain the queue.  The cancel that follows
\* the unlock in recv_indicatepkt_reorder is where this could break.
NoStrandedFrame ==
  pending # << >> =>
    timer \/ th # "idle" \/ rx.pc = "loop" \/ fr = "drain" \/ stopped

\* Once traffic pauses, the timer empties the buffer for good: a gap that is
\* never filled delays frames, it does not hold them (unless the driver is
\* stopped, when rtw_reordering_ctrl_timeout_handler does nothing).
BufferDrains ==
  <>[](rx.pc = "idle") => <>[](pending = << >> \/ stopped)

\* core/rtw_sta_mgt.c:392 says of rtw_free_stainfo: "for A-MPDU Rx reordering
\* buffer control, cancel reordering_ctrl_timer": a station on the free
\* list has no timer queued.
FreedStationIsQuiet == fr = "free" => ~timer
=============================================================================
