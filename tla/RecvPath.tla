----------------------------- MODULE RecvPath ------------------------------
(***************************************************************************)
(* The receive side of the USB interface: hal/usb_ops_linux.c (reading,    *)
(* the end of a read, the receive tasklet), os_dep/usb_ops_linux.c         *)
(* (cancelling) and the stops and starts that os_dep/usb_intf.c and        *)
(* os_dep/os_intfs.c make of it.                                           *)
(*                                                                         *)
(* Each recv_buf reads into an sk_buff.  A read that succeeds puts it on   *)
(* rx_skb_queue, schedules the tasklet if it is the only one there, takes  *)
(* another sk_buff from free_recv_skb_queue (or from the system) and reads *)
(* again; the tasklet takes the frames out and returns the sk_buff to that *)
(* queue.  A suspend sets bDriverStopped and kills the reads, inactive     *)
(* power save only kills them; both start again on the same structures.    *)
(***************************************************************************)
EXTENDS Naturals, Sequences, Functions

CONSTANTS
  NrBuf,        \* NR_RECVBUFF
  NrPrealloc,   \* NR_PREALLOC_RECV_SKB
  NrSkb,        \* bound: the sk_buffs there are
  MaxErr,       \* MAX_CONTINUAL_URB_ERR
  Faults,       \* whether transfers and allocations may fail
  MaxStop       \* bound: suspends and power downs

ASSUME RecvAssumption ==
  /\ {NrBuf, NrPrealloc, NrSkb, MaxErr} \subseteq Nat \ {0} /\ NrPrealloc <= NrSkb
  /\ Faults \in BOOLEAN /\ MaxStop \in Nat

Buf == 1 .. NrBuf
Skb == 1 .. NrSkb
NoSkb == 0

VARIABLES
  buf,       \* of each recv_buf its pskb, its reuse, and where its URB is
  freeq,     \* free_recv_skb_queue, without its order: free sk_buffs are alike
  rxq,       \* rx_skb_queue
  task,      \* the receive tasklet: whether it runs, and its sk_buff
  sched,     \* whether it is scheduled
  stopped,   \* bDriverStopped or bSurpriseRemoved
  cancel,    \* bReadPortCancel
  errs,      \* continual_urb_error
  life,      \* the stop or start under way, and how many buffers it has done
  leaked,    \* sk_buffs nobody refers to any more
  broke,     \* whether the tasklet broke off and left sk_buffs in the queue
  stops      \* counted against its bound

skbs == <<buf, freeq, leaked>>
queue == <<rxq, task, sched, broke>>
state == <<stopped, cancel, errs, life, stops>>
vars == <<skbs, queue, state>>

TaskIdle == [run |-> FALSE, skb |-> NoSkb]
Life(pc, i) == [pc |-> pc, i |-> i]

Init ==
  /\ buf = [b \in Buf |-> [pskb |-> NoSkb, reuse |-> FALSE, urb |-> "idle"]]
  /\ freeq = 1 .. NrPrealloc /\ leaked = {}
  /\ rxq = <<>> /\ task = TaskIdle /\ sched = FALSE /\ broke = FALSE
  /\ stopped = FALSE /\ cancel = FALSE /\ errs = 0
  /\ life = Life("start", 1) /\ stops = 0

Held(b) == {buf[b].pskb} \ {NoSkb}
InUse == freeq \cup Range(rxq) \cup leaked \cup {task.skb} \cup UNION {Held(b) : b \in Buf}
Memory == Skb \ InUse

-----------------------------------------------------------------------------
(* usb_read_port. *)

\* The sk_buff a read uses: the one it has, if it is to be reused, or one that
\* is free, or a new one.  One it has and does not reuse is forgotten.
AnyOf(S) == CHOOSE s \in S : TRUE
NeedsSkb(b) == ~buf[b].reuse \/ buf[b].pskb = NoSkb

\* usb_submit_urb refuses a URB that is being killed; the sk_buff stays.
Killing(b) == life.pc = "wait" /\ life.i = b

Submit(b, skb, reuse) ==
  \E urb \in {"urb", "idle"} :
    /\ urb = "urb" => ~Killing(b)
    /\ urb = "idle" => Killing(b) \/ Faults
    /\ buf' = [buf EXCEPT ![b] = [pskb |-> skb, reuse |-> reuse, urb |-> urb]]

ReadPort(b) ==
  \/ /\ stopped
     /\ buf' = [buf EXCEPT ![b].urb = "idle"]
     /\ UNCHANGED <<freeq, leaked>>
  \/ /\ ~stopped /\ ~NeedsSkb(b)
     /\ Submit(b, buf[b].pskb, FALSE)
     /\ UNCHANGED <<freeq, leaked>>
  \/ /\ ~stopped /\ NeedsSkb(b) /\ freeq # {}
     /\ Submit(b, AnyOf(freeq), FALSE)
     /\ freeq' = freeq \ {AnyOf(freeq)} /\ leaked' = leaked \cup Held(b)
  \/ /\ ~stopped /\ NeedsSkb(b) /\ freeq = {} /\ Memory # {}
     /\ Submit(b, AnyOf(Memory), buf[b].reuse)
     /\ leaked' = leaked \cup Held(b) /\ UNCHANGED freeq
  \/ /\ ~stopped /\ NeedsSkb(b) /\ freeq = {} /\ (Faults \/ Memory = {})
     /\ buf' = [buf EXCEPT ![b].pskb = NoSkb, ![b].urb = "idle"]
     /\ leaked' = leaked \cup Held(b) /\ UNCHANGED freeq

-----------------------------------------------------------------------------
(* usb_read_port_complete, up to rtw_read_port; the host controller's       *)
(* driver ends the transfers of an endpoint one after the other.            *)
Ends(b) == buf[b].urb = "urb" /\ \A c \in Buf : buf[c].urb # "read"

\* The driver has stopped or is cancelling: the sk_buff is kept for later.
CompleteCancelled(b) ==
  /\ Ends(b) /\ (stopped \/ cancel)
  /\ buf' = [buf EXCEPT ![b].reuse = TRUE, ![b].urb = "idle"]
  /\ UNCHANGED <<freeq, leaked, queue, state>>

\* Mutant: the buffer still refers to the sk_buff it has queued.
CompleteRxKeepsSkb(b) ==
  /\ Ends(b) /\ ~stopped /\ ~cancel
  /\ errs' = 0
  /\ rxq' = Append(rxq, buf[b].pskb)
  /\ sched' = (sched \/ Len(rxq') <= 1)
  /\ buf' = [buf EXCEPT ![b].reuse = TRUE, ![b].urb = "read"]
  /\ UNCHANGED <<freeq, leaked, task, broke, stopped, cancel, life, stops>>

\* A transfer with frames.
CompleteRx(b) ==
  /\ Ends(b) /\ ~stopped /\ ~cancel
  /\ errs' = 0
  /\ rxq' = Append(rxq, buf[b].pskb)
  /\ sched' = (sched \/ Len(rxq') <= 1)
  /\ buf' = [buf EXCEPT ![b].pskb = NoSkb, ![b].reuse = FALSE, ![b].urb = "read"]
  /\ UNCHANGED <<freeq, leaked, task, broke, stopped, cancel, life, stops>>

\* Mutant: reuse is not set.
CompleteBadLengthNoReuse(b) ==
  /\ Ends(b) /\ ~stopped /\ ~cancel /\ Faults
  /\ buf' = [buf EXCEPT ![b].urb = "read"]
  /\ UNCHANGED <<freeq, leaked, queue, state>>

\* A transfer of a length that cannot be.
CompleteBadLength(b) ==
  /\ Ends(b) /\ ~stopped /\ ~cancel /\ Faults
  /\ buf' = [buf EXCEPT ![b].reuse = TRUE, ![b].urb = "read"]
  /\ UNCHANGED <<freeq, leaked, queue, state>>

\* A transfer that failed: the sk_buff is forgotten, the error counted, and the
\* driver stopped after too many in a row; then, by its status, the driver
\* stops, the buffer reads again, or it does not.
CompleteFailed(b) ==
  /\ Ends(b) /\ ~stopped /\ ~cancel /\ Faults
  /\ leaked' = leaked \cup Held(b)
  /\ errs' = (IF errs > MaxErr THEN errs ELSE errs + 1)
  /\ \E status \in {"gone", "protocol", "other"} :
       /\ stopped' = (errs + 1 > MaxErr \/ status = "gone")
       /\ IF status = "protocol"
          THEN buf' = [buf EXCEPT ![b] = [pskb |-> NoSkb, reuse |-> TRUE, urb |-> "read"]]
          ELSE buf' = [buf EXCEPT ![b].pskb = NoSkb, ![b].urb = "idle"]
  /\ UNCHANGED <<freeq, queue, cancel, life, stops>>

\* rtw_read_port, at the end of the handler.
ReadAgain(b) == buf[b].urb = "read" /\ ReadPort(b) /\ UNCHANGED <<queue, state>>

-----------------------------------------------------------------------------
(* rtl8188eu_recv_tasklet. *)

TaskStart ==
  /\ sched /\ ~task.run
  /\ sched' = FALSE /\ task' = [run |-> TRUE, skb |-> NoSkb]
  /\ UNCHANGED <<skbs, rxq, broke, state>>

TaskDequeue ==
  /\ task.run /\ task.skb = NoSkb /\ rxq # <<>>
  /\ task' = [task EXCEPT !.skb = Head(rxq)] /\ rxq' = Tail(rxq)
  /\ UNCHANGED <<skbs, sched, broke, state>>

TaskEnd ==
  /\ task.run /\ task.skb = NoSkb /\ rxq = <<>>
  /\ task' = TaskIdle
  /\ broke' = FALSE
  /\ UNCHANGED <<skbs, rxq, sched, state>>

\* The driver has stopped: the sk_buff is freed, and the others are left.
TaskBreak ==
  /\ task.skb # NoSkb /\ stopped
  /\ task' = TaskIdle
  /\ broke' = (rxq # <<>>)
  /\ UNCHANGED <<skbs, rxq, sched, state>>

\* Mutant: the tasklet ends after one sk_buff.
TaskDeliverOne ==
  /\ task.skb # NoSkb /\ ~stopped
  /\ freeq' = freeq \cup {task.skb}
  /\ task' = TaskIdle
  /\ UNCHANGED <<buf, leaked, rxq, sched, broke, state>>

\* recvbuf2recvframe, and the sk_buff is free again.
TaskDeliver ==
  /\ task.skb # NoSkb /\ ~stopped
  /\ freeq' = freeq \cup {task.skb}
  /\ task' = [task EXCEPT !.skb = NoSkb]
  /\ UNCHANGED <<buf, leaked, rxq, sched, broke, state>>

-----------------------------------------------------------------------------
(* Stop and start. *)

\* rtw_dev_unload of a suspend, which stops the driver first, and
\* rtw_ips_dev_unload; then usb_read_port_cancel sets bReadPortCancel.
Unload(suspend) ==
  /\ life.pc = "up" /\ stops < MaxStop
  /\ stops' = stops + 1
  /\ stopped' = (stopped \/ suspend)
  /\ life' = Life("cancel", 1)
  /\ UNCHANGED <<skbs, queue, cancel, errs>>

\* Mutant: the flag is not set.
ReadPortCancelUnset ==
  /\ life.pc = "cancel" /\ life' = Life("mark", 1)
  /\ UNCHANGED <<skbs, queue, stopped, cancel, errs, stops>>

ReadPortCancel ==
  /\ life.pc = "cancel" /\ cancel' = TRUE /\ life' = Life("mark", 1)
  /\ UNCHANGED <<skbs, queue, stopped, errs, stops>>

\* For each buffer: reuse is set, then usb_kill_urb keeps it from being
\* submitted, and waits until its handler is not running.
KillMark ==
  /\ life.pc = "mark"
  /\ buf' = [buf EXCEPT ![life.i].reuse = TRUE]
  /\ life' = [life EXCEPT !.pc = "wait"]
  /\ UNCHANGED <<freeq, leaked, queue, stopped, cancel, errs, stops>>

Killed == life' = IF life.i = NrBuf THEN Life("down", 1) ELSE Life("mark", life.i + 1)

\* Mutant: usb_unlink_urb, which does not wait.
KillWaitNot ==
  /\ life.pc = "wait"
  /\ Killed
  /\ UNCHANGED <<skbs, queue, stopped, cancel, errs, stops>>

KillWait ==
  /\ life.pc = "wait" /\ buf[life.i].urb = "idle"
  /\ Killed
  /\ UNCHANGED <<skbs, queue, stopped, cancel, errs, stops>>

\* rtw_reset_drv_sw and _netdev_open or ips_netdrv_open, up to intf_start.
Open ==
  /\ life.pc = "down"
  /\ cancel' = FALSE /\ stopped' = FALSE
  /\ life' = Life("start", 1)
  /\ UNCHANGED <<skbs, queue, errs, stops>>

\* rtl8188eu_inirp_init reads into each buffer, and gives up at the first that
\* cannot (its result is ignored).
InirpInit ==
  /\ life.pc = "start"
  /\ ReadPort(life.i)
  /\ life' = IF life.i = NrBuf \/ buf'[life.i].urb # "urb" THEN Life("up", 1)
             ELSE Life("start", life.i + 1)
  /\ UNCHANGED <<queue, stopped, cancel, errs, stops>>

Next ==
  \/ \E b \in Buf : \/ CompleteCancelled(b) \/ CompleteRx(b) \/ CompleteBadLength(b)
                    \/ CompleteFailed(b) \/ ReadAgain(b)
  \/ TaskStart \/ TaskDequeue \/ TaskEnd \/ TaskBreak \/ TaskDeliver
  \/ Unload(TRUE) \/ Unload(FALSE) \/ ReadPortCancel \/ KillMark \/ KillWait
  \/ Open \/ InirpInit

Spec == Init /\ [][Next]_vars

\* A tasklet that is scheduled runs, a handler that has begun ends, and a URB
\* that is being killed completes.
FairSpec ==
  /\ Spec
  /\ WF_vars(TaskStart \/ TaskDequeue \/ TaskEnd \/ TaskBreak \/ TaskDeliver)
  /\ \A b \in Buf : WF_vars(ReadAgain(b)) /\ WF_vars(CompleteCancelled(b))
  /\ WF_vars(ReadPortCancel \/ KillMark \/ KillWait)

-----------------------------------------------------------------------------
(* Properties *)

\* Types; a tasklet with an sk_buff in hand runs, and a URB under way has an
\* sk_buff to read into.
TypeOK ==
  /\ buf \in [Buf -> [pskb : Skb \cup {NoSkb}, reuse : BOOLEAN, urb : {"idle", "urb", "read"}]]
  /\ freeq \subseteq Skb /\ rxq \in Seq(Skb) /\ leaked \subseteq Skb
  /\ task \in [run : BOOLEAN, skb : Skb \cup {NoSkb}] /\ (task.skb # NoSkb => task.run)
  /\ sched \in BOOLEAN /\ broke \in BOOLEAN /\ stopped \in BOOLEAN /\ cancel \in BOOLEAN
  /\ errs \in 0 .. MaxErr + 1 /\ stops \in 0 .. MaxStop
  /\ life.pc \in {"start", "up", "cancel", "mark", "wait", "down"} /\ life.i \in Buf
  /\ \A b \in Buf : buf[b].urb = "urb" => buf[b].pskb # NoSkb

(***************************************************************************)
(* pskb and reuse decide in usb_read_port whether a buffer keeps its       *)
(* sk_buff; the queues are shared by handlers, tasklet, stop and start.    *)
(* An sk_buff has one owner at any time: the chip never writes into one    *)
(* that is queued, being parsed, free, or in use by another read.          *)
(***************************************************************************)
OneOwner ==
  /\ IsInjective(rxq)
  /\ \A s \in Skb :
       /\ s \in freeq => s \notin Range(rxq) \cup leaked \cup {task.skb}
       /\ s \in Range(rxq) => s \notin leaked \cup {task.skb}
       /\ s \in leaked => s # task.skb
  /\ \A b \in Buf :
       LET s == buf[b].pskb
       IN s # NoSkb => /\ s \notin freeq \cup Range(rxq) \cup leaked \cup {task.skb}
                       /\ \A c \in Buf \ {b} : buf[c].pskb # s

(***************************************************************************)
(* The tasklet is scheduled only when an sk_buff finds the queue empty, so *)
(* while one is queued the tasklet is scheduled or runs.  The exception is *)
(* a tasklet that found the driver stopped: it breaks off, and leaves what *)
(* is queued.  Nothing purges the queue, so after a resume it is never     *)
(* empty, and the tasklet never scheduled again.                           *)
(***************************************************************************)
RxServed == rxq # <<>> => sched \/ task.run \/ broke

(***************************************************************************)
(* usb_kill_urb waits for the handler, which may be about to read again: a *)
(* start finds no URB under way among those it is about to submit, nor any *)
(* handler at work on one, however the stop raced completions.             *)
(***************************************************************************)
ReadsOnce ==
  /\ life.pc = "down" => \A b \in Buf : buf[b].urb = "idle"
  /\ life.pc = "start" => \A b \in life.i .. NrBuf : buf[b].urb = "idle"

(***************************************************************************)
(* An sk_buff is lost only where a transfer fails (its pskb is cleared and *)
(* never freed), or when a start meets a buffer whose last read was        *)
(* refused.  No read that went well loses one.                             *)
(***************************************************************************)
LeaksKnown ==
  [][leaked' # leaked => life.pc = "start" \/ \E b \in Buf : CompleteFailed(b)]_vars

(***************************************************************************)
(* What is received reaches recvbuf2recvframe, unless the tasklet broke    *)
(* off.                                                                    *)
(***************************************************************************)
SkbDelivered == \A s \in Skb : s \in Range(rxq) ~> (s \notin Range(rxq) \/ broke)

(***************************************************************************)
(* A stop ends: no handler keeps usb_kill_urb waiting by reading again.    *)
(***************************************************************************)
UnloadEnds == life.pc = "cancel" ~> life.pc = "down"

=============================================================================
