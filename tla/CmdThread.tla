----------------------------- MODULE CmdThread -----------------------------
(***************************************************************************)
(* The command queue and its thread (core/rtw_cmd.c) with the start and    *)
(* stop of the thread (os_dep/os_intfs.c, os_dep/usb_intf.c).              *)
(*                                                                         *)
(* Any context (an ioctl, a timer, the receive tasklet, a command handler) *)
(* hands a command object to rtw_enqueue_cmd, which looks at               *)
(* cmdthd_running and hw_init_completed without a lock, links the object   *)
(* and only then raises cmd_queue_sema.  One thread takes the objects off, *)
(* runs them and frees them.  rtw_dev_unload sets bDriverStopped, wakes    *)
(* the thread and waits on terminate_cmdthread_sema, the semaphore that    *)
(* the start of the thread uses as well.                                   *)
(***************************************************************************)
EXTENDS Naturals, Sequences, FiniteSets

CONSTANTS
  Cmds,     \* the command objects; each is handed in once
  NoCmd,    \* no object
  Always,   \* those that rtw_cmd_filter allows before hw_init_completed
  Disc,     \* the _DisConnect_CMD_ ones
  Sigterm,     \* whether SIGTERM may reach the thread in its sleep
  Interrupts,  \* whether a signal may end the opener's or unloader's wait
  MaxOpen   \* bound: how often the interface is opened

ASSUME CmdThreadAssumption ==
  /\ Always \subseteq Cmds /\ Disc \subseteq Cmds /\ NoCmd \notin Cmds
  /\ IsFiniteSet(Cmds)
  /\ Sigterm \in BOOLEAN /\ Interrupts \in BOOLEAN
  /\ MaxOpen \in Nat

VARIABLES
  queue,    \* cmd_queue
  sem,      \* cmd_queue_sema
  term,     \* terminate_cmdthread_sema
  running,  \* cmdthd_running
  pc,       \* where the thread is
  cur,      \* the command the thread holds
  cmd,      \* where each command object is
  unup,     \* commands linked, their up() still to come
  stopped,  \* bDriverStopped
  removed,  \* bSurpriseRemoved
  hw,       \* hw_init_completed
  life,     \* _netdev_open and rtw_dev_unload
  opens,    \* opens so far
  cut       \* history: a signal has ended the opener's or unloader's wait

vars == <<queue, sem, term, running, pc, cur, cmd, unup, stopped, removed, hw,
          life, opens, cut>>
Flags == <<stopped, removed, hw>>
Life == <<life, opens, cut>>

\* "new", then "passed" the filter, in the "queue", "held" by the thread,
\* "done" (its handler was called), "freed"; "lost": nobody will free it.
CmdState == {"new", "passed", "queue", "held", "done", "freed", "lost"}

TypeOK ==
  /\ queue \in Seq(Cmds)
  /\ sem \in Nat /\ term \in Nat /\ opens \in Nat
  /\ running \in BOOLEAN /\ stopped \in BOOLEAN /\ removed \in BOOLEAN /\ hw \in BOOLEAN
  /\ cut \in BOOLEAN
  /\ pc \in {"none", "start", "down", "next", "take", "held", "post", "leave", "drain"}
  /\ cur \in Cmds \cup {NoCmd}
  /\ cmd \in [Cmds -> CmdState]
  /\ unup \in SUBSET Cmds
  /\ life \in {"closed", "opening", "up", "stopping", "waiting"}

\* rtw_usb_if1_init: the adapter exists, bDriverStopped is set, no thread.
Init ==
  /\ queue = << >> /\ sem = 0 /\ term = 0
  /\ running = FALSE /\ stopped = TRUE /\ removed = FALSE /\ hw = FALSE
  /\ pc = "none" /\ cur = NoCmd
  /\ cmd = [c \in Cmds |-> "new"]
  /\ unup = {}
  /\ life = "closed" /\ opens = 0 /\ cut = FALSE

-----------------------------------------------------------------------------
\* rtw_cmd_filter.
CmdFilter(c) == (hw \/ c \in Always) /\ running

\* rtw_enqueue_cmd, the refusal: rtw_free_cmd_obj.
Refuse(c) ==
  /\ cmd[c] = "new"
  /\ ~CmdFilter(c)
  /\ cmd' = [cmd EXCEPT ![c] = "freed"]
  /\ UNCHANGED <<queue, sem, term, running, pc, cur, unup, Flags, Life>>

Pass(c) ==
  /\ cmd[c] = "new"
  /\ CmdFilter(c)
  /\ cmd' = [cmd EXCEPT ![c] = "passed"]
  /\ UNCHANGED <<queue, sem, term, running, pc, cur, unup, Flags, Life>>

\* _rtw_enqueue_cmd, under the queue lock.
Enqueue(c) ==
  /\ cmd[c] = "passed"
  /\ queue' = Append(queue, c)
  /\ cmd' = [cmd EXCEPT ![c] = "queue"]
  /\ unup' = unup \cup {c}
  /\ UNCHANGED <<sem, term, running, pc, cur, Flags, Life>>

\* Mutant: the caller returns without raising the semaphore.
EnqueueUpForgotten(c) ==
  /\ c \in unup
  /\ unup' = unup \ {c}
  /\ UNCHANGED <<queue, sem, term, running, pc, cur, cmd, Flags, Life>>

\* up(&cmd_queue_sema), after the queue lock is dropped.
EnqueueUp(c) ==
  /\ c \in unup
  /\ unup' = unup \ {c}
  /\ sem' = sem + 1
  /\ UNCHANGED <<queue, term, running, pc, cur, cmd, Flags, Life>>

-----------------------------------------------------------------------------
(***************************************************************************)
(* rtw_cmd_thread.                                                         *)
(***************************************************************************)

ThreadStart ==
  /\ pc = "start"
  /\ running' = TRUE
  /\ term' = term + 1
  /\ pc' = "down"
  /\ UNCHANGED <<queue, sem, cur, cmd, unup, Flags, Life>>

\* Mutant: the thread does not wait for the semaphore.
ThreadDownUnchecked ==
  /\ pc = "down"
  /\ sem' = sem - 1
  /\ pc' = "next"
  /\ UNCHANGED <<queue, term, running, cur, cmd, unup, Flags, Life>>

\* The thread sleeps on cmd_queue_sema.  The test of the stop flags that
\* follows is repeated at _next.
ThreadDown ==
  /\ pc = "down"
  /\ sem > 0
  /\ sem' = sem - 1
  /\ pc' = "next"
  /\ UNCHANGED <<queue, term, running, cur, cmd, unup, Flags, Life>>

\* SIGTERM is allowed in this thread: down_interruptible fails, and the
\* thread leaves its loop.
ThreadSignal ==
  /\ Sigterm
  /\ pc = "down"
  /\ pc' = "leave"
  /\ UNCHANGED <<queue, sem, term, running, cur, cmd, unup, Flags, Life>>

ThreadNext ==
  /\ pc = "next"
  /\ pc' = IF stopped \/ removed THEN "leave" ELSE "take"
  /\ UNCHANGED <<queue, sem, term, running, cur, cmd, unup, Flags, Life>>

\* Mutant: the object stays linked while it is run.
ThreadTakePeek ==
  /\ pc = "take"
  /\ queue # << >>
  /\ cur' = Head(queue)
  /\ cmd' = [cmd EXCEPT ![Head(queue)] = "held"]
  /\ pc' = "held"
  /\ UNCHANGED <<queue, sem, term, running, unup, Flags, Life>>

\* rtw_dequeue_cmd finds an object ...
ThreadTake ==
  /\ pc = "take"
  /\ queue # << >>
  /\ queue' = Tail(queue)
  /\ cur' = Head(queue)
  /\ cmd' = [cmd EXCEPT ![Head(queue)] = "held"]
  /\ pc' = "held"
  /\ UNCHANGED <<sem, term, running, unup, Flags, Life>>

\* ... or none: back to sleep.
ThreadNone ==
  /\ pc = "take"
  /\ queue = << >>
  /\ pc' = "down"
  /\ UNCHANGED <<queue, sem, term, running, cur, cmd, unup, Flags, Life>>

\* The handler wlancmds[cmdcode].h2cfuns, unless rtw_cmd_filter drops it now.
ThreadRun ==
  /\ pc = "held"
  /\ cmd' = IF CmdFilter(cur) THEN [cmd EXCEPT ![cur] = "done"] ELSE cmd
  /\ pc' = "post"
  /\ UNCHANGED <<queue, sem, term, running, cur, unup, Flags, Life>>

\* Mutant: every callback returns early when its command was dropped.
CallbackLeavesDropped(c) == IF cmd[c] = "held" THEN "lost" ELSE "freed"

\* rtw_disassoc_cmd_callback returns before rtw_free_cmd_obj when its command
\* was dropped.
CallbackLeaves(c) == IF cmd[c] = "held" /\ c \in Disc THEN "lost" ELSE "freed"

\* post_process: the callback, or rtw_free_cmd_obj.
ThreadPost ==
  /\ pc = "post"
  /\ cmd' = [cmd EXCEPT ![cur] = CallbackLeaves(cur)]
  /\ cur' = NoCmd
  /\ pc' = "next"
  /\ UNCHANGED <<queue, sem, term, running, unup, Flags, Life>>

ThreadLeave ==
  /\ pc = "leave"
  /\ running' = FALSE
  /\ pc' = "drain"
  /\ UNCHANGED <<queue, sem, term, cur, cmd, unup, Flags, Life>>

\* "free all cmd_obj resources"
ThreadDrain ==
  /\ pc = "drain"
  /\ queue # << >>
  /\ queue' = Tail(queue)
  /\ cmd' = [cmd EXCEPT ![Head(queue)] = "freed"]
  /\ UNCHANGED <<sem, term, running, pc, cur, unup, Flags, Life>>

\* Mutant: the thread leaves without raising terminate_cmdthread_sema.
ThreadExitSilent ==
  /\ pc = "drain"
  /\ queue = << >>
  /\ pc' = "none"
  /\ UNCHANGED <<queue, sem, term, running, cur, cmd, unup, Flags, Life>>

ThreadExit ==
  /\ pc = "drain"
  /\ queue = << >>
  /\ term' = term + 1
  /\ pc' = "none"
  /\ UNCHANGED <<queue, sem, running, cur, cmd, unup, Flags, Life>>

-----------------------------------------------------------------------------
(***************************************************************************)
(* _netdev_open, rtw_dev_unload, and what sets the flags.                  *)
(***************************************************************************)

\* The stop flags are cleared; rtw_hal_init fails: nothing is started.
OpenFails ==
  /\ life = "closed" /\ opens < MaxOpen
  /\ opens' = opens + 1
  /\ stopped' = FALSE /\ removed' = FALSE
  /\ hw' = FALSE
  /\ UNCHANGED <<queue, sem, term, running, pc, cur, cmd, unup, life, cut>>

\* rtw_hal_init, then rtw_start_drv_threads runs the thread.  (A second thread
\* beside one that an interrupted unload left behind is not modelled.)
Open ==
  /\ life = "closed" /\ opens < MaxOpen
  /\ pc = "none"
  /\ opens' = opens + 1
  /\ stopped' = FALSE /\ removed' = FALSE
  /\ hw' = TRUE
  /\ pc' = "start"
  /\ life' = "opening"
  /\ UNCHANGED <<queue, sem, term, running, cur, cmd, unup, cut>>

\* Mutant: the opener does not wait for the thread to run.
OpenedAtOnce ==
  /\ life = "opening"
  /\ life' = "up"
  /\ UNCHANGED <<queue, sem, term, running, pc, cur, cmd, unup, Flags, opens, cut>>

\* "wait for cmd_thread to run"; bup is set.
Opened ==
  /\ life = "opening"
  /\ term > 0
  /\ term' = term - 1
  /\ life' = "up"
  /\ UNCHANGED <<queue, sem, running, pc, cur, cmd, unup, Flags, opens, cut>>

\* rtw_dev_unload: bDriverStopped, and later rtw_stop_drv_threads.
Unload ==
  /\ life = "up"
  /\ stopped' = TRUE
  /\ life' = "stopping"
  /\ UNCHANGED <<queue, sem, term, running, pc, cur, cmd, unup, removed, hw, opens, cut>>

StopThreads ==
  /\ life = "stopping"
  /\ sem' = sem + 1
  /\ life' = "waiting"
  /\ UNCHANGED <<queue, term, running, pc, cur, cmd, unup, Flags, opens, cut>>

\* What follows the wait: rtw_hal_deinit, unless the device is gone, and bup
\* is cleared.
UnloadRest ==
  /\ hw' = (hw /\ removed)
  /\ removed' = TRUE
  /\ life' = "closed"

Unloaded ==
  /\ life = "waiting"
  /\ term > 0
  /\ term' = term - 1
  /\ UnloadRest
  /\ UNCHANGED <<queue, sem, running, pc, cur, cmd, unup, stopped, opens, cut>>

\* Both waits are down_interruptible and their result is not looked at: a
\* signal ends them and the caller goes on.
WaitInterrupted ==
  /\ Interrupts
  /\ \/ life = "opening" /\ life' = "up" /\ UNCHANGED <<hw, removed>>
     \/ life = "waiting" /\ UnloadRest
  /\ cut' = TRUE
  /\ UNCHANGED <<queue, sem, term, running, pc, cur, cmd, unup, stopped, opens>>

\* A USB error or the disconnect sets bSurpriseRemoved at any time.
Unplug ==
  /\ life # "closed"
  /\ ~removed
  /\ removed' = TRUE
  /\ UNCHANGED <<queue, sem, term, running, pc, cur, cmd, unup, stopped, hw, Life>>

\* Inactive power save: rtw_ips_dev_unload calls rtw_hal_deinit unless the
\* device is gone, and does so for an unload that waits when the thread is in
\* the handler that asked for it.
IpsOff ==
  /\ hw
  /\ life = "up" \/ (life \in {"stopping", "waiting"} /\ pc = "held")
  /\ hw' = removed
  /\ UNCHANGED <<queue, sem, term, running, pc, cur, cmd, unup, stopped, removed, Life>>

\* ips_netdrv_open clears the stop flags, also those that a URB error has just
\* set, and calls rtw_hal_init, which may fail.
IpsOn ==
  /\ ~hw
  /\ life = "up"
  /\ stopped' = FALSE /\ removed' = FALSE
  /\ hw' \in BOOLEAN
  /\ UNCHANGED <<queue, sem, term, running, pc, cur, cmd, unup, Life>>

-----------------------------------------------------------------------------
Caller(c) == Refuse(c) \/ Pass(c) \/ Enqueue(c) \/ EnqueueUp(c)

Thread ==
  \/ ThreadStart \/ ThreadDown \/ ThreadNext \/ ThreadTake
  \/ ThreadNone \/ ThreadRun \/ ThreadPost \/ ThreadLeave \/ ThreadDrain
  \/ ThreadExit

Lifecycle ==
  OpenFails \/ Open \/ Opened \/ Unload \/ StopThreads \/ Unloaded
  \/ WaitInterrupted \/ Unplug \/ IpsOff \/ IpsOn

Next == (\E c \in Cmds : Caller(c)) \/ Thread \/ ThreadSignal \/ Lifecycle

Spec == Init /\ [][Next]_vars

\* A runnable thread runs; a caller inside rtw_enqueue_cmd returns; an open or
\* unload in progress goes on.  Nothing forces a close: URB errors set
\* bSurpriseRemoved also on a device that is never disconnected.
FairSpec ==
  /\ Spec
  /\ WF_vars(Thread)
  /\ \A c \in Cmds : WF_vars(Enqueue(c) \/ EnqueueUp(c))
  /\ WF_vars(Opened \/ StopThreads \/ Unloaded)

-----------------------------------------------------------------------------
Objects(s) == {s[i] : i \in DOMAIN s}

\* A command object has one owner: it is linked exactly while its state says
\* so, once, and the object the thread works on is neither linked nor freed.
\* (A second owner is a double kfree in rtw_free_cmd_obj.)
OneOwner ==
  /\ \A c \in Cmds : cmd[c] = "queue" <=> c \in Objects(queue)
  /\ \A i, j \in DOMAIN queue : queue[i] = queue[j] => i = j
  /\ cur # NoCmd => cmd[cur] \in {"held", "done"}

\* No wakeup is lost: a thread that sleeps on cmd_queue_sema with nothing to
\* wake it has an empty queue, or the caller is about to raise it, although
\* the thread takes several objects per wakeup and the count runs ahead.
NoLostWakeup ==
  (pc = "down" /\ queue # << >> /\ sem = 0) => \E c \in Objects(queue) : c \in unup

\* When rtw_dev_unload has returned, the thread is gone: no handler runs on
\* an adapter that is being freed.  (Start and stop share one semaphore; a
\* count left over by either would end the other's wait early.)  Once a signal
\* has cut one of the waits short this is lost.
NoThreadAfterUnload == life = "closed" /\ ~cut => pc = "none" /\ term = 0

\* A command that was queued is run or dropped, and freed, however the stop
\* flags flicker, or the thread has left; the one object that nobody frees is
\* that of a disconnect dropped by the thread's own rtw_cmd_filter.
CommandsAreServed ==
  \A c \in Cmds : cmd[c] = "queue" ~>
    (cmd[c] = "freed" \/ (c \in Disc /\ cmd[c] = "lost") \/ pc = "none")

\* rtw_stop_drv_threads returns.
UnloadReturns == (life = "stopping") ~> (life = "closed")

\* core/rtw_cmd.c:374, at the end of rtw_cmd_thread, says "free all cmd_obj
\* resources": with the interface closed, no command object is left behind.
AllResourcesFreed ==
  (life = "closed" /\ pc = "none") => \A c \in Cmds : cmd[c] # "queue"

=============================================================================
