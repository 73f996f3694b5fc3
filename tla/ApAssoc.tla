------------------------------ MODULE ApAssoc ------------------------------
(***************************************************************************)
(* Stations of the access point: core/rtw_mlme_ext.c (OnAuth, OnAssocReq,  *)
(* OnDeAuth, OnDisassoc), core/rtw_sta_mgt.c (the station table),          *)
(* core/rtw_ap.c (expiry, removal) and os_dep/ioctl_linux.c (hostapd).     *)
(*                                                                         *)
(* The table is a pool of sta_info structures found by address through a   *)
(* hash.  One that is in use sits in auth_list until its station           *)
(* associates and in asoc_list from then on; both are aged every two       *)
(* seconds.  Three contexts meet: the receive tasklet with the management  *)
(* frames, the command thread with expire_timeout_chk, and the ioctls of   *)
(* hostapd.  The lists have a lock each; the handlers hold neither while   *)
(* they carry a pointer from one to the other, and expire_timeout_chk      *)
(* drops them twice: between unlinking an authenticated station and        *)
(* freeing it, and while it waits for the answers to its null frames.      *)
(*                                                                         *)
(* The structures are never returned to the kernel, so that a stale        *)
(* pointer is well defined until it damages a list.  Nothing is modelled   *)
(* past that point: every action but Stuck needs Sound.                    *)
(***************************************************************************)
EXTENDS Integers, Sequences, SequencesExt, FiniteSets, ListFilter

CONSTANTS
  Addr,        \* the addresses of stations
  Slot,        \* the sta_info structures of the pool
  NoAddr,      \* the address of a structure that is not hashed
  NoSlot,      \* a null pointer, or the head of a list
  MaxAid,      \* max_num_sta
  AuthTo,      \* auth_to and assoc_to, in rounds of expire_timeout_chk
  ExpireTo,    \* expire_to
  MaxTry,      \* keep-alive rounds a station may miss: 3
  Quiet        \* the stations that may go away without a word

ASSUME ApAssocAssumption ==
  /\ IsFiniteSet(Addr) /\ NoAddr \notin Addr
  /\ IsFiniteSet(Slot) /\ NoSlot \notin Slot
  /\ Quiet \subseteq Addr
  /\ {MaxAid, AuthTo, ExpireTo} \subseteq Nat \ {0}
  /\ MaxTry \in Nat

VARIABLES
  sta,          \* the structures
  free,         \* free_sta_queue
  auth_list,    \* stations that are authenticating
  asoc_list,    \* stations that have associated
  asoc_cnt,     \* asoc_list_cnt
  sta_aid,      \* the structure that has each aid
  host,         \* the stations hostapd was last told have joined
  rx,           \* the management frame the receive tasklet is handling
  cmd,          \* expire_timeout_chk
  gone          \* stations that are out of range or switched off

lists == <<auth_list, asoc_list, asoc_cnt>>
vars == <<sta, free, lists, sta_aid, host, rx, cmd, gone>>

Aid == 1 .. MaxAid

\* The bits of pstat->state that are read; AUTH_NULL, AUTH_STATE and ASSOC_STATE
\* are only written.
State == {"AUTH_SUCCESS", "ASSOC_SUCCESS"}
StaInfo == [addr: Addr \cup {NoAddr}, state: SUBSET State, aid: 0 .. MaxAid,
            auth_seq: {0, 2}, expire_to: Nat, tries: 0 .. MaxTry]

\* _rtw_init_stainfo: a structure is all zero when it is allocated.
Blank(a) == [addr |-> a, state |-> {}, aid |-> 0, auth_seq |-> 0, expire_to |-> 0,
             tries |-> 0]

RxIdle == [pc |-> "idle", s |-> NoSlot]
CmdIdle == [pc |-> "idle", s |-> NoSlot, next |-> NoSlot, chk |-> <<>>]

Init ==
  /\ sta = [s \in Slot |-> Blank(NoAddr)]
  /\ free = SetToSeq(Slot)
  /\ auth_list = <<>> /\ asoc_list = <<>> /\ asoc_cnt = 0
  /\ sta_aid = [i \in Aid |-> NoSlot]
  /\ host = {}
  /\ rx = RxIdle /\ cmd = CmdIdle /\ gone = {}

-----------------------------------------------------------------------------
(* The station table. *)

\* rtw_get_stainfo: the structure hashed under an address, if there is one.
Lookup(a) == {s \in Slot : sta[s].addr = a}

Unlinked(list, S) == Pick(list, {i \in DOMAIN list : list[i] \notin S})

HasAid(s) == sta[s].aid > 0 /\ sta_aid[sta[s].aid] = s

\* Mutant: the entry of sta_aid is left behind.
FreeStainfoKeepsEntry(S) ==
  /\ sta' = [s \in Slot |-> IF s \in S THEN Blank(NoAddr) ELSE sta[s]]
  /\ auth_list' = Unlinked(auth_list, S)
  /\ free' = free \o SetToSeq(S)
  /\ UNCHANGED sta_aid

\* rtw_free_stainfo, of one structure or of several in turn.  It is taken out
\* of the hash and of auth_list, but not of asoc_list, which is the caller's
\* work; its aid is given back if sta_aid
\* agrees that it has it.  The rest is cleared at once: nothing but the
\* keep-alive count is read before _rtw_init_stainfo clears it.
FreeStainfo(S) ==
  /\ sta' = [s \in Slot |-> IF s \notin S THEN sta[s]
                           ELSE [Blank(NoAddr) EXCEPT !.tries = IF s \in Range(cmd.chk)
                                                        THEN sta[s].tries ELSE 0]]
  /\ sta_aid' = [i \in Aid |-> IF sta_aid[i] \in S /\ sta[sta_aid[i]].aid = i
                               THEN NoSlot ELSE sta_aid[i]]
  /\ auth_list' = Unlinked(auth_list, S)
  /\ free' = free \o SetToSeq(S)

\* list_del_init on asoc_list with the count beside it, then ap_free_sta:
\* hostapd is told of a station that has its aid, and the structure is freed.
ApFree(S) ==
  /\ asoc_list' = Unlinked(asoc_list, S)
  /\ asoc_cnt' = asoc_cnt - Cardinality(S)
  /\ host' = host \ {sta[s].addr : s \in {r \in S : HasAid(r)}}
  /\ FreeStainfo(S)

-----------------------------------------------------------------------------
(* What a list walk or a list operation relies on. *)

\* A structure is in the free queue or in a list, never in both, and in the
\* free queue once; asoc_list_cnt, by which expire_timeout_chk divides, is the
\* length of its list; and the place at which the walk of auth_list goes on is
\* still in it (list_del_init would have linked it to itself, a walk without end).
Sound ==
  /\ IsInjective(free)
  /\ \A s \in Range(free) : s \notin Range(auth_list) \cup Range(asoc_list)
  /\ asoc_cnt = Len(asoc_list)
  /\ cmd.pc = "auth" => cmd.next \in Range(auth_list) \cup {NoSlot}

-----------------------------------------------------------------------------
(* The receive tasklet. *)

\* An authentication frame: a request of the open system, a request for a
\* challenge, or the right answer to it.  A wrong answer is refused as a request
\* in its place is; a frame refused for its algorithm or by the ACL has no
\* effect, and both are left out.
AuthFrame == {"open", "shared", "answer"}
SeqNo(frame) == IF frame = "answer" THEN 3 ELSE 1

\* Mutant: a station that authenticates again is unlinked but not uncounted.
OnAuthKnownUncounted(a, frame) ==
  \E s \in Lookup(a) :
    /\ asoc_list' = Unlinked(asoc_list, {s})
    /\ rx' = [pc |-> frame, s |-> s]
    /\ UNCHANGED <<sta, free, auth_list, asoc_cnt, sta_aid, host, cmd, gone>>

\* OnAuth up to the lists: a known station leaves asoc_list, without a word to
\* hostapd; an unknown one is given a structure if there is one.
OnAuthKnown(a, frame) ==
  \E s \in Lookup(a) :
    /\ asoc_list' = Unlinked(asoc_list, {s})
    /\ asoc_cnt' = asoc_cnt - (IF s \in Range(asoc_list) THEN 1 ELSE 0)
    /\ rx' = [pc |-> frame, s |-> s]
    /\ UNCHANGED <<sta, free, auth_list, sta_aid, host, cmd, gone>>

OnAuthNew(a, frame) ==
  /\ Lookup(a) = {} /\ free # <<>>
  /\ sta' = [sta EXCEPT ![Head(free)] = Blank(a)]
  /\ free' = Tail(free)
  /\ rx' = [pc |-> frame, s |-> Head(free)]
  /\ UNCHANGED <<lists, sta_aid, host, cmd, gone>>

OnAuth(a) ==
  /\ Sound /\ rx.pc = "idle" /\ a \notin gone
  /\ \E frame \in AuthFrame : OnAuthKnown(a, frame) \/ OnAuthNew(a, frame)

\* Mutant: the time is not set for a station that was known before.
AuthAcceptedUntimed(s, frame) ==
  /\ sta' = [sta EXCEPT ![s].state = @ \cup {"AUTH_SUCCESS"},
                        ![s].expire_to = IF sta[s].aid > 0 THEN @ ELSE AuthTo]
  /\ auth_list' = IF s \in Range(auth_list) THEN auth_list ELSE Append(auth_list, s)
  /\ UNCHANGED <<free, sta_aid>>

\* The rest of a frame that is accepted: an open request and the answer to the
\* challenge authenticate the station, a request for a challenge begins.
AuthAccepted(s, frame) ==
  LET asked == frame = "shared"
  IN /\ sta' = [sta EXCEPT
                 ![s].state = IF asked THEN @ ELSE @ \cup {"AUTH_SUCCESS"},
                 ![s].expire_to = AuthTo,
                 ![s].auth_seq = IF asked /\ "AUTH_SUCCESS" \notin sta[s].state THEN 2 ELSE 0]
     /\ auth_list' = IF s \in Range(auth_list) THEN auth_list ELSE Append(auth_list, s)
     /\ UNCHANGED <<free, sta_aid>>

\* A frame that is out of turn costs the station its structure.
OnAuthEnd ==
  /\ Sound /\ rx.pc \in AuthFrame
  /\ IF SeqNo(rx.pc) = sta[rx.s].auth_seq + 1
     THEN AuthAccepted(rx.s, rx.pc) ELSE FreeStainfo({rx.s})
  /\ rx' = RxIdle
  /\ UNCHANGED <<asoc_list, asoc_cnt, host, cmd, gone>>

\* The first free aid, 0 if there is none.
FreeAid == LET F == {i \in Aid : sta_aid[i] = NoSlot}
           IN IF F = {} THEN 0 ELSE CHOOSE i \in F : \A j \in F : i <= j

\* The states OnAssocReq accepts and what becomes of them; any other is
\* answered with a deauthentication.
MayAssociate(s) == sta[s].state # {}
Associating(s) ==
  sta[s].state \ {IF "AUTH_SUCCESS" \in sta[s].state THEN "AUTH_SUCCESS" ELSE "ASSOC_SUCCESS"}

\* Mutant: the aid is given back but not forgotten.
AssocRefusedKeepsAid(s) ==
  /\ sta' = [sta EXCEPT ![s].state = Associating(s)]
  /\ sta_aid' = [i \in Aid |-> IF sta_aid[i] = s THEN NoSlot ELSE sta_aid[i]]
  /\ UNCHANGED rx

\* OnAssocReqFail, for one of its elements or for want of an aid: the aid is
\* forgotten, and not given back.
AssocRefused(s) ==
  /\ sta' = [sta EXCEPT ![s].state = Associating(s), ![s].aid = 0]
  /\ UNCHANGED <<rx, sta_aid>>

\* An aid is kept or found before the lists are touched.
AssocAccepted(s) ==
  LET aid == IF sta[s].aid > 0 THEN sta[s].aid ELSE FreeAid
  IN /\ aid > 0
     /\ sta' = [sta EXCEPT ![s].state = Associating(s), ![s].aid = aid]
     /\ sta_aid' = IF sta[s].aid > 0 THEN sta_aid ELSE [sta_aid EXCEPT ![aid] = s]
     /\ rx' = [pc |-> "assoc", s |-> s]

\* OnAssocReq, an association or reassociation request.
OnAssocReq(a) ==
  /\ Sound /\ rx.pc = "idle" /\ a \notin gone
  /\ \E s \in Lookup(a) : MayAssociate(s) /\ (AssocRefused(s) \/ AssocAccepted(s))
  /\ UNCHANGED <<free, lists, host, cmd, gone>>

\* The station moves to asoc_list, and hostapd is told.  report_add_sta_event tells it once more, from the command
\* thread, which changes nothing.
OnAssocReqEnd ==
  LET s == rx.s
      joins == s \notin Range(asoc_list)
  IN /\ Sound /\ rx.pc = "assoc"
     /\ auth_list' = Unlinked(auth_list, {s})
     /\ asoc_list' = IF joins THEN Append(asoc_list, s) ELSE asoc_list
     /\ asoc_cnt' = asoc_cnt + (IF joins THEN 1 ELSE 0)
     /\ sta' = [sta EXCEPT ![s].state = @ \cup {"ASSOC_SUCCESS"},
                           ![s].expire_to = IF joins THEN ExpireTo ELSE @]
     /\ host' = IF HasAid(s) THEN host \cup {sta[s].addr} ELSE host
     /\ rx' = RxIdle
     /\ UNCHANGED <<free, sta_aid, cmd, gone>>

\* OnDeAuth and OnDisassoc, and rtw_del_sta of hostapd: an associated station
\* is removed, one that is authenticating is left to age.
RemoveSta(a) ==
  /\ Sound
  /\ \E s \in Lookup(a) : s \in Range(asoc_list) /\ ApFree({s})
  /\ UNCHANGED <<rx, cmd, gone>>

OnDeAuth(a) == rx.pc = "idle" /\ a \notin gone /\ RemoveSta(a)
DelSta(a) == RemoveSta(a)

-----------------------------------------------------------------------------
(* hostapd. *)

\* rtw_sta_flush, under asoc_list_lock from end to end.
StaFlush ==
  /\ Sound /\ asoc_list # <<>>
  /\ ApFree(Range(asoc_list))
  /\ UNCHANGED <<rx, cmd, gone>>

\* rtw_free_all_stainfo frees every structure of the hash and looks at no list.
\* stop_ap_mode flushes asoc_list before, but lets go of its lock in between;
\* rtw_free_assoc_resources does not flush it at all.
FreeAllStainfo ==
  /\ Sound
  /\ \E s \in Slot : sta[s].addr # NoAddr
  /\ FreeStainfo({s \in Slot : sta[s].addr # NoAddr})
  /\ UNCHANGED <<asoc_list, asoc_cnt, host, rx, cmd, gone>>

-----------------------------------------------------------------------------
(* expire_timeout_chk, in the command thread. *)

\* The part of auth_list still to be walked: all of it, or what follows the
\* station that was freed.
ToAge == LET n == Len(auth_list)
             from == IF cmd.pc = "idle" THEN 1
                     ELSE IF cmd.next = NoSlot THEN n + 1
                     ELSE CHOOSE i \in 1 .. n : auth_list[i] = cmd.next
         IN SubSeq(auth_list, from, n)

\* Where in it time runs out in this round.
Expiring == {i \in DOMAIN ToAge : sta[ToAge[i]].expire_to = 1}

Walking == Sound /\ (cmd.pc = "auth" \/ (cmd.pc = "idle" /\ auth_list \o asoc_list # <<>>))

Aged(S) == [s \in Slot |-> IF s \in S /\ sta[s].expire_to > 0
                           THEN [sta[s] EXCEPT !.expire_to = @ - 1] ELSE sta[s]]

\* A station is unlinked, and auth_list_lock dropped to free it.
AuthExpires ==
  /\ Walking /\ Expiring # {}
  /\ LET i == CHOOSE j \in Expiring : \A k \in Expiring : j <= k
     IN /\ sta' = Aged({ToAge[j] : j \in 1 .. i})
        /\ auth_list' = Unlinked(auth_list, {ToAge[i]})
        /\ cmd' = [cmd EXCEPT !.pc = "gap", !.s = ToAge[i],
                              !.next = IF i < Len(ToAge) THEN ToAge[i + 1] ELSE NoSlot]
  /\ UNCHANGED <<free, asoc_list, asoc_cnt, sta_aid, host, rx, gone>>

\* The walk goes on with the station that was next before the lock was dropped.
AuthFree ==
  /\ Sound /\ cmd.pc = "gap"
  /\ FreeStainfo({cmd.s})
  /\ cmd' = [cmd EXCEPT !.pc = "auth", !.s = NoSlot]
  /\ UNCHANGED <<asoc_list, asoc_cnt, host, rx, gone>>

\* The end of that walk and the whole of the next, under asoc_list_lock: a
\* station that sent a data or control frame since the last round (any that is
\* there may have: chk_sta_is_alive) or was left at zero starts anew, and one
\* whose time runs out goes to chk_alive_list.
AsocWalk ==
  /\ Walking /\ Expiring = {}
  /\ \E heard \in SUBSET {s \in Range(asoc_list) : sta[s].addr \notin gone} :
       LET alive(s) == s \in heard \/ sta[s].expire_to = 0
           out(s) == ~alive(s) /\ sta[s].expire_to = 1
           late == Pick(asoc_list, {i \in DOMAIN asoc_list : out(asoc_list[i])})
       IN /\ sta' = [s \in Slot |->
                      IF s \notin Range(asoc_list) THEN Aged(Range(ToAge))[s]
                      ELSE IF alive(s) THEN [sta[s] EXCEPT !.expire_to = ExpireTo, !.tries = 0]
                      ELSE [sta[s] EXCEPT !.expire_to = @ - 1]]
          /\ cmd' = [CmdIdle EXCEPT !.pc = IF late = <<>> THEN "idle" ELSE "alive", !.chk = late]
  /\ UNCHANGED <<free, lists, sta_aid, host, rx, gone>>

\* Mutant: a station that missed a round has no time left, which the next
\* round takes for a sign of life.
KeepAliveZero ==
  LET s == Head(cmd.chk)
  IN /\ Sound /\ cmd.pc = "alive"
     /\ cmd' = [cmd EXCEPT !.chk = Tail(@), !.pc = IF Len(cmd.chk) = 1 THEN "idle" ELSE @]
     /\ IF sta[s].tries < MaxTry
        THEN /\ sta' = [sta EXCEPT ![s].expire_to = 0, ![s].tries = @ + 1]
             /\ UNCHANGED <<free, lists, sta_aid, host>>
        ELSE ApFree({s})
     /\ UNCHANGED <<rx, gone>>

\* A null frame to the structure's address, with no lock held; whatever
\* happened to the structure meanwhile, the verdict is applied to it.
KeepAlive ==
  LET s == Head(cmd.chk)
      next == [cmd EXCEPT !.chk = Tail(@), !.pc = IF Len(cmd.chk) = 1 THEN "idle" ELSE @]
  IN /\ Sound /\ cmd.pc = "alive"
     /\ cmd' = next
     /\ \/ /\ sta[s].addr \notin gone      \* the station acknowledged
           /\ sta' = [sta EXCEPT ![s].expire_to = ExpireTo, ![s].tries = 0]
           /\ UNCHANGED <<free, lists, sta_aid, host>>
        \/ /\ sta[s].tries < MaxTry        \* tried again in the next round
           /\ sta' = [sta EXCEPT ![s].expire_to = 1, ![s].tries = @ + 1]
           /\ UNCHANGED <<free, lists, sta_aid, host>>
        \/ /\ sta[s].tries = MaxTry        \* given up
           /\ ApFree({s})
     /\ UNCHANGED <<rx, gone>>

-----------------------------------------------------------------------------
(* A station goes away without a word. *)
Vanish(a) ==
  /\ Sound /\ a \in Quiet \ gone
  /\ gone' = gone \cup {a}
  /\ UNCHANGED <<sta, free, lists, sta_aid, host, rx, cmd>>

\* A damaged list: nothing is said of what follows.
Stuck == ~Sound /\ UNCHANGED vars

Next ==
  \/ \E a \in Addr : OnAuth(a) \/ OnAssocReq(a) \/ OnDeAuth(a) \/ DelSta(a) \/ Vanish(a)
  \/ OnAuthEnd \/ OnAssocReqEnd
  \/ StaFlush \/ FreeAllStainfo
  \/ AuthExpires \/ AuthFree \/ AsocWalk \/ KeepAlive
  \/ Stuck

Spec == Init /\ [][Next]_vars

\* The tasklet and the command thread finish what they begin, and the dynamic
\* check timer posts expire_timeout_chk for ever.
Fairness ==
  /\ WF_vars(OnAuthEnd \/ OnAssocReqEnd)
  /\ WF_vars(AuthExpires \/ AuthFree \/ AsocWalk \/ KeepAlive)

FairSpec == Spec /\ Fairness

-----------------------------------------------------------------------------
(* Properties. *)

\* Types.
TypeOK ==
  /\ sta \in [Slot -> StaInfo]
  /\ \A list \in {free, auth_list, asoc_list} : Range(list) \subseteq Slot
  /\ asoc_cnt \in Int
  /\ sta_aid \in [Aid -> Slot \cup {NoSlot}]
  /\ host \subseteq Addr /\ gone \subseteq Addr
  /\ rx.pc \in AuthFrame \cup {"idle", "assoc"} /\ rx.s \in Slot \cup {NoSlot}
  /\ cmd.pc \in {"idle", "auth", "gap", "alive"}
  /\ {cmd.s, cmd.next} \cup Range(cmd.chk) \subseteq Slot \cup {NoSlot}

InUse(s) == sta[s].addr # NoAddr

\* No two stations share an aid: a power-saving station's TIM bit, mac_id and
\* key entry are its own, whatever mixture of refused requests, repeated
\* authentications and removals came before.
AidsUnique ==
  \A r, s \in Slot :
    InUse(r) /\ InUse(s) /\ sta[r].aid = sta[s].aid /\ sta[s].aid > 0 => r = s

\* Every structure in use is where aging finds it: in one of the two lists,
\* and in auth_list only with time left, since a station found there at zero
\* is passed over for ever.  Only the handler that carries it, and the expiry
\* about to free it, may have it in neither.
AgingReaches ==
  Sound =>
    \A s \in Slot :
      InUse(s) /\ s \notin {rx.s, cmd.s} =>
        /\ s \in Range(auth_list) <=> s \notin Range(asoc_list)
        /\ s \in Range(auth_list) => sta[s].expire_to > 0

\* hostapd knows of every station in asoc_list that has an aid.
HostKnows ==
  Sound =>
    \A s \in Range(asoc_list) : sta[s].aid > 0 => sta[s].addr \in host

\* A list is damaged only in one of three windows: between an unlock of
\* expire_timeout_chk and its use of what it remembered, in a handler whose
\* station was freed under it, or by rtw_free_all_stainfo while stations are in
\* asoc_list.  Handlers, expiry and ioctls that do not overlap, and an access
\* point that is stopped with its list flushed, keep the lists and the count
\* sound.
SoundUnlessRaced ==
  [][Sound' \/ cmd.pc \in {"gap", "auth", "alive"}
            \/ (rx.pc # "idle" /\ ~InUse(rx.s))
            \/ (asoc_list # <<>> /\ FreeAllStainfo)]_vars

\* A station that goes away without a word does not keep its structure: aging
\* frees it, in whichever list and whatever the handlers did last.
SilentLeaves == \A a \in Quiet : (a \in gone) ~> (Lookup(a) = {} \/ ~Sound)

\* An entry of sta_aid that no search will find free and whose structure has
\* another aid or none.
LostAid(i) == sta_aid[i] # NoSlot /\ sta[sta_aid[i]].aid # i

\* Aids are lost in one way only: OnAssocReqFail refuses a station that has one.
\* Removal, expiry, a repeated authentication, the reuse of a structure and the
\* races between them lose none.
AidsLostByRefusal ==
  [][\A i \in Aid : LostAid(i)' =>
        LostAid(i) \/ \E s \in Slot : sta_aid[i] = s /\ AssocRefused(s)]_vars

\* sta_aid as include/sta_info.h describes it: an entry that is not NULL is the
\* structure that was given this aid.
AidTable == \A i \in Aid : ~LostAid(i)

=============================================================================
