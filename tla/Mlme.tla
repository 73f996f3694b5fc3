-------------------------------- MODULE Mlme --------------------------------
(***************************************************************************)
(* Scanning, joining and roaming in station mode: the requests of the user *)
(* (core/rtw_ioctl_set.c), the link state they share with the timers and   *)
(* the event callbacks (core/rtw_mlme.c), the command thread's handlers    *)
(* and the authentication and association with the access point           *)
(* (core/rtw_mlme_ext.c).                                                  *)
(*                                                                         *)
(* Two state machines follow one link.  fw_state in struct mlme_priv is    *)
(* what the user sees and is changed under pmlmepriv->lock; pmlmeinfo->    *)
(* state is the exchange with the access point and is changed without a    *)
(* lock by the receive tasklet, link_timer and the command thread.  The    *)
(* first reaches the second through the command queue, the second the      *)
(* first through rtw_joinbss_event_prehandle and through events that go    *)
(* through the same queue.                                                 *)
(*                                                                         *)
(* The chip is powered all the time, so that rtw_cmd_filter drops no       *)
(* command.                                                                *)
(*                                                                         *)
(* An SSID is the set of the BSSs that announce it, so a BSS belongs to    *)
(* the ESS of an SSID when it is an element of it.                         *)
(***************************************************************************)
EXTENDS Naturals, Sequences, FiniteSets

CONSTANTS
  Bss,           \* the networks in the air
  Ssid,          \* the SSIDs the user asks for, each the set of its BSSs
  NoBss, NoSsid, \* no BSSID; the empty SSID, which any network matches
  Dot1x,         \* whether the security settings are those of 802.1X
  NoMem,         \* whether an allocation of a command or an event may fail
  MaxRoaming,    \* registrypriv.max_roaming_times
  Limit,         \* REAUTH_LIMIT and REASSOC_LIMIT
  Channels,      \* channels of a survey
  MaxRequest,    \* bound: requests of the user
  MaxLoss        \* bound: links the access point ends

ASSUME MlmeAssumption ==
  /\ IsFiniteSet(Bss) /\ NoBss \notin Bss
  /\ Ssid \subseteq SUBSET Bss /\ NoSsid \notin Ssid
  /\ \A b \in Bss : \E e \in Ssid : b \in e /\ \A d \in Ssid : b \in d => d = e
  /\ Dot1x \in BOOLEAN /\ NoMem \in BOOLEAN
  /\ MaxRoaming \in Nat /\ Limit \in Nat /\ Channels \in Nat /\ MaxRequest \in Nat
  /\ MaxLoss \in Nat

VARIABLES
  m,          \* struct mlme_priv and the command queue, under pmlmepriv->lock
  lock,       \* pmlmepriv->lock is held across steps
  ext,        \* struct mlme_ext_info: the exchange with the access point
  hw,         \* the BSSID register of the chip
  scan,       \* sitesurvey_res
  linktimer,  \* link_timer pending
  surveytimer, \* survey_timer pending
  joinfires,  \* assoc_timer has expired, its handler has not the lock yet
  scanfires,  \* scan_to_timer has expired, its handler has not the lock yet
  user,       \* where rtw_set_802_11_bssid_list_scan is
  rx,         \* where the receive tasklet is
  lt,         \* where link_timer_hdl is
  th,         \* where the command thread is
  requests,   \* requests so far
  losses      \* links the access point has ended so far

timers == <<linktimer, surveytimer, joinfires, scanfires>>
vars == <<m, lock, ext, hw, scan, timers, user, rx, lt, th, requests, losses>>

Flag == {"sta", "authnull", "auth", "authok", "assoc", "done"}
Linking == {"authnull", "auth", "authok", "assoc"}   \* WIFI_FW_LINKING_STATE

Command ==
  [c : {"survey", "join", "disc", "sawbss", "surveydone", "joinres", "delsta"},
   b : Bss \cup {NoBss}, f : BOOLEAN]
Cmd(c) == [c |-> c, b |-> NoBss, f |-> FALSE]
CmdOf(c, b, f) == [c |-> c, b |-> b, f |-> f]

\* A result of a join (f: success) on its way: "pre" before the lock, "ref" the
\* same for an association refused, "sync" in del_timer_sync with the lock held,
\* "enq" before the event.
Report == [at : {"pre", "ref", "sync", "enq"}, b : Bss \cup {NoBss}, f : BOOLEAN]
Idle == [at |-> "idle", b |-> NoBss, f |-> FALSE]
Failed(b) == [at |-> "pre", b |-> b, f |-> FALSE]

Mlme ==
  [linked : BOOLEAN, linking : BOOLEAN, survey : BOOLEAN,
   to_join : BOOLEAN, to_roaming : 0..MaxRoaming,
   ssid : Ssid \cup {NoSsid}, bssid : Bss \cup {NoBss},
   cur : Bss \cup {NoBss}, sec_bss : Bss \cup {NoBss},
   scanned : SUBSET Bss, fixed : SUBSET Bss, sta : SUBSET Bss,
   assoc_timer : BOOLEAN, scan_timer : BOOLEAN, carrier : BOOLEAN,
   q : Seq(Command)]

\* Types; and a network is kept from aging only while it is in the scanned
\* queue (fixed, see rtw_free_assoc_resources and rtw_free_network_queue).
TypeOK ==
  /\ m \in Mlme
  /\ m.fixed \subseteq m.scanned
  /\ lock \in BOOLEAN
  /\ ext \in [st : SUBSET Flag, bss : Bss \cup {NoBss}, cnt : 0..Limit]
  /\ hw \in Bss \cup {NoBss}
  /\ scan \in [st : {"disable", "txnull", "process"}, idx : 0..Channels]
  /\ linktimer \in BOOLEAN /\ surveytimer \in BOOLEAN
  /\ joinfires \in BOOLEAN /\ scanfires \in BOOLEAN
  /\ user \in {"idle", "scan"}
  /\ rx \in Report \cup {Idle} \cup
            [at : {"beacon", "auth", "assoc"}, b : Bss, f : {FALSE}]
  /\ lt \in Report \cup {Idle}
  /\ th \in [at : {"idle", "cancel", "join", "del"},
             b : Bss \cup {NoBss}, f : BOOLEAN]
  /\ requests \in 0..MaxRequest /\ losses \in 0..MaxLoss

\* The interface is up in station mode and nothing was asked for.
Init ==
  /\ m = [linked |-> FALSE, linking |-> FALSE, survey |-> FALSE,
          to_join |-> FALSE, to_roaming |-> 0, ssid |-> NoSsid, bssid |-> NoBss,
          cur |-> NoBss, sec_bss |-> NoBss, scanned |-> {}, fixed |-> {}, sta |-> {},
          assoc_timer |-> FALSE, scan_timer |-> FALSE, carrier |-> FALSE, q |-> <<>>]
  /\ lock = FALSE
  /\ ext = [st |-> {}, bss |-> NoBss, cnt |-> 0]
  /\ hw = NoBss
  /\ scan = [st |-> "disable", idx |-> 0]
  /\ linktimer = FALSE /\ surveytimer = FALSE
  /\ joinfires = FALSE /\ scanfires = FALSE
  /\ user = "idle" /\ rx = Idle /\ lt = Idle /\ th = Idle
  /\ requests = 0 /\ losses = 0

-----------------------------------------------------------------------------
(* The functions of core/rtw_mlme.c that change struct mlme_priv.  Where   *)
(* they choose or may fail, the operator is the set of what may result.    *)

Enqueue(s, c) == [s EXCEPT !.q = Append(@, c)]

\* A command or an event whose memory is allocated first.  Nobody is told when
\* that fails.
Posted(s, c) == {Enqueue(s, c)} \cup (IF NoMem THEN {s} ELSE {})

rtw_set_roaming(s, n) == [s EXCEPT !.to_join = @ /\ n # 0, !.to_roaming = n]

\* rtw_indicate_connect; the system is told when the link is new.
rtw_indicate_connect(s) ==
  [s EXCEPT !.to_join = FALSE, !.to_roaming = 0, !.linked = TRUE,
            !.carrier = @ \/ ~s.linked]

\* rtw_reset_securitypriv, which clears sec_bss, the buffer of a join command
\* that may still be queued.
rtw_reset_securitypriv(s) == [s EXCEPT !.sec_bss = IF Dot1x THEN NoBss ELSE @]

\* rtw_indicate_disconnect: a link that is being replaced by roaming is not
\* reported to the system.
rtw_indicate_disconnect(s) ==
  LET t == [s EXCEPT !.linking = FALSE, !.linked = FALSE]
  IN  IF s.to_roaming > 0 THEN t
      ELSE rtw_reset_securitypriv([t EXCEPT !.carrier = FALSE])

rtw_free_assoc_resources(s) ==
  [s EXCEPT !.sta = @ \ {s.cur}, !.fixed = @ \ {s.cur}]

\* What tears a link down before another join; whether rtw_disassoc_cmd found
\* memory is not looked at.
Disassociated(s) ==
  {rtw_free_assoc_resources(rtw_indicate_disconnect(t)) : t \in Posted(s, Cmd("disc"))}

\* rtw_sitesurvey_cmd: networks that were not seen for a while are forgotten.
rtw_sitesurvey_cmd(s) ==
  {[s EXCEPT !.survey = TRUE, !.scan_timer = TRUE,
             !.scanned = s.fixed \cup k, !.q = Append(@, Cmd("survey"))]
     : k \in SUBSET (s.scanned \ s.fixed)}

SsidOf(b) == CHOOSE e \in Ssid : b \in e

\* is_same_ess.
SameEss(b, c) == SsidOf(b) = SsidOf(c)

\* rtw_check_join_candidate.  While roaming a network counts only if it was
\* seen in the last two seconds.
Candidates(s) ==
  {b \in s.scanned :
     /\ s.bssid \in {NoBss, b}
     /\ s.ssid # NoSsid => b \in s.ssid
     /\ s.to_roaming > 0 => SameEss(b, s.cur)}

Ok(s) == [ok |-> TRUE, m |-> s]
Fail(s) == [ok |-> FALSE, m |-> s]

\* rtw_joinbss_cmd, whose parameter is securitypriv.sec_bss itself.
rtw_joinbss_cmd(s, b) == Enqueue([s EXCEPT !.sec_bss = b], Cmd("join"))

rtw_select_and_join_from_scanned_queue(s) ==
  LET torn == IF s.linked THEN Disassociated(s) ELSE {s}
      c == Candidates(s)
  IN  {Ok(rtw_joinbss_cmd(t, b)) : t \in torn, b \in c}
        \cup (IF c # {} /\ NoMem THEN {Fail(t) : t \in torn} ELSE {})
        \cup (IF c = {} \/ s.to_roaming > 0 THEN {Fail(s)} ELSE {})

\* The site survey of rtw_do_join, when no network is there to join.  With
\* busy traffic there is none, unless the station is roaming.
SurveyFirst(s) ==
  LET t == [s EXCEPT !.linking = FALSE]
  IN  {Ok(u) : u \in rtw_sitesurvey_cmd(t)}
        \cup (IF NoMem \/ s.to_roaming = 0
              THEN {Fail([t EXCEPT !.to_join = FALSE])} ELSE {})

\* Mutant: assoc_timer is not set.
DoJoinUntimed(s) ==
  LET t == [s EXCEPT !.linking = TRUE, !.to_join = TRUE]
      tries == rtw_select_and_join_from_scanned_queue(t)
  IN  IF s.scanned = {} THEN SurveyFirst(t)
      ELSE {Ok([r.m EXCEPT !.to_join = FALSE]) : r \in {x \in tries : x.ok}}
           \cup UNION {SurveyFirst(r.m) : r \in {x \in tries : ~x.ok}}

\* rtw_do_join.
rtw_do_join(s) ==
  LET t == [s EXCEPT !.linking = TRUE, !.to_join = TRUE]
      tries == rtw_select_and_join_from_scanned_queue(t)
  IN  IF s.scanned = {} THEN SurveyFirst(t)
      ELSE {Ok([r.m EXCEPT !.to_join = FALSE, !.assoc_timer = TRUE])
              : r \in {x \in tries : x.ok}}
           \cup UNION {SurveyFirst(r.m) : r \in {x \in tries : ~x.ok}}

\* The loops of rtw_roaming and _rtw_join_timeout_handler: each attempt that
\* fails costs one of to_roaming, and the last one the link.  The first is
\* made with n left.
Roams(s, n) ==
  LET tries == IF NoMem THEN 1..n ELSE {n} \ {0}
  IN  (UNION {{r.m : r \in {x \in rtw_do_join([s EXCEPT !.to_roaming = k]) : x.ok}}
                : k \in tries})
        \cup (IF n = 0 \/ NoMem
              THEN {rtw_indicate_disconnect([s EXCEPT !.to_roaming = 0,
                                                      !.to_join = @ /\ n = 0])}
              ELSE {})

\* _rtw_roaming, for the network the link was lost to.
rtw_roaming(s) ==
  IF s.to_roaming = 0 THEN {s}
  ELSE Roams([s EXCEPT !.ssid = SsidOf(s.cur), !.bssid = NoBss], s.to_roaming)

-----------------------------------------------------------------------------
(* The user: one request at a time, the ioctls hold the rtnl lock.         *)

Asks ==
  /\ requests < MaxRequest /\ requests' = requests + 1 /\ losses' = losses
  /\ user = "idle"

\* The common part of rtw_set_802_11_ssid and rtw_set_802_11_bssid: what is
\* asked for replaces the link unless it is the same, and countermeasures
\* against TKIP attacks may refuse it after that.  s has what is asked for.
SetTarget(s, same) ==
  LET torn == IF ~m.survey /\ m.linked /\ ~same THEN Disassociated(m) ELSE {m}
      Asked(t) == [t EXCEPT !.ssid = s.ssid, !.bssid = s.bssid]
  IN  \/ m.linking /\ ~m.survey /\ m' = m
      \/ /\ m.survey \/ ~m.linking
         /\ \E t \in torn :
              \/ m' = t
              \/ m.survey /\ m' = [Asked(t) EXCEPT !.to_join = TRUE]
              \/ ~m.survey /\ \E r \in rtw_do_join(Asked(t)) : m' = r.m

\* rtw_set_802_11_ssid.
SetSsid(x) ==
  /\ Asks /\ ~lock
  /\ SetTarget([ssid |-> x, bssid |-> NoBss], m.ssid = x)
  /\ UNCHANGED <<lock, ext, hw, scan, timers, user, rx, lt, th>>

\* rtw_set_802_11_bssid.
SetBssid(b) ==
  /\ Asks /\ ~lock
  /\ SetTarget([ssid |-> m.ssid, bssid |-> b], m.cur = b)
  /\ UNCHANGED <<lock, ext, hw, scan, timers, user, rx, lt, th>>

\* rtw_set_802_11_disassociate.
Disassociate ==
  /\ Asks /\ ~lock
  /\ m.linked
  /\ m' \in Disassociated(m)
  /\ UNCHANGED <<lock, ext, hw, scan, timers, user, rx, lt, th>>

\* rtw_set_802_11_bssid_list_scan looks at fw_state without the lock ...
ScanChecks ==
  /\ Asks
  /\ ~m.survey /\ ~m.linking
  /\ user' = "scan"
  /\ UNCHANGED <<m, lock, ext, hw, scan, timers, rx, lt, th>>

\* ... and takes it to start the survey.
ScanStarts ==
  /\ user = "scan" /\ ~lock
  /\ user' = "idle"
  /\ m' \in rtw_sitesurvey_cmd(m) \cup (IF NoMem THEN {m} ELSE {})
  /\ UNCHANGED <<lock, ext, hw, scan, timers, rx, lt, th, requests, losses>>

-----------------------------------------------------------------------------
(* rtw_joinbss_event_prehandle, called by report_join_res in the receive   *)
(* tasklet and in link_timer_hdl.                                          *)

\* The network of the answer, its sta_info and fw_state: _FW_UNDER_LINKING is
\* cleared with all other bits, _FW_UNDER_SURVEY included.
Joined(s, b) ==
  LET old == IF s.linked /\ s.cur = b THEN s
             ELSE IF s.linked THEN [s EXCEPT !.fixed = (@ \ {s.cur}) \cup {b},
                                             !.sta = @ \ {s.cur}]
             ELSE [s EXCEPT !.fixed = @ \cup {b}]
  IN  rtw_indicate_connect(
        [old EXCEPT !.cur = b, !.sta = @ \cup {b},
                    !.linked = FALSE, !.linking = FALSE, !.survey = FALSE])

\* p is the report: the receive tasklet's or link_timer_hdl's.
PrehandleFails(p) ==
  LET s == IF p.at = "ref" THEN rtw_reset_securitypriv(m) ELSE m
  IN  /\ p.at \in {"pre", "ref"} /\ ~p.f /\ ~lock
      /\ m' = [s EXCEPT !.assoc_timer = TRUE, !.linking = FALSE]

\* Nobody waits for this answer, or its network is gone from the queue.
PrehandleIgnores(p) ==
  /\ p.at = "pre" /\ p.f /\ ~lock
  /\ ~m.linking \/ p.b \notin m.scanned
  /\ m' = IF m.linking /\ m.linked /\ m.cur # p.b
          THEN [m EXCEPT !.fixed = @ \ {m.cur}, !.sta = @ \ {m.cur}] ELSE m

PrehandleJoins(p) ==
  /\ p.at = "pre" /\ p.f /\ ~lock
  /\ m.linking /\ p.b \in m.scanned
  /\ m' = Joined(m, p.b)

\* report_join_res begins: without memory for the event it does nothing.
Reported(p) == {p} \cup (IF NoMem THEN {Idle} ELSE {})

\* It ends: the event is put in the queue.
EventQueued(p) ==
  /\ p.at = "enq"
  /\ m' = Enqueue(m, CmdOf("joinres", p.b, p.f))

-----------------------------------------------------------------------------
(* The receive tasklet.  The test of pmlmeinfo->state and what follows     *)
(* from it are two steps: the command thread and link_timer run between.   *)

Sees(at, tests) ==
  /\ rx = Idle
  /\ tests
  /\ rx' = [at |-> at, b |-> ext.bss, f |-> FALSE]
  /\ UNCHANGED <<m, lock, ext, hw, scan, timers, user, lt, th, requests, losses>>

\* OnBeacon and OnProbeRsp during a survey: report_survey_event.  A network
\* that is known, or reported already, is not followed.
SeesBss(b) ==
  /\ rx = Idle
  /\ scan.st = "process"
  /\ b \notin m.scanned /\ \A i \in DOMAIN m.q : m.q[i] # CmdOf("sawbss", b, FALSE)
  /\ m' = Enqueue(m, CmdOf("sawbss", b, FALSE))
  /\ UNCHANGED <<lock, ext, hw, scan, timers, user, rx, lt, th, requests, losses>>

SeesBeacon == Sees("beacon", scan.st # "process" /\ ext.bss # NoBss /\ "authnull" \in ext.st)

\* The beacon's network becomes cur_network, without the lock and before the
\* access point has answered, if it can be copied; then start_clnt_auth,
\* where del_timer_sync waits for link_timer_hdl.
StartAuth ==
  /\ rx.at = "beacon" /\ lt = Idle
  /\ rx' = Idle
  /\ m' \in {[m EXCEPT !.cur = rx.b]} \cup (IF NoMem THEN {m} ELSE {})
  /\ ext' = [ext EXCEPT !.st = (@ \ {"authnull"}) \cup {"auth"}, !.cnt = 0]
  /\ linktimer' = TRUE
  /\ UNCHANGED <<lock, hw, scan, surveytimer, joinfires, scanfires,
                 user, lt, th, requests, losses>>

SeesAuth == Sees("auth", ext.bss # NoBss /\ "auth" \in ext.st)

\* OnAuthClient: refused, the next frame of a shared key exchange, or a frame
\* that is none of the exchange.
AuthGoesOn ==
  /\ rx.at = "auth"
  /\ rx' = Idle
  /\ linktimer' \in {linktimer, TRUE}
  /\ UNCHANGED <<m, lock, ext, hw, scan, surveytimer, joinfires, scanfires,
                 user, lt, th, requests, losses>>

\* start_clnt_assoc.
StartAssoc ==
  /\ rx.at = "auth" /\ lt = Idle
  /\ rx' = Idle
  /\ ext' = [ext EXCEPT !.st = (@ \ {"authnull", "auth"}) \cup {"authok", "assoc"}, !.cnt = 0]
  /\ linktimer' = TRUE
  /\ UNCHANGED <<m, lock, hw, scan, surveytimer, joinfires, scanfires,
                 user, lt, th, requests, losses>>

SeesAssoc ==
  Sees("assoc", ext.bss # NoBss /\ ext.st \cap {"authok", "assoc"} # {} /\ "done" \notin ext.st)

\* OnAssocRsp.
AssocAnswered(ok) ==
  /\ rx.at = "assoc" /\ lt = Idle
  /\ rx' \in Reported([at |-> IF ok THEN "pre" ELSE "ref", b |-> ext.bss, f |-> ok])
  /\ ext' = [ext EXCEPT !.st = IF ok THEN (@ \ {"assoc"}) \cup {"done"} ELSE {}]
  /\ linktimer' = FALSE
  /\ UNCHANGED <<m, lock, hw, scan, surveytimer, joinfires, scanfires,
                 user, lt, th, requests, losses>>

Loses == losses < MaxLoss /\ losses' = losses + 1 /\ requests' = requests

\* Mutant: nothing is reported.
DeauthUnreported ==
  /\ Loses /\ rx = Idle
  /\ ext.bss # NoBss /\ "sta" \in ext.st
  /\ ext' = [ext EXCEPT !.st = {}]
  /\ UNCHANGED <<m, lock, hw, scan, timers, user, rx, lt, th>>

\* OnDeAuth, OnDisassoc, or a beacon that shows a changed network:
\* receive_disconnect.
Deauth ==
  /\ Loses /\ rx = Idle
  /\ ext.bss # NoBss /\ "sta" \in ext.st
  /\ \/ /\ "done" \in ext.st
        /\ m' \in Posted(m, CmdOf("delsta", ext.bss, FALSE))
        /\ rx' = rx
     \/ /\ "done" \notin ext.st /\ ext.st \cap Linking # {}
        /\ rx' \in Reported(Failed(ext.bss))
        /\ m' = m
  /\ ext' = [ext EXCEPT !.st = {}]
  /\ UNCHANGED <<lock, hw, scan, timers, user, lt, th>>

\* The report of the tasklet: the answer to nobody, a failure, ...
RxReports ==
  /\ PrehandleFails(rx) \/ PrehandleIgnores(rx)
  /\ rx' = [rx EXCEPT !.at = "enq"]
  /\ UNCHANGED <<lock, ext, hw, scan, timers, user, lt, th, requests, losses>>

\* ... or success, and assoc_timer is cancelled with the lock held.
RxJoins ==
  /\ PrehandleJoins(rx)
  /\ lock' = TRUE
  /\ rx' = [rx EXCEPT !.at = "sync"]
  /\ UNCHANGED <<ext, hw, scan, timers, user, lt, th, requests, losses>>

\* del_timer_sync returns when the timer is off and its handler does not run.
RxCancels ==
  /\ rx.at = "sync" /\ ~joinfires
  /\ m' = [m EXCEPT !.assoc_timer = FALSE]
  /\ lock' = FALSE
  /\ rx' = [rx EXCEPT !.at = "enq"]
  /\ UNCHANGED <<ext, hw, scan, timers, user, lt, th, requests, losses>>

RxQueues ==
  /\ EventQueued(rx)
  /\ rx' = Idle
  /\ UNCHANGED <<lock, ext, hw, scan, timers, user, lt, th, requests, losses>>

-----------------------------------------------------------------------------
(* The timers.                                                             *)

\* link_timer_hdl: no beacon, no answer to the authentication, or none to
\* the association.  One counter stands for reauth_count and reassoc_count,
\* of which only one is in use.
LinkTimer ==
  LET stage == IF "authnull" \in ext.st THEN "beacon"
               ELSE IF "auth" \in ext.st THEN "auth"
               ELSE IF "assoc" \in ext.st THEN "assoc" ELSE "none"
      gives_up == stage = "beacon" \/ (stage \in {"auth", "assoc"} /\ ext.cnt = Limit)
  IN  /\ linktimer /\ lt = Idle
      /\ linktimer' = (stage \in {"auth", "assoc"} /\ ~gives_up)
      /\ ext' = IF gives_up THEN [ext EXCEPT !.st = {}, !.cnt = 0]
                ELSE IF stage = "none" THEN ext ELSE [ext EXCEPT !.cnt = @ + 1]
      /\ lt' \in IF gives_up THEN Reported(Failed(ext.bss)) ELSE {Idle}
      /\ UNCHANGED <<m, lock, hw, scan, surveytimer, joinfires, scanfires,
                     user, rx, th, requests, losses>>

LtReports ==
  /\ PrehandleFails(lt)
  /\ lt' = [lt EXCEPT !.at = "enq"]
  /\ UNCHANGED <<lock, ext, hw, scan, timers, user, rx, th, requests, losses>>

LtQueues ==
  /\ EventQueued(lt)
  /\ lt' = Idle
  /\ UNCHANGED <<lock, ext, hw, scan, timers, user, rx, th, requests, losses>>

AssocTimerExpires ==
  /\ m.assoc_timer /\ ~joinfires
  /\ m' = [m EXCEPT !.assoc_timer = FALSE]
  /\ joinfires' = TRUE
  /\ UNCHANGED <<lock, ext, hw, scan, linktimer, surveytimer, scanfires,
                 user, rx, lt, th, requests, losses>>

\* Mutant: to_roaming is not counted down.
JoinTimeoutForever ==
  /\ joinfires /\ ~lock
  /\ joinfires' = FALSE
  /\ m' \in IF m.to_roaming > 0 THEN Roams(m, m.to_roaming)
            ELSE {[rtw_indicate_disconnect(m) EXCEPT !.scanned = {}, !.fixed = {}]}
  /\ UNCHANGED <<lock, ext, hw, scan, linktimer, surveytimer, scanfires,
                 user, rx, lt, th, requests, losses>>

\* _rtw_join_timeout_handler.
JoinTimeout ==
  /\ joinfires /\ ~lock
  /\ joinfires' = FALSE
  /\ m' \in IF m.to_roaming > 0 THEN Roams(m, m.to_roaming - 1)
            ELSE {[rtw_indicate_disconnect(m) EXCEPT !.scanned = {}, !.fixed = {}]}
  /\ UNCHANGED <<lock, ext, hw, scan, linktimer, surveytimer, scanfires,
                 user, rx, lt, th, requests, losses>>

ScanTimerExpires ==
  /\ m.scan_timer /\ ~scanfires
  /\ m' = [m EXCEPT !.scan_timer = FALSE]
  /\ scanfires' = TRUE
  /\ UNCHANGED <<lock, ext, hw, scan, linktimer, surveytimer, joinfires,
                 user, rx, lt, th, requests, losses>>

\* rtw_scan_timeout_handler.
ScanTimeout ==
  /\ scanfires /\ ~lock
  /\ scanfires' = FALSE
  /\ m' = [m EXCEPT !.survey = FALSE]
  /\ UNCHANGED <<lock, ext, hw, scan, linktimer, surveytimer, joinfires,
                 user, rx, lt, th, requests, losses>>

\* survey_timer_hdl: the next channel.
SurveyTimer ==
  /\ surveytimer
  /\ surveytimer' = FALSE
  /\ scan' = IF scan.st = "process" THEN [scan EXCEPT !.idx = IF @ < Channels THEN @ + 1 ELSE @]
             ELSE scan
  /\ m' \in IF scan.st = "disable" THEN {m} ELSE Posted(m, Cmd("survey"))
  /\ UNCHANGED <<lock, ext, hw, linktimer, joinfires, scanfires,
                 user, rx, lt, th, requests, losses>>

-----------------------------------------------------------------------------
(* The command thread.                                                     *)

Takes(c) == th = Idle /\ m.q # <<>> /\ Head(m.q).c = c
Popped == [m EXCEPT !.q = Tail(@)]

\* is_client_associated_to_ap.
Associated == {"sta", "done"} \subseteq ext.st

\* sitesurvey_cmd_hdl and site_survey: a survey begins with a null frame to
\* the access point, goes from channel to channel, and reports its end.
CmdSurvey ==
  LET begins == scan.st = "disable"
      nulls  == begins /\ Associated
      idx    == IF begins THEN 0 ELSE scan.idx
      ends   == ~nulls /\ idx = Channels
  IN  /\ Takes("survey")
      /\ scan' = [st |-> IF nulls THEN "txnull" ELSE IF ends THEN "disable" ELSE "process",
                  idx |-> idx]
      /\ surveytimer' = (~ends \/ surveytimer)
      /\ m' \in IF ends THEN Posted(Popped, Cmd("surveydone")) ELSE {Popped}
      /\ UNCHANGED <<lock, ext, hw, linktimer, joinfires, scanfires,
                     user, rx, lt, th, requests, losses>>

\* join_cmd_hdl and start_clnt_join.  A parameter that rtw_reset_securitypriv
\* has cleared has no capability bits, and nothing is started.
CmdJoin ==
  /\ Takes("join") /\ lt = Idle
  /\ hw' = m.sec_bss
  /\ \/ /\ m.sec_bss # NoBss
        /\ ext' = [ext EXCEPT !.st = {"authnull", "sta"}, !.bss = m.sec_bss]
        /\ linktimer' = TRUE
        /\ m' = [Popped EXCEPT !.assoc_timer = TRUE]
     \/ /\ m.sec_bss = NoBss
        /\ ext' = [ext EXCEPT !.st = IF "done" \in @ THEN {} ELSE @, !.bss = NoBss]
        /\ linktimer' = FALSE
        /\ m' = Popped
  /\ UNCHANGED <<lock, scan, surveytimer, joinfires, scanfires,
                 user, rx, lt, th, requests, losses>>

\* disconnect_hdl.
CmdDisc ==
  /\ Takes("disc") /\ lt = Idle
  /\ m' = Popped
  /\ ext' = [ext EXCEPT !.st = {}]
  /\ hw' = NoBss
  /\ linktimer' = FALSE
  /\ UNCHANGED <<lock, scan, surveytimer, joinfires, scanfires,
                 user, rx, lt, th, requests, losses>>

\* rtw_survey_event_callback.
CmdSawBss ==
  /\ Takes("sawbss") /\ ~lock
  /\ m' = IF m.linking THEN Popped ELSE [Popped EXCEPT !.scanned = @ \cup {Head(m.q).b}]
  /\ UNCHANGED <<lock, ext, hw, scan, timers, user, rx, lt, th, requests, losses>>

\* Mutant: _FW_UNDER_SURVEY is not cleared.
SurveyDoneUncleared ==
  /\ Takes("surveydone") /\ ~lock
  /\ m' = Popped
  /\ th' = [at |-> IF m.survey THEN "cancel" ELSE "join", b |-> NoBss, f |-> FALSE]
  /\ UNCHANGED <<lock, ext, hw, scan, timers, user, rx, lt, requests, losses>>

\* rtw_surveydone_event_callback: under the lock, ...
CmdSurveyDone ==
  /\ Takes("surveydone") /\ ~lock
  /\ m' = [Popped EXCEPT !.survey = FALSE]
  /\ th' = [at |-> IF m.survey THEN "cancel" ELSE "join", b |-> NoBss, f |-> FALSE]
  /\ UNCHANGED <<lock, ext, hw, scan, timers, user, rx, lt, requests, losses>>

\* ... without it, ...
DoneCancels ==
  /\ th.at = "cancel" /\ ~scanfires
  /\ m' = [m EXCEPT !.scan_timer = FALSE]
  /\ th' = [th EXCEPT !.at = "join"]
  /\ UNCHANGED <<lock, ext, hw, scan, timers, user, rx, lt, requests, losses>>

\* No network to join: a station that roams surveys again until to_roaming is
\* used up, any other has no link.
NotFound(u) ==
  LET n == [u EXCEPT !.to_roaming = @ - 1]
      lost == rtw_indicate_disconnect(rtw_free_assoc_resources(rtw_set_roaming(u, 0)))
  IN  IF u.to_roaming = 0 THEN {rtw_indicate_disconnect(u)}
      ELSE (IF n.to_roaming > 0
            THEN {[x EXCEPT !.to_join = TRUE] : x \in rtw_sitesurvey_cmd(n)} ELSE {})
           \cup (IF n.to_roaming = 0 \/ NoMem THEN {lost} ELSE {})

\* ... and under it again: the join that waited for the survey.
JoinAfterSurvey(s) ==
  LET t == [s EXCEPT !.linking = TRUE, !.to_join = FALSE]
      tries == rtw_select_and_join_from_scanned_queue(t)
  IN  {[r.m EXCEPT !.assoc_timer = TRUE] : r \in {x \in tries : x.ok}}
      \cup {[x EXCEPT !.linking = FALSE]
              : x \in UNION {NotFound(r.m) : r \in {x \in tries : ~x.ok}}}

\* Mutant: to_join stays.
DoneJoinsAgain ==
  /\ th.at = "join" /\ ~lock
  /\ m' \in IF m.to_join THEN {[s EXCEPT !.to_join = TRUE] : s \in JoinAfterSurvey(m)} ELSE {m}
  /\ th' = Idle
  /\ UNCHANGED <<lock, ext, hw, scan, timers, user, rx, lt, requests, losses>>


DoneJoins ==
  /\ th.at = "join" /\ ~lock
  /\ m' \in IF m.to_join THEN JoinAfterSurvey(m) ELSE {m}
  /\ th' = Idle
  /\ UNCHANGED <<lock, ext, hw, scan, timers, user, rx, lt, requests, losses>>

\* rtw_joinbss_event_callback: mlmeext_joinbss_event_callback programs the chip.
CmdJoinRes ==
  /\ Takes("joinres")
  /\ m' = Popped
  /\ hw' = IF Head(m.q).f THEN hw ELSE NoBss
  /\ UNCHANGED <<lock, ext, scan, timers, user, rx, lt, th, requests, losses>>

\* linked_status_chk: the access point was silent for too long, and
\* receive_disconnect asks for roaming.
Expires ==
  /\ Loses /\ th = Idle
  /\ Associated /\ ext.bss \in m.sta
  /\ ext' = [ext EXCEPT !.st = {}]
  /\ m' \in Posted(m, CmdOf("delsta", ext.bss, TRUE))
  /\ UNCHANGED <<lock, hw, scan, timers, user, rx, lt, th>>

\* rtw_stadel_event_callback: mlmeext_sta_del_event_callback without the lock.
\* A station has no members of an IBSS, so is_IBSS_empty holds and the exchange
\* ends, be it with another network than the event's ...
CmdDelSta ==
  /\ Takes("delsta") /\ lt = Idle
  /\ m' = Popped
  /\ ext' = [ext EXCEPT !.st = {}]
  /\ hw' = NoBss
  /\ linktimer' = FALSE
  /\ th' = [at |-> "del", b |-> Head(m.q).b, f |-> Head(m.q).f]
  /\ UNCHANGED <<lock, scan, surveytimer, joinfires, scanfires,
                 user, rx, lt, requests, losses>>

\* The attempts at roaming after a link was lost, without a word (f) or with one.
RoamingLeft(s, f) ==
  IF ~f THEN rtw_set_roaming(s, 0)
  ELSE IF s.to_roaming > 0 THEN [s EXCEPT !.to_roaming = @ - 1]
  ELSE rtw_set_roaming(s, MaxRoaming)

\* Mutant: rtw_roaming is not called.
DelStaForgets ==
  LET t == rtw_indicate_disconnect(rtw_free_assoc_resources(RoamingLeft(m, th.f)))
  IN  /\ th.at = "del" /\ ~lock
      /\ m' = [t EXCEPT !.scanned = @ \ {m.cur}]
      /\ th' = Idle
      /\ UNCHANGED <<lock, ext, hw, scan, timers, user, rx, lt, requests, losses>>

\* ... and the rest under it: the network is forgotten, and looked for again
\* when it was lost without a word.
DelSta ==
  LET t == rtw_indicate_disconnect(rtw_free_assoc_resources(RoamingLeft(m, th.f)))
  IN  /\ th.at = "del" /\ ~lock
      /\ m' \in rtw_roaming([t EXCEPT !.scanned = @ \ {m.cur}])
      /\ th' = Idle
      /\ UNCHANGED <<lock, ext, hw, scan, timers, user, rx, lt, requests, losses>>

-----------------------------------------------------------------------------
User ==
  \/ \E x \in Ssid : SetSsid(x)
  \/ \E b \in Bss : SetBssid(b)
  \/ Disassociate
  \/ ScanChecks

Air ==
  \/ \E b \in Bss : SeesBss(b)
  \/ SeesBeacon \/ SeesAuth \/ SeesAssoc
  \/ Deauth
  \/ Expires

Tasklet ==
  \/ StartAuth \/ AuthGoesOn \/ StartAssoc
  \/ \E ok \in BOOLEAN : AssocAnswered(ok)
  \/ RxReports \/ RxJoins \/ RxCancels \/ RxQueues

LinkTimerHdl == LinkTimer \/ LtReports \/ LtQueues

Thread ==
  \/ CmdSurvey \/ CmdJoin \/ CmdDisc \/ CmdSawBss
  \/ CmdSurveyDone \/ DoneCancels \/ DoneJoins
  \/ CmdJoinRes \/ CmdDelSta \/ DelSta

Next ==
  \/ User \/ ScanStarts
  \/ Air \/ Tasklet
  \/ LinkTimerHdl
  \/ AssocTimerExpires \/ JoinTimeout
  \/ ScanTimerExpires \/ ScanTimeout
  \/ SurveyTimer
  \/ Thread

Spec == Init /\ [][Next]_vars

\* Timers expire, and what has started goes on; the user and the access points
\* owe nothing.
FairSpec ==
  /\ Spec
  /\ WF_vars(ScanStarts) /\ WF_vars(Tasklet) /\ WF_vars(Thread)
  /\ WF_vars(LinkTimerHdl) /\ WF_vars(SurveyTimer)
  /\ WF_vars(AssocTimerExpires \/ JoinTimeout)
  /\ WF_vars(ScanTimerExpires \/ ScanTimeout)

-----------------------------------------------------------------------------
\* A join the user waits for has a timer behind it: whatever ends the exchange,
\* and whoever starts another one, _FW_UNDER_LINKING is never left to a timer
\* that rtw_joinbss_event_prehandle or its own handler has used up.
LinkingIsTimed == m.linking => m.assoc_timer \/ joinfires

\* Nothing is under way.
Quiet ==
  /\ m.q = <<>> /\ rx = Idle /\ lt = Idle /\ th = Idle
  /\ ~m.assoc_timer /\ ~joinfires /\ ~linktimer

\* The link the user sees is one the access point knows of: when every timer
\* and event has been handled, _FW_LINKED means that pmlmeinfo is associated.
LinkIsReal == m.linked /\ Quiet => Associated

\* A link has the sta_info that frames are sent to, its network is kept from
\* aging in the scanned queue, and the system knows of it; no other access
\* point has a sta_info.
LinkHasSta ==
  /\ m.linked => m.cur \in m.sta /\ m.cur \in m.fixed /\ m.carrier
  /\ m.sta \subseteq {m.cur}

SurveyComing ==
  \/ scan.st # "disable" /\ surveytimer
  \/ th.at \in {"cancel", "join"}
  \/ \E i \in DOMAIN m.q : m.q[i].c \in {"survey", "surveydone"}

\* A join that waits for a survey (to_join) has one whose end is still to come,
\* in the queue, with a timer for its next channel, or in
\* rtw_surveydone_event_callback.
ToJoinHasSurvey == m.to_join => SurveyComing

\* A link that was lost without the system being told (roaming) is being
\* replaced: an attempt is left, and a timer or a survey will make it.
RoamIsPending ==
  m.carrier /\ ~m.linked =>
    /\ m.to_roaming > 0
    /\ m.assoc_timer \/ joinfires \/ (m.to_join /\ SurveyComing)

\* A survey ends, by its event or by rtw_scan_timeout_handler.
SurveyEnds == m.survey ~> ~m.survey

\* Roaming ends with a new link or with the system told that there is none.
RoamConcludes == (m.carrier /\ ~m.linked) ~> (m.linked \/ ~m.carrier)

\* "Timeout/faliure handler for CMD JoinBss" (core/rtw_mlme.c:1517): a join
\* timeout that has expired is handled.
TimeoutHandled == joinfires ~> ~joinfires
=============================================================================
