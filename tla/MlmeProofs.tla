---------------------------- MODULE MlmeProofs ----------------------------
(***************************************************************************)
(* Joins and surveys of the station: what waits has something coming that  *)
(* ends the wait.  A join is behind a timer, a postponed join behind a     *)
(* survey, and roaming behind one of the two; and a link that is reported  *)
(* is one the exchange has made, for any number of networks, requests,     *)
(* losses, channels and attempts.                                          *)
(***************************************************************************)
EXTENDS Mlme, TLAPS

BssOrNone == Bss \cup {NoBss}

\* struct mlme_priv, as far as the proofs look at it: its fields, and the
\* types of the flags, the count of attempts and the queue.
Field == {"linked", "linking", "survey", "to_join", "to_roaming", "ssid", "bssid",
          "cur", "sec_bss", "scanned", "fixed", "sta", "assoc_timer", "scan_timer",
          "carrier", "q"}
Shape(s) ==
  /\ s = [f \in Field |-> s[f]]
  /\ s.linked \in BOOLEAN /\ s.linking \in BOOLEAN /\ s.survey \in BOOLEAN
  /\ s.to_join \in BOOLEAN /\ s.assoc_timer \in BOOLEAN /\ s.carrier \in BOOLEAN
  /\ s.to_roaming \in Nat
  /\ s.sec_bss \in BssOrNone
  /\ s.scanned \subseteq BssOrNone /\ s.fixed \subseteq BssOrNone
  /\ s.q \in Seq(Command)

\* A survey is among the commands of a queue, or the end of one.
HasSurvey(q) == \E i \in DOMAIN q : q[i].c \in {"survey", "surveydone"}

-----------------------------------------------------------------------------
(* Lemmas about the queue.                                                 *)

LEMMA AppendSurvey ==
  ASSUME NEW q \in Seq(Command), NEW c \in Command
  PROVE  /\ Append(q, c) \in Seq(Command)
         /\ HasSurvey(Append(q, c)) <=> HasSurvey(q) \/ c.c \in {"survey", "surveydone"}
<1>1. /\ DOMAIN q = 1 .. Len(q) /\ Len(q) \in Nat
      /\ DOMAIN Append(q, c) = 1 .. (Len(q) + 1)
      /\ \A i \in 1 .. Len(q) : Append(q, c)[i] = q[i]
      /\ Append(q, c)[Len(q) + 1] = c
  OBVIOUS
<1>2. HasSurvey(q) => HasSurvey(Append(q, c))
  BY <1>1 DEF HasSurvey
<1>3. c.c \in {"survey", "surveydone"} => HasSurvey(Append(q, c))
  BY <1>1 DEF HasSurvey
<1>4. ASSUME HasSurvey(Append(q, c)), ~(c.c \in {"survey", "surveydone"})
      PROVE  HasSurvey(q)
  BY <1>1, <1>4 DEF HasSurvey
<1> QED
  BY <1>2, <1>3, <1>4

LEMMA TailSurvey ==
  ASSUME NEW q \in Seq(Command), q # <<>>
  PROVE  /\ Tail(q) \in Seq(Command)
         /\ Head(q) \in Command
         /\ Head(q).c \notin {"survey", "surveydone"} /\ HasSurvey(q) => HasSurvey(Tail(q))
<1>1. /\ DOMAIN q = 1 .. Len(q) /\ Len(q) \in Nat
      /\ DOMAIN Tail(q) = 1 .. (Len(q) - 1)
      /\ \A i \in 1 .. (Len(q) - 1) : Tail(q)[i] = q[i + 1]
      /\ Head(q) = q[1]
  OBVIOUS
<1>2. ASSUME Head(q).c \notin {"survey", "surveydone"}, HasSurvey(q)
      PROVE  HasSurvey(Tail(q))
  <2>1. PICK i \in 1 .. Len(q) : q[i].c \in {"survey", "surveydone"}
    BY <1>1, <1>2 DEF HasSurvey
  <2>2. i # 1 /\ i - 1 \in DOMAIN Tail(q) /\ Tail(q)[i - 1] = q[i]
    BY <1>1, <1>2, <2>1
  <2> QED
    BY <2>1, <2>2 DEF HasSurvey
<1> QED
  BY <1>2

-----------------------------------------------------------------------------
(* What the functions of core/rtw_mlme.c do to the fields that matter.     *)

\* The flags, the count and the timer, all but the link and the join.
Same(s, t) ==
  /\ t.survey = s.survey /\ t.to_join = s.to_join
  /\ t.to_roaming = s.to_roaming /\ t.assoc_timer = s.assoc_timer

SameLink(s, t) == t.linked = s.linked /\ t.linking = s.linking /\ t.carrier = s.carrier

LEMMA EnqueueDoes ==
  ASSUME NEW s, Shape(s), NEW c \in Command
  PROVE  /\ Shape(Enqueue(s, c)) /\ Same(s, Enqueue(s, c)) /\ SameLink(s, Enqueue(s, c))
         /\ HasSurvey(Enqueue(s, c).q) <=> HasSurvey(s.q) \/ c.c \in {"survey", "surveydone"}
<1> DEFINE t == Enqueue(s, c)
<1>1. /\ t = [f \in Field |-> t[f]]
      /\ \A f \in Field \ {"q"} : t[f] = s[f]
      /\ t.q = Append(s.q, c)
  BY DEF Enqueue, Shape, Field
<1>2. s.q \in Seq(Command)
  BY DEF Shape
<1>3. Shape(t)
  <2> HIDE DEF t
  <2> QED
    BY <1>1, <1>2, AppendSurvey DEF Shape, Field
<1>4. Same(s, t) /\ SameLink(s, t)
  <2> HIDE DEF t
  <2> QED
    BY <1>1 DEF Same, SameLink, Field
<1>5. HasSurvey(t.q) <=> HasSurvey(s.q) \/ c.c \in {"survey", "surveydone"}
  <2>1. PICK q \in Seq(Command) : q = s.q
    BY <1>2
  <2>2. HasSurvey(Append(q, c)) <=> HasSurvey(q) \/ c.c \in {"survey", "surveydone"}
    BY AppendSurvey
  <2>3. t.q = Append(q, c)
    BY <1>1, <2>1
  <2> HIDE DEF t
  <2> QED
    BY <2>1, <2>2, <2>3, Zenon
<1> QED
  BY <1>3, <1>4, <1>5

LEMMA DisconnectDoes ==
  ASSUME NEW s, Shape(s)
  PROVE  LET t == rtw_indicate_disconnect(s)
         IN  /\ Shape(t) /\ Same(s, t) /\ t.q = s.q
             /\ ~t.linked /\ ~t.linking
             /\ t.carrier <=> s.carrier /\ s.to_roaming > 0
BY DEF rtw_indicate_disconnect, rtw_reset_securitypriv, Shape, Same, Field, BssOrNone

LEMMA FreeResourcesDoes ==
  ASSUME NEW s, Shape(s)
  PROVE  LET t == rtw_free_assoc_resources(s)
         IN  Shape(t) /\ Same(s, t) /\ SameLink(s, t) /\ t.q = s.q
BY DEF rtw_free_assoc_resources, Shape, Same, SameLink, Field

LEMMA CmdTyped ==
  /\ \A c \in {"survey", "join", "disc", "surveydone"} : Cmd(c) \in Command /\ Cmd(c).c = c
  /\ \A c \in {"sawbss", "joinres", "delsta"}, b \in BssOrNone, f \in BOOLEAN :
       CmdOf(c, b, f) \in Command /\ CmdOf(c, b, f).c = c
BY DEF Cmd, CmdOf, Command, BssOrNone

LEMMA DisassociatedDoes ==
  ASSUME NEW s, Shape(s), NEW t \in Disassociated(s)
  PROVE  /\ Shape(t) /\ Same(s, t) /\ (HasSurvey(t.q) <=> HasSurvey(s.q))
         /\ ~t.linked /\ ~t.linking
         /\ t.carrier <=> s.carrier /\ s.to_roaming > 0
<1>0. PICK e \in Posted(s, Cmd("disc")) :
        t = rtw_free_assoc_resources(rtw_indicate_disconnect(e))
  BY DEF Disassociated
<1> DEFINE d == rtw_indicate_disconnect(e)
<1>1. Shape(e) /\ Same(s, e) /\ SameLink(s, e) /\ (HasSurvey(e.q) <=> HasSurvey(s.q))
  <2>1. CASE e = s
    BY <2>1 DEF Same, SameLink
  <2>2. CASE e = Enqueue(s, Cmd("disc"))
    BY <2>2, EnqueueDoes, CmdTyped
  <2> QED
    BY <2>1, <2>2 DEF Posted
<1>2. /\ Shape(d) /\ Same(e, d) /\ d.q = e.q /\ ~d.linked /\ ~d.linking
      /\ d.carrier <=> e.carrier /\ e.to_roaming > 0
  BY <1>1, DisconnectDoes
<1>3. t = rtw_free_assoc_resources(d)
  BY <1>0
<1> HIDE DEF d
<1>4. Shape(t) /\ Same(d, t) /\ SameLink(d, t) /\ t.q = d.q
  BY <1>2, <1>3, FreeResourcesDoes
<1> QED
  BY <1>1, <1>2, <1>4 DEF Same, SameLink

LEMMA SiteSurveyDoes ==
  ASSUME NEW s, Shape(s), NEW t \in rtw_sitesurvey_cmd(s)
  PROVE  /\ Shape(t) /\ SameLink(s, t) /\ HasSurvey(t.q)
         /\ t.survey
         /\ t.to_join = s.to_join /\ t.to_roaming = s.to_roaming
         /\ t.assoc_timer = s.assoc_timer
<1>1. PICK k \in SUBSET (s.scanned \ s.fixed) :
           t = [s EXCEPT !.survey = TRUE, !.scan_timer = TRUE,
                             !.scanned = s.fixed \cup k, !.q = Append(@, Cmd("survey"))]
  BY DEF rtw_sitesurvey_cmd
<1>2. /\ t = [f \in Field |-> t[f]]
      /\ \A f \in Field \ {"survey", "scan_timer", "scanned", "q"} : t[f] = s[f]
      /\ t.q = Append(s.q, Cmd("survey")) /\ t.survey = TRUE
      /\ t.scanned = s.fixed \cup k
  BY <1>1 DEF Shape, Field
<1>3. t.q \in Seq(Command) /\ HasSurvey(t.q)
  <2>1. Cmd("survey") \in Command /\ Cmd("survey").c \in {"survey", "surveydone"}
    BY CmdTyped
  <2>2. s.q \in Seq(Command)
    BY DEF Shape
  <2> QED
    BY <1>2, <2>1, <2>2, AppendSurvey
<1> QED
  BY <1>2, <1>3 DEF Shape, SameLink, Field

LEMMA JoinCmdDoes ==
  ASSUME NEW s, Shape(s), NEW b \in BssOrNone
  PROVE  LET t == rtw_joinbss_cmd(s, b)
         IN  Shape(t) /\ Same(s, t) /\ SameLink(s, t) /\ (HasSurvey(t.q) <=> HasSurvey(s.q))
<1> DEFINE u == [s EXCEPT !.sec_bss = b]
<1>1. Shape(u) /\ Same(s, u) /\ SameLink(s, u) /\ u.q = s.q
  BY DEF Shape, Same, SameLink, Field
<1>2. rtw_joinbss_cmd(s, b) = Enqueue(u, Cmd("join"))
  BY DEF rtw_joinbss_cmd
<1> DEFINE t == Enqueue(u, Cmd("join"))
<1>3. Cmd("join") \in Command /\ Cmd("join").c \notin {"survey", "surveydone"}
  BY CmdTyped
<1> HIDE DEF u
<1>4. Shape(t) /\ Same(u, t) /\ SameLink(u, t) /\ (HasSurvey(t.q) <=> HasSurvey(u.q))
  BY <1>1, <1>3, EnqueueDoes
<1> HIDE DEF t
<1>5. rtw_joinbss_cmd(s, b) = t
  BY <1>2 DEF t
<1> QED
  BY <1>1, <1>4, <1>5 DEF Same, SameLink

\* The link is torn down at most, and then reported unless roaming.
Torn(s, t) ==
  /\ t.to_roaming = s.to_roaming
  /\ t.linked => s.linked
  /\ t.carrier =>
       s.carrier /\ (s.linked /\ ~t.linked => s.to_roaming > 0)

LEMMA TornTransitive ==
  ASSUME NEW s, NEW t, NEW u, Torn(s, t), Torn(t, u)
  PROVE  Torn(s, u)
BY DEF Torn

LEMMA SelectDoes ==
  ASSUME NEW s, Shape(s), NEW r \in rtw_select_and_join_from_scanned_queue(s)
  PROVE  /\ Shape(r.m) /\ Same(s, r.m) /\ (HasSurvey(r.m.q) <=> HasSurvey(s.q))
         /\ Torn(s, r.m) /\ r.ok \in BOOLEAN
<1> DEFINE torn == IF s.linked THEN Disassociated(s) ELSE {s}
           c == Candidates(s)
<1>0. \/ \E t \in torn : (\E b \in c : r = Ok(rtw_joinbss_cmd(t, b))) \/ r = Fail(t)
      \/ r = Fail(s)
  BY DEF rtw_select_and_join_from_scanned_queue
<1>1. PICK t : /\ (s.linked /\ t \in Disassociated(s)) \/ (~s.linked /\ t = s)
               /\ \/ \E b \in c : r = Ok(rtw_joinbss_cmd(t, b))
                  \/ r = Fail(t) \/ r = Fail(s)
  <2>1. \E x : x \in torn
    <3>1. CASE s.linked
      <4>1. Enqueue(s, Cmd("disc")) \in Posted(s, Cmd("disc"))
        BY DEF Posted
      <4> QED
        BY <3>1, <4>1 DEF Disassociated
    <3>2. CASE ~s.linked
      BY <3>2
    <3> QED
      BY <3>1, <3>2
  <2>2. \A x \in torn : (s.linked /\ x \in Disassociated(s)) \/ (~s.linked /\ x = s)
    OBVIOUS
  <2> HIDE DEF torn, c
  <2> QED
    BY <1>0, <2>1, <2>2
<1>2. c \subseteq BssOrNone
  BY DEF Candidates, Shape
<1>3. Shape(t) /\ Same(s, t) /\ (HasSurvey(t.q) <=> HasSurvey(s.q)) /\ Torn(s, t)
  <2>1. CASE s.linked
    BY <1>1, <2>1, DisassociatedDoes DEF Same, Torn, Shape
  <2>2. CASE ~s.linked
    BY <1>1, <2>2 DEF Same, Torn
  <2> QED
    BY <2>1, <2>2
<1> HIDE DEF torn, c
<1>4. Same(s, s) /\ Torn(s, s)
  BY DEF Same, Torn
<1>5. ASSUME NEW b \in c, r = Ok(rtw_joinbss_cmd(t, b))
      PROVE  /\ Shape(r.m) /\ Same(s, r.m) /\ (HasSurvey(r.m.q) <=> HasSurvey(s.q))
             /\ Torn(s, r.m) /\ r.ok \in BOOLEAN
  <2>1. r.m = rtw_joinbss_cmd(t, b) /\ r.ok = TRUE
    BY <1>5 DEF Ok
  <2>2. b \in BssOrNone
    BY <1>2
  <2>3. Shape(r.m) /\ Same(t, r.m) /\ SameLink(t, r.m) /\ (HasSurvey(r.m.q) <=> HasSurvey(t.q))
    BY <1>3, <2>1, <2>2, JoinCmdDoes
  <2>4. Torn(t, r.m)
    BY <2>3 DEF Same, SameLink, Torn
  <2>5. Same(s, r.m)
    BY <1>3, <2>3 DEF Same
  <2> QED
    BY <1>3, <2>1, <2>3, <2>4, <2>5, TornTransitive
<1>6. CASE r = Fail(t)
  BY <1>3, <1>6 DEF Fail
<1>7. CASE r = Fail(s)
  BY <1>4, <1>7 DEF Fail
<1> QED
  BY <1>1, <1>5, <1>6, <1>7

\* What is under way when a join was asked for: assoc_timer, or a survey with
\* the join to follow it.
Pending(t) == t.assoc_timer \/ (t.to_join /\ HasSurvey(t.q))

\* A step that leaves the record able to finish what it began.
Settled(s, t) ==
  /\ Shape(t)
  /\ HasSurvey(s.q) => HasSurvey(t.q)
  /\ t.linking => t.assoc_timer
  /\ t.survey => s.survey \/ HasSurvey(t.q)

LEMMA SurveyFirstDoes ==
  ASSUME NEW s, Shape(s), s.to_join, NEW r \in SurveyFirst(s)
  PROVE  /\ Settled(s, r.m) /\ Torn(s, r.m) /\ r.ok \in BOOLEAN
         /\ r.m.to_join => HasSurvey(r.m.q)
         /\ r.ok => Pending(r.m)
         /\ ~r.ok => NoMem \/ s.to_roaming = 0
<1> DEFINE t == [s EXCEPT !.linking = FALSE]
           f == [t EXCEPT !.to_join = FALSE]
<1>1. /\ Shape(t) /\ ~t.linking /\ t.to_join /\ t.survey = s.survey /\ t.q = s.q
      /\ t.linked = s.linked /\ t.carrier = s.carrier /\ t.to_roaming = s.to_roaming
  BY DEF Shape, Field
<1>2. /\ Shape(f) /\ ~f.linking /\ ~f.to_join /\ f.survey = s.survey /\ f.q = s.q
      /\ f.linked = s.linked /\ f.carrier = s.carrier /\ f.to_roaming = s.to_roaming
  BY DEF Shape, Field
<1>3. \/ \E u \in rtw_sitesurvey_cmd(t) : r = Ok(u)
      \/ (NoMem \/ s.to_roaming = 0) /\ r = Fail(f)
  BY DEF SurveyFirst
<1> HIDE DEF t, f
<1>4. ASSUME NEW u \in rtw_sitesurvey_cmd(t), r = Ok(u)
      PROVE  /\ Settled(s, r.m) /\ Torn(s, r.m) /\ r.ok \in BOOLEAN
             /\ r.m.to_join => HasSurvey(r.m.q)
             /\ r.ok => Pending(r.m)
             /\ ~r.ok => NoMem \/ s.to_roaming = 0
  <2>1. r.m = u /\ r.ok = TRUE
    BY <1>4 DEF Ok
  <2>2. /\ Shape(u) /\ SameLink(t, u) /\ HasSurvey(u.q) /\ u.to_join = t.to_join
        /\ u.to_roaming = t.to_roaming
    BY <1>1, SiteSurveyDoes
  <2> QED
    BY <1>1, <2>1, <2>2 DEF Settled, Torn, Pending, SameLink
<1>5. CASE (NoMem \/ s.to_roaming = 0) /\ r = Fail(f)
  <2>1. r.m = f /\ r.ok = FALSE
    BY <1>5 DEF Fail
  <2> QED
    BY <1>2, <1>5, <2>1 DEF Settled, Torn, Pending
<1> QED
  BY <1>3, <1>4, <1>5

\* rtw_do_join: whatever happens, a join has assoc_timer, a postponed one a
\* survey, and a caller that is told of success has one of the two.
LEMMA DoJoinDoes ==
  ASSUME NEW s, Shape(s), NEW r \in rtw_do_join(s)
  PROVE  /\ Settled(s, r.m) /\ Torn(s, r.m) /\ r.ok \in BOOLEAN
         /\ r.m.to_join => HasSurvey(r.m.q)
         /\ r.ok => Pending(r.m)
         /\ ~r.ok => NoMem \/ s.to_roaming = 0
<1> DEFINE t == [s EXCEPT !.linking = TRUE, !.to_join = TRUE]
           tries == rtw_select_and_join_from_scanned_queue(t)
           ended(x) == [x.m EXCEPT !.to_join = FALSE, !.assoc_timer = TRUE]
           Goal == /\ Settled(s, r.m) /\ Torn(s, r.m) /\ r.ok \in BOOLEAN
                   /\ r.m.to_join => HasSurvey(r.m.q)
                   /\ r.ok => Pending(r.m)
                   /\ ~r.ok => NoMem \/ s.to_roaming = 0
<1>1. /\ Shape(t) /\ t.to_join /\ t.survey = s.survey /\ t.q = s.q
      /\ t.to_roaming = s.to_roaming /\ Torn(s, t)
  BY DEF Shape, Field, Torn
<1>2. \/ r \in SurveyFirst(t)
      \/ \E x \in tries : r = Ok(ended(x))
      \/ \E x \in tries : r \in SurveyFirst(x.m)
  BY DEF rtw_do_join
<1> HIDE DEF t
<1>3. ASSUME NEW u, Shape(u), u.to_join, u.survey = t.survey, HasSurvey(u.q) <=> HasSurvey(t.q),
             Torn(t, u), r \in SurveyFirst(u)
      PROVE  Goal
  <2>1. /\ Settled(u, r.m) /\ Torn(u, r.m) /\ r.ok \in BOOLEAN
        /\ r.m.to_join => HasSurvey(r.m.q)
        /\ r.ok => Pending(r.m)
        /\ ~r.ok => NoMem \/ u.to_roaming = 0
    BY <1>3, SurveyFirstDoes
  <2>2. Settled(s, r.m)
    BY <1>1, <1>3, <2>1 DEF Settled
  <2>3. Torn(s, r.m)
    BY <1>1, <1>3, <2>1, TornTransitive
  <2>4. u.to_roaming = s.to_roaming
    BY <1>1, <1>3 DEF Torn
  <2> QED
    BY <2>1, <2>2, <2>3, <2>4
<1>4. ASSUME NEW x \in tries
      PROVE  /\ Shape(x.m) /\ Same(t, x.m) /\ (HasSurvey(x.m.q) <=> HasSurvey(t.q))
             /\ Torn(t, x.m)
  BY <1>1, SelectDoes
<1>5. ASSUME r \in SurveyFirst(t) PROVE Goal
  <2>1. Torn(t, t)
    BY DEF Torn
  <2> QED
    BY <1>1, <1>3, <1>5, <2>1
<1>6. ASSUME NEW x \in tries, r \in SurveyFirst(x.m) PROVE Goal
  <2>1. x.m.to_join /\ x.m.survey = t.survey
    BY <1>1, <1>4 DEF Same
  <2> QED
    BY <1>3, <1>4, <1>6, <2>1
<1>7. ASSUME NEW x \in tries, r = Ok(ended(x)) PROVE Goal
  <2>1. r.m = ended(x) /\ r.ok = TRUE
    BY <1>7 DEF Ok
  <2>2. /\ Shape(ended(x)) /\ ended(x).assoc_timer /\ ~ended(x).to_join
        /\ ended(x).q = x.m.q /\ ended(x).survey = x.m.survey
        /\ ended(x).linked = x.m.linked /\ ended(x).carrier = x.m.carrier
        /\ ended(x).to_roaming = x.m.to_roaming
    BY <1>4 DEF Shape, Field
  <2> HIDE DEF ended
  <2>3. Torn(s, x.m)
    BY <1>1, <1>4, TornTransitive
  <2>4. x.m.survey = s.survey
    BY <1>1, <1>4 DEF Same
  <2>5. Torn(s, r.m)
    BY <2>1, <2>2, <2>3 DEF Torn
  <2>6. Settled(s, r.m)
    BY <1>1, <1>4, <2>1, <2>2, <2>4 DEF Settled
  <2> QED
    BY <2>1, <2>2, <2>5, <2>6 DEF Pending
<1> HIDE DEF tries, ended, Goal
<1>8. Goal
  BY <1>2, <1>5, <1>6, <1>7
<1> QED
  BY <1>8 DEF Goal

\* How the loops of rtw_roaming and of _rtw_join_timeout_handler end.
LEMMA RoamsIs ==
  ASSUME NEW s, NEW n \in Nat, NEW t \in Roams(s, n)
  PROVE  \/ \E k \in Nat \ {0} : \E x \in rtw_do_join([s EXCEPT !.to_roaming = k]) :
              x.ok /\ t = x.m
         \/ t = rtw_indicate_disconnect([s EXCEPT !.to_roaming = 0, !.to_join = @ /\ n = 0])
<1> DEFINE tries == IF NoMem THEN 1 .. n ELSE {n} \ {0}
           Join(k) == rtw_do_join([s EXCEPT !.to_roaming = k])
           Out(k) == {r.m : r \in {x \in Join(k) : x.ok}}
           gone == rtw_indicate_disconnect([s EXCEPT !.to_roaming = 0,
                                                     !.to_join = @ /\ n = 0])
<1>1. Roams(s, n) = (UNION {Out(k) : k \in tries})
                      \cup (IF n = 0 \/ NoMem THEN {gone} ELSE {})
  BY Zenon DEF Roams
<1>2. tries \subseteq Nat \ {0}
  OBVIOUS
<1> HIDE DEF gone, tries, Join
<1>3. \A k : \A y \in Out(k) : \E x \in Join(k) : x.ok /\ y = x.m
  BY Zenon
<1> HIDE DEF Out
<1>4. t = gone \/ \E k \in tries : t \in Out(k)
  BY <1>1
<1>5. t = gone \/ \E k \in Nat \ {0} : \E x \in Join(k) : x.ok /\ t = x.m
  BY <1>2, <1>3, <1>4, Zenon
<1> QED
  BY <1>5, Zenon DEF gone, Join

\* The loops of rtw_roaming and of _rtw_join_timeout_handler: they end with an
\* attempt under way, or with the system told that there is no link.
LEMMA RoamsDoes ==
  ASSUME NEW s, Shape(s), NEW n \in Nat, NEW t \in Roams(s, n)
  PROVE  /\ Settled(s, t)
         /\ t.to_join => s.to_join \/ HasSurvey(t.q)
         /\ ~s.linked => ~t.linked /\ (t.carrier => t.to_roaming > 0 /\ Pending(t))
<1> DEFINE at(k) == [s EXCEPT !.to_roaming = k]
           last == [s EXCEPT !.to_roaming = 0, !.to_join = @ /\ n = 0]
<1>1. \/ \E k \in Nat \ {0} : \E x \in rtw_do_join(at(k)) : x.ok /\ t = x.m
      \/ t = rtw_indicate_disconnect(last)
  BY RoamsIs, Zenon
<1>2. ASSUME NEW k \in Nat \ {0}, NEW x \in rtw_do_join(at(k)), x.ok, t = x.m
      PROVE  /\ Settled(s, t)
             /\ t.to_join => s.to_join \/ HasSurvey(t.q)
             /\ ~s.linked => ~t.linked /\ (t.carrier => t.to_roaming > 0 /\ Pending(t))
  <2>1. /\ Shape(at(k)) /\ at(k).to_roaming = k /\ at(k).q = s.q /\ at(k).survey = s.survey
        /\ at(k).linked = s.linked
    BY DEF Shape, Field
  <2> HIDE DEF at
  <2>2. /\ Settled(at(k), t) /\ Torn(at(k), t) /\ (t.to_join => HasSurvey(t.q)) /\ Pending(t)
    BY <1>2, <2>1, DoJoinDoes
  <2> QED
    BY <2>1, <2>2 DEF Settled, Torn
<1>3. CASE t = rtw_indicate_disconnect(last)
  <2>1. /\ Shape(last) /\ last.to_roaming = 0 /\ last.q = s.q /\ last.survey = s.survey
        /\ last.to_join => s.to_join
    BY DEF Shape, Field
  <2> HIDE DEF last
  <2>2. /\ Shape(t) /\ Same(last, t) /\ t.q = last.q /\ ~t.linked /\ ~t.linking /\ ~t.carrier
    BY <1>3, <2>1, DisconnectDoes
  <2> QED
    BY <2>1, <2>2 DEF Settled, Same
<1> HIDE DEF at, last
<1> QED
  BY <1>1, <1>2, <1>3

\* rtw_roaming, called with the link down: nothing to do, or the loop.
LEMMA RoamingDoes ==
  ASSUME NEW s, Shape(s), ~s.linked, ~s.linking, s.to_roaming = 0 => ~s.carrier,
         NEW t \in rtw_roaming(s)
  PROVE  /\ Settled(s, t)
         /\ t.to_join => s.to_join \/ HasSurvey(t.q)
         /\ ~t.linked /\ (t.carrier => t.to_roaming > 0 /\ Pending(t))
<1> DEFINE u == [s EXCEPT !.ssid = SsidOf(s.cur), !.bssid = NoBss]
<1>1. CASE s.to_roaming = 0
  BY <1>1 DEF rtw_roaming, Settled
<1>2. CASE s.to_roaming # 0
  <2>1. t \in Roams(u, s.to_roaming) /\ s.to_roaming \in Nat
    BY <1>2 DEF rtw_roaming, Shape
  <2>2. Shape(u) /\ u.q = s.q /\ u.survey = s.survey /\ u.to_join = s.to_join /\ ~u.linked
    BY DEF Shape, Field
  <2> HIDE DEF u
  <2> QED
    BY <2>1, <2>2, RoamsDoes DEF Settled
<1> QED
  BY <1>1, <1>2

\* The join that waited for a survey.
LEMMA JoinAfterSurveyDoes ==
  ASSUME NEW s, Shape(s), NEW t \in JoinAfterSurvey(s)
  PROVE  /\ Settled(s, t)
         /\ t.to_join => HasSurvey(t.q)
         /\ t.linked => s.linked /\ t.to_roaming <= s.to_roaming
         /\ t.carrier /\ ~t.linked =>
              /\ s.carrier /\ (s.linked => s.to_roaming > 0)
              /\ t.to_roaming > 0 \/ t.to_roaming = s.to_roaming
              /\ Pending(t)
<1> DEFINE b == [s EXCEPT !.linking = TRUE, !.to_join = FALSE]
           n(u) == [u EXCEPT !.to_roaming = @ - 1]
           lost(u) == rtw_indicate_disconnect(rtw_free_assoc_resources(rtw_set_roaming(u, 0)))
           waits(x) == [x EXCEPT !.to_join = TRUE]
           ends(x) == [x EXCEPT !.linking = FALSE]
           tries == rtw_select_and_join_from_scanned_queue(b)
           timed(r) == [r.m EXCEPT !.assoc_timer = TRUE]
           Goal == /\ Settled(s, t)
                   /\ t.to_join => HasSurvey(t.q)
                   /\ t.linked => s.linked /\ t.to_roaming <= s.to_roaming
                   /\ t.carrier /\ ~t.linked =>
                        /\ s.carrier /\ (s.linked => s.to_roaming > 0)
                        /\ t.to_roaming > 0 \/ t.to_roaming = s.to_roaming
                        /\ Pending(t)
<1>1. PICK r \in tries :
        \/ t = timed(r)
        \/ r.m.to_roaming = 0 /\ t = ends(rtw_indicate_disconnect(r.m))
        \/ /\ r.m.to_roaming # 0 /\ n(r.m).to_roaming > 0
           /\ \E x \in rtw_sitesurvey_cmd(n(r.m)) : t = ends(waits(x))
        \/ r.m.to_roaming # 0 /\ t = ends(lost(r.m))
  <2>1. \E x \in tries : t = timed(x) \/ \E y \in NotFound(x.m) : t = ends(y)
    BY DEF JoinAfterSurvey
  <2>2. PICK x \in tries : t = timed(x) \/ \E y \in NotFound(x.m) : t = ends(y)
    BY <2>1, Zenon
  <2>3. ASSUME NEW y \in NotFound(x.m)
        PROVE  \/ x.m.to_roaming = 0 /\ y = rtw_indicate_disconnect(x.m)
               \/ /\ x.m.to_roaming # 0 /\ n(x.m).to_roaming > 0
                  /\ \E z \in rtw_sitesurvey_cmd(n(x.m)) : y = waits(z)
               \/ x.m.to_roaming # 0 /\ y = lost(x.m)
    BY DEF NotFound
  <2> HIDE DEF n, lost, waits, ends, timed, tries
  <2> QED
    BY <2>2, <2>3
<1>2. /\ Shape(b) /\ ~b.to_join /\ b.q = s.q /\ b.survey = s.survey
      /\ b.to_roaming = s.to_roaming /\ b.linked = s.linked /\ b.carrier = s.carrier
  BY DEF Shape, Field
<1> HIDE DEF b
<1>3. /\ Shape(r.m) /\ Same(b, r.m) /\ (HasSurvey(r.m.q) <=> HasSurvey(b.q)) /\ Torn(b, r.m)
  BY <1>2, SelectDoes
<1> HIDE DEF tries
<1> DEFINE u == r.m
<1>4. /\ Shape(u) /\ ~u.to_join /\ (HasSurvey(u.q) <=> HasSurvey(s.q)) /\ u.survey = s.survey
      /\ u.to_roaming = s.to_roaming
      /\ u.linked => s.linked
      /\ u.carrier => s.carrier /\ (s.linked /\ ~u.linked => s.to_roaming > 0)
  BY <1>2, <1>3 DEF Same, Torn
<1>5. u.to_roaming \in Nat
  BY <1>4 DEF Shape
<1> HIDE DEF u
<1>6. ASSUME NEW x, Shape(x)
      PROVE  /\ Shape(ends(x)) /\ ~ends(x).linking /\ ends(x).q = x.q /\ Same(x, ends(x))
             /\ ends(x).linked = x.linked /\ ends(x).carrier = x.carrier
             /\ Shape(waits(x)) /\ waits(x).to_join /\ waits(x).q = x.q
             /\ SameLink(x, waits(x)) /\ waits(x).to_roaming = x.to_roaming
  BY <1>6 DEF Shape, Field, Same, SameLink
<1>7. ASSUME t = timed(r) PROVE Goal
  <2>1. /\ Shape(t) /\ t.assoc_timer /\ t.q = u.q /\ t.survey = u.survey
        /\ t.to_join = u.to_join /\ t.to_roaming = u.to_roaming
        /\ t.linked = u.linked /\ t.carrier = u.carrier
    BY <1>4, <1>7 DEF Shape, Field, u
  <2>2. Settled(s, t)
    BY <1>4, <2>1 DEF Settled
  <2> QED
    BY <1>4, <1>5, <2>1, <2>2 DEF Pending
<1>8. ASSUME r.m.to_roaming = 0, t = ends(rtw_indicate_disconnect(r.m)) PROVE Goal
  <2> DEFINE d == rtw_indicate_disconnect(u)
  <2>1. Shape(d) /\ Same(u, d) /\ d.q = u.q /\ ~d.linked /\ ~d.carrier
    BY <1>4, <1>8, DisconnectDoes DEF u
  <2>2. t = ends(d)
    BY <1>8 DEF u
  <2> HIDE DEF d, ends, waits
  <2>3. /\ Shape(t) /\ ~t.linking /\ t.q = d.q /\ Same(d, t) /\ ~t.linked /\ ~t.carrier
    BY <1>6, <2>1, <2>2
  <2> QED
    BY <1>4, <2>1, <2>3 DEF Settled, Same
<1>9. ASSUME r.m.to_roaming # 0, n(r.m).to_roaming > 0,
             NEW x \in rtw_sitesurvey_cmd(n(r.m)), t = ends(waits(x))
      PROVE  Goal
  <2> DEFINE v == n(u)
  <2>1. v.to_roaming = u.to_roaming - 1 /\ v.to_roaming > 0
    BY <1>4, <1>9 DEF u, Shape, Field
  <2>2. Shape(v) /\ v.linked = u.linked /\ v.carrier = u.carrier /\ v.q = u.q
    <3>1. v.to_roaming \in Nat
      BY <1>5, <2>1
    <3> QED
      BY <1>4, <3>1 DEF Shape, Field
  <2>3. x \in rtw_sitesurvey_cmd(v)
    BY <1>9 DEF u
  <2> HIDE DEF v, ends, waits
  <2>4. Shape(x) /\ SameLink(v, x) /\ HasSurvey(x.q) /\ x.to_roaming = v.to_roaming
    BY <2>2, <2>3, SiteSurveyDoes
  <2>5. /\ Shape(waits(x)) /\ waits(x).to_join /\ waits(x).q = x.q
        /\ SameLink(x, waits(x)) /\ waits(x).to_roaming = x.to_roaming
    BY <1>6, <2>4
  <2>6. /\ Shape(t) /\ ~t.linking /\ t.q = waits(x).q /\ Same(waits(x), t)
        /\ t.linked = waits(x).linked /\ t.carrier = waits(x).carrier
    BY <1>6, <1>9, <2>5
  <2>7. /\ Shape(t) /\ ~t.linking /\ HasSurvey(t.q) /\ t.to_join
        /\ t.to_roaming = v.to_roaming /\ t.linked = u.linked /\ t.carrier = u.carrier
    BY <2>2, <2>4, <2>5, <2>6 DEF Same, SameLink
  <2>8. Settled(s, t) /\ Pending(t)
    BY <2>7 DEF Settled, Pending
  <2> QED
    BY <1>4, <1>5, <2>1, <2>7, <2>8
<1>10. ASSUME r.m.to_roaming # 0, t = ends(lost(r.m)) PROVE Goal
  <2> DEFINE z == rtw_set_roaming(u, 0)
             g == rtw_free_assoc_resources(z)
             d == rtw_indicate_disconnect(g)
  <2>1. Shape(z) /\ ~z.to_join /\ z.to_roaming = 0 /\ z.q = u.q /\ z.survey = u.survey
    BY <1>4 DEF rtw_set_roaming, Shape, Field
  <2>2. t = ends(d)
    BY <1>10 DEF u
  <2> HIDE DEF z, ends, waits
  <2>3. Shape(g) /\ Same(z, g) /\ g.q = z.q
    BY <2>1, FreeResourcesDoes
  <2> HIDE DEF g
  <2>4. Shape(d) /\ Same(g, d) /\ d.q = g.q /\ ~d.linked /\ (d.carrier => g.to_roaming > 0)
    BY <2>3, DisconnectDoes
  <2> HIDE DEF d
  <2>5. /\ Shape(t) /\ ~t.linking /\ t.q = d.q /\ Same(d, t) /\ t.linked = d.linked
        /\ t.carrier = d.carrier
    BY <1>6, <2>2, <2>4
  <2>6. ~t.linked /\ ~t.carrier /\ ~t.to_join /\ t.survey = s.survey /\ t.q = u.q
    BY <1>4, <2>1, <2>3, <2>4, <2>5 DEF Same
  <2> QED
    BY <1>4, <2>5, <2>6 DEF Settled
<1> HIDE DEF n, lost, waits, ends, timed, Goal
<1>11. Goal
  BY <1>1, <1>7, <1>8, <1>9, <1>10
<1> QED
  BY <1>11 DEF Goal

-----------------------------------------------------------------------------
(* The inductive invariant.                                                *)

ExtType == [st : SUBSET Flag, bss : BssOrNone, cnt : Nat]
ScanType == [st : {"disable", "txnull", "process"}, idx : Nat]
RxAt == {"idle", "pre", "ref", "sync", "enq", "beacon", "auth", "assoc"}
ThAt == {"idle", "cancel", "join", "del"}
Place(at) == [at : at, b : BssOrNone, f : BOOLEAN]

Types ==
  /\ ext \in ExtType /\ scan \in ScanType
  /\ lock \in BOOLEAN /\ joinfires \in BOOLEAN
  /\ rx \in Place(RxAt) /\ lt \in Place(RxAt) /\ th \in Place(ThAt)

\* pmlmepriv->lock is held across steps by the tasklet that cancels
\* assoc_timer alone, and what it did before is still so: the link is up, and no
\* join waits for the timer that is about to go.
SyncLinked ==
  /\ lock <=> rx.at = "sync"
  /\ lock => m.linked /\ ~m.linking

\* A survey goes on, or the memory for its next step was not found.
SurveySoon == NoMem \/ (scan.st # "disable" /\ surveytimer) \/ HasSurvey(m.q)
Coming == SurveySoon \/ th.at \in {"cancel", "join"}

\* ToJoinHasSurvey and RoamIsPending, as long as there is memory.
ToJoinComing == m.to_join => Coming
RoamComing ==
  m.carrier /\ ~m.linked =>
    /\ m.to_roaming > 0
    /\ m.assoc_timer \/ joinfires \/ (m.to_join /\ Coming)

\* The survey flag has a survey behind it whose end is still to be reported:
\* stronger than Coming, since the callback that has cleared the flag
\* does not count.  Without it a join that is postponed until "the survey that
\* is under way" may wait for one that has just been reported.
SurveyIsComing == m.survey => SurveySoon

Core == Shape(m) /\ SyncLinked /\ LinkingIsTimed /\ SurveyIsComing /\ ToJoinComing

IInv == Types /\ Core

\* Roaming is over while there is a link: rtw_indicate_connect clears
\* to_roaming, and it is set only where a link is lost.
RInv == (m.linked => m.to_roaming = 0) /\ RoamComing

\* What every step has to be shown to do.
Kept == Core' /\ (~NoMem /\ RInv => RInv')

LEMMA ComingIs == Coming <=> SurveySoon \/ th.at \in {"cancel", "join"}
BY DEF Coming

LEMMA ComingIsNext == Coming' <=> SurveySoon' \/ th'.at \in {"cancel", "join"}
BY DEF Coming

LEMMA ComingIsSurvey ==
  ASSUME ~NoMem
  PROVE  Coming <=> SurveyComing
BY DEF Coming, SurveyComing, SurveySoon, HasSurvey

\* A step that neither makes nor breaks a link, nor stops what is coming.
Calm ==
  /\ m'.linked = m.linked /\ m'.carrier = m.carrier /\ m'.to_roaming = m.to_roaming
  /\ m'.linking => m.linking
  /\ m.assoc_timer \/ joinfires => m'.assoc_timer \/ joinfires'
  /\ m'.survey => SurveySoon'
  /\ m.to_join => m'.to_join
  /\ m'.to_join => Coming'

LockKept == lock' = lock /\ (rx'.at = "sync" <=> rx.at = "sync")

LEMMA CalmKeeps ==
  ASSUME IInv, Shape(m'), Calm, LockKept
  PROVE  Kept
<1>1. SyncLinked'
  BY DEF IInv, Core, Calm, LockKept, SyncLinked
<1>2. LinkingIsTimed'
  BY DEF IInv, Core, Calm, LinkingIsTimed
<1>3. SurveyIsComing' /\ ToJoinComing'
  BY DEF Calm, SurveyIsComing, ToJoinComing
<1>4. RInv => RInv'
  BY DEF RInv, RoamComing, Calm
<1> QED
  BY <1>1, <1>2, <1>3, <1>4 DEF Kept, Core

\* A step that appends at most a command, or sets a field of no interest.
LEMMA AppendIsCalm ==
  ASSUME IInv, Shape(m'), Same(m, m'), SameLink(m, m'), HasSurvey(m.q) => HasSurvey(m'.q),
         UNCHANGED <<scan, surveytimer, th, joinfires>>
  PROVE  Calm
<1>1. SurveySoon => SurveySoon'
  BY DEF SurveySoon
<1>2. Coming => Coming'
  BY <1>1, ComingIs, ComingIsNext
<1> QED
  BY <1>1, <1>2 DEF Calm, Same, SameLink, IInv, Core, SurveyIsComing, ToJoinComing

LEMMA EnqueueIsCalm ==
  ASSUME IInv, NEW c \in Command, m' = m \/ m' = Enqueue(m, c),
         UNCHANGED <<scan, surveytimer, th, joinfires>>
  PROVE  Shape(m') /\ Calm
<1>1. Shape(m)
  BY DEF IInv, Core
<1>2. Shape(m') /\ Same(m, m') /\ SameLink(m, m') /\ (HasSurvey(m.q) => HasSurvey(m'.q))
  <2>1. CASE m' = m
    BY <1>1, <2>1 DEF Same, SameLink
  <2>2. CASE m' = Enqueue(m, c)
    BY <1>1, <2>2, EnqueueDoes
  <2> QED
    BY <2>1, <2>2
<1> QED
  BY <1>2, AppendIsCalm

\* A step under the lock, by one of the functions above.
LEMMA SettledKeeps ==
  ASSUME IInv, ~lock, LockKept, Settled(m, m'), UNCHANGED <<scan, surveytimer>>,
         m'.to_join => Coming',
         ~NoMem /\ RInv => RInv'
  PROVE  Kept
<1>1. SyncLinked'
  BY DEF LockKept, SyncLinked, IInv, Core
<1>2. LinkingIsTimed'
  BY DEF Settled, LinkingIsTimed
<1>3. SurveyIsComing'
  BY DEF Settled, IInv, Core, SurveyIsComing, SurveySoon
<1> QED
  BY <1>1, <1>2, <1>3 DEF Kept, Core, Settled, ToJoinComing

\* The same with the command thread where it was.
LEMMA SettledComing ==
  ASSUME IInv, Settled(m, m'), UNCHANGED <<scan, surveytimer, th>>
  PROVE  /\ Coming => Coming'
         /\ HasSurvey(m'.q) => Coming'
         /\ m.to_join => Coming'
<1>1. SurveySoon => SurveySoon'
  BY DEF SurveySoon, Settled
<1>2. HasSurvey(m'.q) => SurveySoon'
  BY DEF SurveySoon
<1> QED
  BY <1>1, <1>2, ComingIs, ComingIsNext DEF IInv, Core, ToJoinComing

\* A step that leaves struct mlme_priv alone.
LEMMA AloneKeeps ==
  ASSUME IInv, UNCHANGED <<m, scan, surveytimer, th, joinfires>>, LockKept
  PROVE  Kept
<1>1. Same(m, m') /\ SameLink(m, m') /\ (HasSurvey(m.q) => HasSurvey(m'.q)) /\ Shape(m')
  BY DEF IInv, Core, Same, SameLink
<1> QED
  BY <1>1, AppendIsCalm, CalmKeeps

-----------------------------------------------------------------------------
(* The user.                                                               *)

LEMMA SetTargetKeeps ==
  ASSUME IInv, NEW s, NEW same, SetTarget(s, same), ~lock,
         UNCHANGED <<lock, rx, scan, th, surveytimer, joinfires>>
  PROVE  Kept
<1> DEFINE torn == IF ~m.survey /\ m.linked /\ ~same THEN Disassociated(m) ELSE {m}
<1>0. \/ m' = m
      \/ \E x \in torn :
           LET y == [x EXCEPT !.ssid = s.ssid, !.bssid = s.bssid]
           IN  \/ m' = x
               \/ m.survey /\ m' = [y EXCEPT !.to_join = TRUE]
               \/ \E r \in rtw_do_join(y) : m' = r.m
  BY DEF SetTarget
<1>1. CASE m' = m
  BY <1>1, AloneKeeps DEF LockKept
<1>t. SUFFICES ASSUME NEW t \in torn,
                      LET y == [t EXCEPT !.ssid = s.ssid, !.bssid = s.bssid]
                      IN  \/ m' = t
                          \/ m.survey /\ m' = [y EXCEPT !.to_join = TRUE]
                          \/ \E r \in rtw_do_join(y) : m' = r.m
               PROVE  Kept
  BY <1>0, <1>1
<1> DEFINE u == [t EXCEPT !.ssid = s.ssid, !.bssid = s.bssid]
<1>2. Shape(m) /\ LockKept
  BY DEF IInv, Core, LockKept
<1>4. CASE m.survey /\ m' = [u EXCEPT !.to_join = TRUE]
  <2>1. m' = [[m EXCEPT !.ssid = s.ssid, !.bssid = s.bssid] EXCEPT !.to_join = TRUE]
    <3>1. t = m
      BY <1>4
    <3> QED
      BY <1>4, <3>1
  <2>2. /\ Shape(m') /\ SameLink(m, m') /\ m'.q = m.q /\ m'.to_join /\ m'.survey = m.survey
        /\ m'.to_roaming = m.to_roaming /\ m'.assoc_timer = m.assoc_timer
    BY <1>2, <2>1 DEF Shape, Field, SameLink
  <2>3. SurveySoon /\ SurveySoon'
    BY <1>4, <2>2 DEF IInv, Core, SurveyIsComing, SurveySoon
  <2>4. Calm
    BY <2>2, <2>3, ComingIsNext DEF Calm, SameLink
  <2> QED
    BY <1>2, <2>2, <2>4, CalmKeeps
<1>5. /\ Shape(t) /\ Same(m, t) /\ (HasSurvey(t.q) <=> HasSurvey(m.q)) /\ Torn(m, t)
      /\ t.linking => m.linking
  <2>1. CASE ~m.survey /\ m.linked /\ ~same
    <3>1. t \in Disassociated(m)
      BY <2>1
    <3> QED
      BY <1>2, <2>1, <3>1, DisassociatedDoes DEF Same, Torn, Shape
  <2>2. CASE ~(~m.survey /\ m.linked /\ ~same)
    <3>1. t = m
      BY <2>2
    <3> QED
      BY <1>2, <3>1 DEF Same, Torn
  <2> QED
    BY <2>1, <2>2
<1>6. CASE m' = t
  \* A link that is torn down was not roaming, so the system is told.
  <2>1. SurveySoon => SurveySoon'
    BY <1>5, <1>6 DEF SurveySoon
  <2>2. Coming => Coming'
    BY <2>1, ComingIs, ComingIsNext
  <2>3. SyncLinked' /\ SurveyIsComing' /\ ToJoinComing' /\ Shape(m')
    BY <1>2, <1>5, <1>6, <2>1, <2>2
       DEF LockKept, SyncLinked, IInv, Core, SurveyIsComing, ToJoinComing, Same
  <2>4. LinkingIsTimed'
    BY <1>5, <1>6 DEF IInv, Core, LinkingIsTimed, Same
  <2>5. RInv => RInv'
    BY <1>5, <1>6, <2>2 DEF RInv, RoamComing, Torn, Same
  <2> QED
    BY <2>3, <2>4, <2>5 DEF Kept, Core
<1>7. ASSUME NEW r \in rtw_do_join(u), m' = r.m PROVE Kept
  <2>1. /\ Shape(u) /\ u.survey = t.survey /\ u.q = t.q /\ u.to_roaming = t.to_roaming
        /\ u.linked = t.linked /\ u.carrier = t.carrier
    BY <1>5 DEF Shape, Field
  <2> HIDE DEF u
  <2>2. /\ Settled(u, m') /\ Torn(u, m')
        /\ m'.to_join => HasSurvey(m'.q)
        /\ r.ok => Pending(m')
        /\ ~r.ok => NoMem \/ u.to_roaming = 0
    BY <1>7, <2>1, DoJoinDoes
  <2>3. Settled(m, m')
    BY <1>5, <2>1, <2>2 DEF Settled, Same
  <2>4. HasSurvey(m'.q) => Coming'
    BY <2>3, SettledComing
  <2>5. Torn(m, m')
    BY <1>5, <2>1, <2>2 DEF Torn
  <2>6. u.to_roaming = m.to_roaming
    BY <1>5, <2>1 DEF Same
  <2>7. ASSUME ~NoMem, RInv PROVE RInv'
    <3>1. m'.linked => m'.to_roaming = 0
      BY <2>5, <2>7 DEF RInv, Torn
    <3>2. ASSUME m'.carrier, ~m'.linked
          PROVE  m'.to_roaming > 0 /\ Pending(m')
      BY <2>2, <2>5, <2>6, <2>7, <3>2 DEF RInv, RoamComing, Torn
    <3> QED
      BY <2>4, <3>1, <3>2 DEF RInv, RoamComing, Pending
  <2> QED
    BY <1>2, <2>2, <2>3, <2>4, <2>7, SettledKeeps
<1> QED
  BY <1>t, <1>4, <1>6, <1>7

LEMMA UserKeeps ==
  ASSUME IInv, User
  PROVE  Kept
<1>1. ASSUME NEW x \in Ssid, SetSsid(x) PROVE Kept
  BY <1>1, SetTargetKeeps DEF SetSsid, timers
<1>2. ASSUME NEW b \in Bss, SetBssid(b) PROVE Kept
  BY <1>2, SetTargetKeeps DEF SetBssid, timers
<1>3. CASE Disassociate
  <2>1. m.linked /\ m' \in Disassociated(m) /\ ~lock
    BY <1>3 DEF Disassociate
  <2>2. UNCHANGED <<lock, rx, scan, th, surveytimer, joinfires>>
    BY <1>3 DEF Disassociate, timers
  <2>3. /\ Shape(m') /\ Same(m, m') /\ (HasSurvey(m'.q) <=> HasSurvey(m.q))
        /\ ~m'.linked /\ ~m'.linking /\ (m'.carrier => m.to_roaming > 0)
    BY <2>1, DisassociatedDoes DEF IInv, Core
  <2>4. Settled(m, m')
    BY <2>3 DEF Settled, Same
  <2>5. m'.to_join => Coming'
    BY <2>2, <2>3, <2>4, SettledComing DEF Same
  <2>6. RInv => RInv'
    BY <2>1, <2>3 DEF RInv, RoamComing
  <2> QED
    BY <2>1, <2>2, <2>4, <2>5, <2>6, SettledKeeps DEF LockKept
<1>4. CASE ScanChecks
  BY <1>4, AloneKeeps DEF ScanChecks, LockKept, timers
<1> QED
  BY <1>1, <1>2, <1>3, <1>4 DEF User

LEMMA ScanStartsKeeps ==
  ASSUME IInv, ScanStarts
  PROVE  Kept
<1>1. m' \in rtw_sitesurvey_cmd(m) \/ m' = m
  BY DEF ScanStarts
<1>2. UNCHANGED <<lock, rx, scan, th, surveytimer, joinfires>>
  BY DEF ScanStarts, timers
<1>3. LockKept /\ Shape(m)
  BY <1>2 DEF LockKept, IInv, Core
<1>4. CASE m' = m
  BY <1>2, <1>3, <1>4, AloneKeeps
<1>5. CASE m' \in rtw_sitesurvey_cmd(m)
  <2>1. /\ Shape(m') /\ SameLink(m, m') /\ HasSurvey(m'.q)
        /\ m'.to_join = m.to_join /\ m'.to_roaming = m.to_roaming
        /\ m'.assoc_timer = m.assoc_timer
    BY <1>3, <1>5, SiteSurveyDoes
  <2>2. SurveySoon' /\ Coming'
    BY <2>1, ComingIsNext DEF SurveySoon
  <2>3. Calm
    BY <1>2, <2>1, <2>2 DEF Calm, SameLink
  <2> QED
    BY <1>3, <2>1, <2>3, CalmKeeps
<1> QED
  BY <1>1, <1>4, <1>5

-----------------------------------------------------------------------------
(* The air and the receive tasklet.                                        *)

\* A frame that is not reported yet.
LEMMA SeesKeeps ==
  ASSUME IInv, NEW at, NEW tests, Sees(at, tests), at # "sync"
  PROVE  Kept
<1>1. UNCHANGED <<m, scan, surveytimer, th, joinfires, lock>> /\ rx.at = "idle" /\ rx'.at = at
  BY DEF Sees, Idle, timers
<1> QED
  BY <1>1, AloneKeeps DEF LockKept

LEMMA QueuedKeeps ==
  ASSUME IInv, NEW c \in Command, m' = m \/ m' = Enqueue(m, c),
         UNCHANGED <<scan, surveytimer, th, joinfires>>, LockKept
  PROVE  Kept
BY EnqueueIsCalm, CalmKeeps

LEMMA AirKeeps ==
  ASSUME IInv, Air
  PROVE  Kept
<1>1. ASSUME NEW b \in Bss, SeesBss(b) PROVE Kept
  <2>1. m' = Enqueue(m, CmdOf("sawbss", b, FALSE)) /\ UNCHANGED <<scan, surveytimer, th, joinfires, lock, rx>>
    BY <1>1 DEF SeesBss, timers
  <2>2. CmdOf("sawbss", b, FALSE) \in Command
    BY CmdTyped DEF BssOrNone
  <2> QED
    BY <2>1, <2>2, QueuedKeeps DEF LockKept
<1>2. CASE SeesBeacon \/ SeesAuth \/ SeesAssoc
  BY <1>2, SeesKeeps DEF SeesBeacon, SeesAuth, SeesAssoc
<1>3. CASE Deauth
  <2> DEFINE c == CmdOf("delsta", ext.bss, FALSE)
  <2>1. c \in Command
    BY CmdTyped DEF IInv, Types, ExtType, Place
  <2>2. m' = m \/ m' = Enqueue(m, c)
    BY <1>3 DEF Deauth, Posted
  <2>3. UNCHANGED <<scan, surveytimer, th, joinfires, lock>>
    BY <1>3 DEF Deauth, timers
  <2>4. LockKept
    <3>1. rx = Idle /\ (rx' = Idle \/ rx' = Failed(ext.bss))
      BY <1>3 DEF Deauth, Reported
    <3> QED
      BY <2>3, <3>1 DEF LockKept, Idle, Failed
  <2> QED
    BY <2>1, <2>2, <2>3, <2>4, QueuedKeeps
<1>4. CASE Expires
  <2>1. CmdOf("delsta", ext.bss, TRUE) \in Command
    BY CmdTyped DEF IInv, Types, ExtType, Place
  <2>2. /\ m' = m \/ m' = Enqueue(m, CmdOf("delsta", ext.bss, TRUE))
        /\ UNCHANGED <<scan, surveytimer, th, joinfires, lock, rx>>
    BY <1>4 DEF Expires, Posted, timers
  <2> QED
    BY <2>1, <2>2, QueuedKeeps DEF LockKept
<1> QED
  BY <1>1, <1>2, <1>3, <1>4 DEF Air

\* rtw_joinbss_event_prehandle, of a failure: assoc_timer is set, to go on from
\* there, and of an answer nobody waits for.
LEMMA PrehandleIsCalm ==
  ASSUME IInv, NEW p, PrehandleFails(p) \/ PrehandleIgnores(p),
         UNCHANGED <<scan, surveytimer, th, joinfires>>
  PROVE  Shape(m') /\ Calm
<1>1. Shape(m)
  BY DEF IInv, Core
<1>2. /\ Shape(m') /\ m'.linked = m.linked /\ m'.carrier = m.carrier
      /\ m'.to_roaming = m.to_roaming /\ m'.to_join = m.to_join /\ m'.survey = m.survey
      /\ m'.q = m.q /\ (m'.linking => m.linking) /\ (m.assoc_timer => m'.assoc_timer)
  <2>1. CASE PrehandleFails(p)
    BY <1>1, <2>1 DEF PrehandleFails, rtw_reset_securitypriv, Shape, Field, BssOrNone
  <2>2. CASE PrehandleIgnores(p)
    BY <1>1, <2>2 DEF PrehandleIgnores, Shape, Field
  <2> QED
    BY <2>1, <2>2
<1>3. SurveySoon' <=> SurveySoon
  BY <1>2 DEF SurveySoon
<1>4. Coming' <=> Coming
  BY <1>3, ComingIs, ComingIsNext
<1> QED
  BY <1>2, <1>3, <1>4 DEF Calm, IInv, Core, SurveyIsComing, ToJoinComing

\* A success: the link is up, nothing else waits.
LEMMA JoinedDoes ==
  ASSUME NEW s, Shape(s), NEW b \in s.scanned
  PROVE  LET t == Joined(s, b)
         IN  /\ Shape(t) /\ t.linked /\ ~t.linking /\ ~t.survey /\ ~t.to_join
             /\ t.to_roaming = 0 /\ t.q = s.q
<1> DEFINE old == IF s.linked /\ s.cur = b THEN s
                  ELSE IF s.linked THEN [s EXCEPT !.fixed = (@ \ {s.cur}) \cup {b},
                                                  !.sta = @ \ {s.cur}]
                  ELSE [s EXCEPT !.fixed = @ \cup {b}]
           mid == [old EXCEPT !.cur = b, !.sta = @ \cup {b},
                              !.linked = FALSE, !.linking = FALSE, !.survey = FALSE]
           t == rtw_indicate_connect(mid)
<1>1. Shape(old) /\ old.q = s.q
  BY DEF Shape, Field
<1> HIDE DEF old
<1>2. Shape(mid) /\ mid.q = s.q /\ ~mid.linking /\ ~mid.survey
  BY <1>1 DEF Shape, Field
<1> HIDE DEF mid
<1>3. /\ Shape(t) /\ t.linked /\ ~t.linking /\ ~t.survey /\ ~t.to_join
      /\ t.to_roaming = 0 /\ t.q = s.q
  BY <1>2 DEF rtw_indicate_connect, Shape, Field
<1> HIDE DEF t
<1>4. Joined(s, b) = t
  BY Zenon DEF Joined, t, mid, old
<1> QED
  BY <1>3, <1>4

LEMMA TaskletKeeps ==
  ASSUME IInv, Tasklet
  PROVE  Kept
<1>1. CASE StartAuth
  <2>1. UNCHANGED <<scan, surveytimer, th, joinfires, lock>> /\ rx.at = "beacon" /\ rx'.at = "idle"
    BY <1>1 DEF StartAuth, Idle
  <2>2. m' = [m EXCEPT !.cur = rx.b] \/ m' = m
    BY <1>1 DEF StartAuth
  <2>3. Shape(m') /\ Same(m, m') /\ SameLink(m, m') /\ m'.q = m.q
    BY <2>2 DEF IInv, Core, Shape, Field, Same, SameLink
  <2> QED
    BY <2>1, <2>3, AppendIsCalm, CalmKeeps DEF LockKept
<1>2. CASE AuthGoesOn
  BY <1>2, AloneKeeps DEF AuthGoesOn, LockKept, Idle
<1>3. CASE StartAssoc
  BY <1>3, AloneKeeps DEF StartAssoc, LockKept, Idle
<1>4. ASSUME NEW ok \in BOOLEAN, AssocAnswered(ok) PROVE Kept
  BY <1>4, AloneKeeps DEF AssocAnswered, Reported, Idle, LockKept
<1>5. CASE RxReports
  <2>1. UNCHANGED <<scan, surveytimer, th, joinfires, lock>>
    BY <1>5 DEF RxReports, timers
  <2>2. LockKept
    <3>1. rx' = [rx EXCEPT !.at = "enq"] /\ rx.at \in {"pre", "ref"}
      BY <1>5 DEF RxReports, PrehandleFails, PrehandleIgnores
    <3> QED
      BY <2>1, <3>1 DEF LockKept, IInv, Types
  <2> QED
    BY <1>5, <2>1, <2>2, PrehandleIsCalm, CalmKeeps DEF RxReports
<1>6. CASE RxJoins
  <2>1. UNCHANGED <<scan, surveytimer, th, joinfires>>
    BY <1>6 DEF RxJoins, timers
  <2>2. m' = Joined(m, rx.b) /\ rx.b \in m.scanned
    BY <1>6 DEF RxJoins, PrehandleJoins
  <2>3. /\ Shape(m') /\ m'.linked /\ ~m'.linking /\ ~m'.survey /\ ~m'.to_join
        /\ m'.to_roaming = 0
    BY <2>2, JoinedDoes DEF IInv, Core
  <2>4. rx'.at = "sync" /\ lock' = TRUE
    BY <1>6 DEF RxJoins, IInv, Types
  <2>5. SyncLinked'
    BY <2>3, <2>4 DEF SyncLinked
  <2> QED
    BY <2>3, <2>5 DEF Kept, Core, LinkingIsTimed, SurveyIsComing, ToJoinComing, RInv,
                      RoamComing
<1>7. CASE RxCancels
  \* The timer goes while the link is up and nothing waits for it.
  <2>1. /\ UNCHANGED <<scan, surveytimer, th, joinfires>> /\ rx.at = "sync"
        /\ m' = [m EXCEPT !.assoc_timer = FALSE] /\ lock' = FALSE
        /\ rx' = [rx EXCEPT !.at = "enq"]
    BY <1>7 DEF RxCancels, timers
  <2>2. m.linked /\ ~m.linking
    BY <2>1 DEF IInv, Core, SyncLinked
  <2>3. /\ Shape(m') /\ SameLink(m, m') /\ m'.q = m.q /\ m'.survey = m.survey
        /\ m'.to_join = m.to_join /\ m'.to_roaming = m.to_roaming
    BY <2>1 DEF IInv, Core, Shape, Field, SameLink
  <2>4. (SurveySoon' <=> SurveySoon) /\ (Coming' <=> Coming)
    BY <2>1, <2>3, ComingIs, ComingIsNext DEF SurveySoon
  <2>5. SyncLinked'
    BY <2>1 DEF SyncLinked, IInv, Types
  <2>6. LinkingIsTimed' /\ (RInv => RInv')
    BY <2>2, <2>3 DEF LinkingIsTimed, SameLink, RInv, RoamComing
  <2>7. SurveyIsComing' /\ ToJoinComing'
    BY <2>3, <2>4 DEF SurveyIsComing, ToJoinComing, IInv, Core
  <2> QED
    BY <2>3, <2>5, <2>6, <2>7 DEF Kept, Core
<1>8. CASE RxQueues
  <2>1. m' = Enqueue(m, CmdOf("joinres", rx.b, rx.f)) /\ UNCHANGED <<scan, surveytimer, th, joinfires, lock>>
        /\ rx.at = "enq" /\ rx' = Idle
    BY <1>8 DEF RxQueues, EventQueued, timers
  <2>2. CmdOf("joinres", rx.b, rx.f) \in Command
    BY CmdTyped DEF IInv, Types, ExtType, Place
  <2>3. LockKept
    BY <2>1 DEF LockKept, Idle
  <2> QED
    BY <2>1, <2>2, <2>3, QueuedKeeps
<1> QED
  BY <1>1, <1>2, <1>3, <1>4, <1>5, <1>6, <1>7, <1>8 DEF Tasklet

-----------------------------------------------------------------------------
(* The timers.                                                             *)

LEMMA LinkTimerHdlKeeps ==
  ASSUME IInv, LinkTimerHdl
  PROVE  Kept
<1>1. CASE LinkTimer
  BY <1>1, AloneKeeps DEF LinkTimer, LockKept
<1>2. CASE LtReports
  <2>1. UNCHANGED <<scan, surveytimer, th, joinfires, lock, rx>>
    BY <1>2 DEF LtReports, timers
  <2> QED
    BY <1>2, <2>1, PrehandleIsCalm, CalmKeeps DEF LtReports, LockKept
<1>3. CASE LtQueues
  <2>1. /\ m' = Enqueue(m, CmdOf("joinres", lt.b, lt.f))
        /\ UNCHANGED <<scan, surveytimer, th, joinfires, lock, rx>>
    BY <1>3 DEF LtQueues, EventQueued, timers
  <2>2. CmdOf("joinres", lt.b, lt.f) \in Command
    BY CmdTyped DEF IInv, Types, ExtType, Place
  <2> QED
    BY <2>1, <2>2, QueuedKeeps DEF LockKept
<1> QED
  BY <1>1, <1>2, <1>3 DEF LinkTimerHdl

LEMMA TimersKeep ==
  ASSUME IInv,
         AssocTimerExpires \/ ScanTimerExpires \/ ScanTimeout \/ SurveyTimer
  PROVE  Kept
<1>1. CASE AssocTimerExpires
  <2>1. /\ UNCHANGED <<scan, surveytimer, th, lock, rx>> /\ joinfires' = TRUE
        /\ m' = [m EXCEPT !.assoc_timer = FALSE]
    BY <1>1 DEF AssocTimerExpires
  <2>2. /\ Shape(m') /\ SameLink(m, m') /\ m'.q = m.q /\ m'.survey = m.survey
        /\ m'.to_join = m.to_join /\ m'.to_roaming = m.to_roaming
    BY <2>1 DEF IInv, Core, Shape, Field, SameLink
  <2>3. (SurveySoon' <=> SurveySoon) /\ (Coming' <=> Coming)
    BY <2>1, <2>2, ComingIs, ComingIsNext DEF SurveySoon
  <2>4. Calm
    BY <2>1, <2>2, <2>3 DEF Calm, SameLink, IInv, Core, SurveyIsComing, ToJoinComing
  <2> QED
    BY <2>1, <2>2, <2>4, CalmKeeps DEF LockKept
<1>2. CASE ScanTimerExpires
  <2>1. UNCHANGED <<scan, surveytimer, th, lock, rx, joinfires>> /\ m' = [m EXCEPT !.scan_timer = FALSE]
    BY <1>2 DEF ScanTimerExpires
  <2>2. Shape(m') /\ Same(m, m') /\ SameLink(m, m') /\ m'.q = m.q
    BY <2>1 DEF IInv, Core, Shape, Field, Same, SameLink
  <2> QED
    BY <2>1, <2>2, AppendIsCalm, CalmKeeps DEF LockKept
<1>3. CASE ScanTimeout
  <2>1. UNCHANGED <<scan, surveytimer, th, lock, rx, joinfires>> /\ m' = [m EXCEPT !.survey = FALSE]
    BY <1>3 DEF ScanTimeout
  <2>2. /\ Shape(m') /\ SameLink(m, m') /\ m'.q = m.q /\ ~m'.survey
        /\ m'.to_join = m.to_join /\ m'.to_roaming = m.to_roaming
        /\ m'.assoc_timer = m.assoc_timer
    BY <2>1 DEF IInv, Core, Shape, Field, SameLink
  <2>3. (SurveySoon' <=> SurveySoon) /\ (Coming' <=> Coming)
    BY <2>1, <2>2, ComingIs, ComingIsNext DEF SurveySoon
  <2>4. Calm
    BY <2>1, <2>2, <2>3 DEF Calm, SameLink, IInv, Core, ToJoinComing
  <2> QED
    BY <2>1, <2>2, <2>4, CalmKeeps DEF LockKept
<1>4. CASE SurveyTimer
  <2>1. /\ UNCHANGED <<th, lock, rx, joinfires>>
        /\ m' = m \/ m' = Enqueue(m, Cmd("survey"))
        /\ m' = m => NoMem \/ scan.st = "disable" \/ m = Enqueue(m, Cmd("survey"))
    BY <1>4 DEF SurveyTimer, Posted
  <2>2. scan'.st = scan.st
    BY <1>4 DEF SurveyTimer, IInv, Types
  <2>3. Shape(m') /\ Same(m, m') /\ SameLink(m, m') /\ (HasSurvey(m.q) => HasSurvey(m'.q))
    <3>1. Shape(m) /\ Cmd("survey") \in Command
      BY CmdTyped DEF IInv, Core
    <3>2. CASE m' = m
      BY <3>1, <3>2 DEF Same, SameLink
    <3>3. CASE m' = Enqueue(m, Cmd("survey"))
      BY <3>1, <3>3, EnqueueDoes
    <3> QED
      BY <2>1, <3>2, <3>3
  <2>4. (SurveySoon => SurveySoon') /\ (Coming => Coming')
    <3>1. HasSurvey(Enqueue(m, Cmd("survey")).q)
      BY CmdTyped, EnqueueDoes DEF IInv, Core
    <3>2. SurveySoon => SurveySoon'
      BY <2>1, <2>2, <2>3, <3>1 DEF SurveySoon
    <3> QED
      BY <2>1, <3>2, ComingIs, ComingIsNext
  <2>5. Calm
    BY <2>1, <2>3, <2>4 DEF Calm, Same, SameLink, IInv, Core, SurveyIsComing, ToJoinComing
  <2> QED
    BY <2>1, <2>3, <2>5, CalmKeeps DEF LockKept
<1> QED
  BY <1>1, <1>2, <1>3, <1>4

LEMMA JoinTimeoutKeeps ==
  ASSUME IInv, JoinTimeout
  PROVE  Kept
<1>1. UNCHANGED <<scan, surveytimer, th, lock, rx>> /\ ~lock
  BY DEF JoinTimeout
<1>2. LockKept /\ Shape(m) /\ m.to_roaming \in Nat
  BY <1>1 DEF LockKept, IInv, Core, Shape
<1>3. CASE m.to_roaming > 0
  <2>1. m' \in Roams(m, m.to_roaming - 1) /\ m.to_roaming - 1 \in Nat
    BY <1>2, <1>3 DEF JoinTimeout
  <2>2. /\ Settled(m, m')
        /\ m'.to_join => m.to_join \/ HasSurvey(m'.q)
        /\ ~m.linked => ~m'.linked /\ (m'.carrier => m'.to_roaming > 0 /\ Pending(m'))
    BY <1>2, <2>1, RoamsDoes
  <2>3. (m.to_join \/ HasSurvey(m'.q)) => Coming'
    BY <1>1, <2>2, SettledComing
  <2>4. RInv => RInv'
    \* There is no link while to_roaming is left.
    <3>1. RInv => ~m.linked
      BY <1>3 DEF RInv
    <3> QED
      BY <2>2, <2>3, <3>1 DEF RInv, RoamComing, Pending
  <2> QED
    BY <1>1, <1>2, <2>2, <2>3, <2>4, SettledKeeps
<1>4. CASE ~(m.to_roaming > 0)
  <2> DEFINE d == rtw_indicate_disconnect(m)
  <2>1. m' = [d EXCEPT !.scanned = {}, !.fixed = {}]
    BY <1>4 DEF JoinTimeout
  <2>2. Shape(d) /\ Same(m, d) /\ d.q = m.q /\ ~d.linked /\ ~d.linking /\ ~d.carrier
    BY <1>2, <1>4, DisconnectDoes
  <2> HIDE DEF d
  <2>3. Shape(m') /\ Same(d, m') /\ SameLink(d, m') /\ m'.q = d.q
    BY <2>1, <2>2 DEF Shape, Field, Same, SameLink
  <2>4. Settled(m, m') /\ m'.to_join = m.to_join /\ ~m'.linked /\ ~m'.carrier
    BY <2>2, <2>3 DEF Settled, Same, SameLink
  <2>5. m.to_join => Coming'
    BY <1>1, <2>4, SettledComing
  <2>6. RInv'
    BY <2>4 DEF RInv, RoamComing
  <2> QED
    BY <1>1, <1>2, <2>4, <2>5, <2>6, SettledKeeps
<1> QED
  BY <1>3, <1>4

-----------------------------------------------------------------------------
(* The command thread.                                                     *)

LEMMA PoppedDoes ==
  ASSUME IInv, NEW c, Takes(c)
  PROVE  /\ Shape(Popped) /\ Same(m, Popped) /\ SameLink(m, Popped)
         /\ Popped.q = Tail(m.q) /\ Popped.scanned = m.scanned /\ Popped.fixed = m.fixed
         /\ c \notin {"survey", "surveydone"} /\ HasSurvey(m.q) => HasSurvey(Popped.q)
         /\ Head(m.q) \in Command /\ Head(m.q).c = c /\ th = Idle
<1>1. Shape(m) /\ m.q \in Seq(Command) /\ m.q # <<>> /\ Head(m.q).c = c /\ th = Idle
  BY DEF IInv, Core, Shape, Takes
<1>2. /\ Tail(m.q) \in Seq(Command) /\ Head(m.q) \in Command
      /\ c \notin {"survey", "surveydone"} /\ HasSurvey(m.q) => HasSurvey(Tail(m.q))
  BY <1>1, TailSurvey
<1>3. /\ Shape(Popped) /\ Same(m, Popped) /\ SameLink(m, Popped) /\ Popped.q = Tail(m.q)
      /\ Popped.scanned = m.scanned /\ Popped.fixed = m.fixed
  BY <1>1, <1>2 DEF Popped, Shape, Field, Same, SameLink
<1> QED
  BY <1>1, <1>2, <1>3

\* A command that is no part of a survey.
LEMMA PopKeeps ==
  ASSUME IInv, NEW c, Takes(c), c \notin {"survey", "surveydone"},
         Shape(m'), SameLink(Popped, m'), m'.q = Popped.q,
         m'.survey = m.survey, m'.to_join = m.to_join, m'.to_roaming = m.to_roaming,
         m.assoc_timer => m'.assoc_timer,
         UNCHANGED <<scan, surveytimer, joinfires>>, th' = th \/ th'.at = "del", LockKept
  PROVE  Kept
<1>1. /\ SameLink(m, Popped) /\ (HasSurvey(m.q) => HasSurvey(Popped.q)) /\ th = Idle
  BY PoppedDoes
<1>2. SurveySoon => SurveySoon'
  BY <1>1 DEF SurveySoon
<1>3. Coming => Coming'
  BY <1>1, <1>2, ComingIs, ComingIsNext DEF Idle
<1>4. Calm
  BY <1>1, <1>2, <1>3 DEF Calm, SameLink, IInv, Core, SurveyIsComing, ToJoinComing
<1> QED
  BY <1>4, CalmKeeps

LEMMA CmdSurveyKeeps ==
  ASSUME IInv, CmdSurvey
  PROVE  Kept
<1> DEFINE begins == scan.st = "disable"
           nulls  == begins /\ Associated
           idx    == IF begins THEN 0 ELSE scan.idx
           ends   == ~nulls /\ idx = Channels
           done   == Enqueue(Popped, Cmd("surveydone"))
<1>1. /\ Takes("survey")
      /\ scan'.st = IF nulls THEN "txnull" ELSE IF ends THEN "disable" ELSE "process"
      /\ surveytimer' = (~ends \/ surveytimer)
      /\ m' = done \/ (m' = Popped /\ (NoMem \/ ~ends))
      /\ UNCHANGED <<joinfires, th, lock, rx>>
  BY DEF CmdSurvey, Posted
<1> HIDE DEF nulls, ends, idx
<1>2. Shape(Popped) /\ Same(m, Popped) /\ SameLink(m, Popped)
  BY <1>1, PoppedDoes
<1>3. Shape(done) /\ Same(m, done) /\ SameLink(m, done) /\ HasSurvey(done.q)
  <2>1. Cmd("surveydone") \in Command /\ Cmd("surveydone").c = "surveydone"
    BY CmdTyped
  <2> QED
    BY <1>2, <2>1, EnqueueDoes DEF Same, SameLink
<1>4. Shape(m') /\ Same(m, m') /\ SameLink(m, m') /\ SurveySoon'
  <2>1. CASE m' = done
    BY <1>3, <2>1 DEF SurveySoon
  <2>2. CASE m' = Popped /\ (NoMem \/ ~ends)
    <3>1. NoMem \/ (scan'.st # "disable" /\ surveytimer')
      BY <1>1, <2>2
    <3> QED
      BY <1>2, <2>2, <3>1 DEF SurveySoon
  <2> QED
    BY <1>1, <2>1, <2>2
<1>5. Calm
  BY <1>1, <1>4, ComingIsNext DEF Calm, Same, SameLink
<1> QED
  BY <1>1, <1>4, <1>5, CalmKeeps DEF LockKept

\* rtw_surveydone_event_callback, its three parts.
LEMMA SurveyDoneKeeps ==
  ASSUME IInv, CmdSurveyDone \/ DoneCancels \/ DoneJoins
  PROVE  Kept
<1>0. Shape(m)
  BY DEF IInv, Core
<1>1. CASE CmdSurveyDone
  <2>1. /\ Takes("surveydone") /\ m' = [Popped EXCEPT !.survey = FALSE]
        /\ th'.at \in {"cancel", "join"} /\ UNCHANGED <<scan, surveytimer, joinfires, lock, rx>>
    BY <1>1 DEF CmdSurveyDone, timers
  <2>2. Shape(Popped) /\ Same(m, Popped) /\ SameLink(m, Popped)
    BY <2>1, PoppedDoes
  <2>3. /\ Shape(m') /\ SameLink(Popped, m') /\ ~m'.survey /\ m'.to_join = Popped.to_join
        /\ m'.to_roaming = Popped.to_roaming /\ m'.assoc_timer = Popped.assoc_timer
    BY <2>1, <2>2 DEF Shape, Field, SameLink
  <2>4. Coming'
    BY <2>1, ComingIsNext
  <2>5. Calm
    BY <2>1, <2>2, <2>3, <2>4 DEF Calm, Same, SameLink
  <2> QED
    BY <2>1, <2>3, <2>5, CalmKeeps DEF LockKept
<1>2. CASE DoneCancels
  <2>1. /\ m' = [m EXCEPT !.scan_timer = FALSE] /\ th'.at = "join"
        /\ UNCHANGED <<scan, surveytimer, joinfires, lock, rx>>
    BY <1>2 DEF DoneCancels, timers, IInv, Types
  <2>2. Shape(m') /\ Same(m, m') /\ SameLink(m, m') /\ m'.q = m.q
    BY <1>0, <2>1 DEF Shape, Field, Same, SameLink
  <2>3. (SurveySoon' <=> SurveySoon) /\ Coming'
    BY <2>1, <2>2, ComingIsNext DEF SurveySoon
  <2>4. Calm
    BY <2>1, <2>2, <2>3 DEF Calm, Same, SameLink, IInv, Core, SurveyIsComing
  <2> QED
    BY <2>1, <2>2, <2>4, CalmKeeps DEF LockKept
<1>3. CASE DoneJoins
  <2>1. UNCHANGED <<scan, surveytimer, joinfires, lock, rx>> /\ ~lock /\ LockKept
    BY <1>3 DEF DoneJoins, timers, LockKept
  <2>2. CASE ~m.to_join
    <3>1. m' = m
      BY <1>3, <2>2 DEF DoneJoins
    <3>2. SurveySoon' <=> SurveySoon
      BY <2>1, <3>1 DEF SurveySoon
    <3>3. Calm
      BY <2>1, <2>2, <3>1, <3>2 DEF Calm, IInv, Core, SurveyIsComing
    <3> QED
      BY <1>0, <2>1, <3>1, <3>3, CalmKeeps
  <2>3. CASE m.to_join
    <3>1. m' \in JoinAfterSurvey(m)
      BY <1>3, <2>3 DEF DoneJoins
    <3>2. /\ Settled(m, m')
          /\ m'.to_join => HasSurvey(m'.q)
          /\ m'.linked => m.linked /\ m'.to_roaming <= m.to_roaming
          /\ m'.carrier /\ ~m'.linked =>
               /\ m.carrier /\ (m.linked => m.to_roaming > 0)
               /\ m'.to_roaming > 0 \/ m'.to_roaming = m.to_roaming
               /\ Pending(m')
      BY <1>0, <3>1, JoinAfterSurveyDoes
    <3>3. HasSurvey(m'.q) => Coming'
      BY ComingIsNext DEF SurveySoon
    <3>4. m'.to_roaming \in Nat
      BY <3>2 DEF Settled, Shape
    <3>5. ASSUME RInv PROVE RInv'
      <4>1. m'.linked => m'.to_roaming = 0
        BY <3>2, <3>4, <3>5 DEF RInv
      <4>2. ASSUME m'.carrier, ~m'.linked PROVE m'.to_roaming > 0 /\ Pending(m')
        BY <3>2, <3>5, <4>2 DEF RInv, RoamComing
      <4> QED
        BY <3>3, <4>1, <4>2 DEF RInv, RoamComing, Pending
    <3> QED
      BY <2>1, <3>2, <3>3, <3>5, SettledKeeps
  <2> QED
    BY <2>2, <2>3
<1> QED
  BY <1>1, <1>2, <1>3

\* The rest of rtw_stadel_event_callback: a link that is lost is looked for
\* again, or the system is told.
LEMMA DelStaKeeps ==
  ASSUME IInv, DelSta
  PROVE  Kept
<1> DEFINE l == RoamingLeft(m, th.f)
           g == rtw_free_assoc_resources(l)
           t == rtw_indicate_disconnect(g)
           s == [t EXCEPT !.scanned = @ \ {m.cur}]
<1>1. /\ th.at = "del" /\ ~lock /\ m' \in rtw_roaming(s)
      /\ th' = Idle /\ UNCHANGED <<scan, surveytimer, joinfires, lock, rx>>
  BY DEF DelSta, timers
<1>2. Shape(m) /\ LockKept
  BY <1>1 DEF IInv, Core, LockKept
<1>3. Shape(l) /\ l.q = m.q /\ l.survey = m.survey /\ (l.to_join => m.to_join)
  <2>1. ASSUME NEW k \in Nat
        PROVE  LET z == rtw_set_roaming(m, k)
               IN  Shape(z) /\ z.q = m.q /\ z.survey = m.survey /\ (z.to_join => m.to_join)
    BY <1>2 DEF rtw_set_roaming, Shape, Field
  <2>2. CASE l = rtw_set_roaming(m, 0) \/ l = rtw_set_roaming(m, MaxRoaming)
    BY <2>1, <2>2, MlmeAssumption
  <2>3. CASE m.to_roaming > 0 /\ l = [m EXCEPT !.to_roaming = @ - 1]
    <3>1. PICK k : k = m.to_roaming - 1
      OBVIOUS
    <3>2. k \in Nat /\ l = [m EXCEPT !.to_roaming = k]
      <4>1. m.to_roaming \in Nat
        BY <1>2 DEF Shape
      <4> QED
        BY <2>3, <3>1, <4>1
    <3> QED
      BY <1>2, <3>2 DEF Shape, Field
  <2> QED
    BY <2>2, <2>3 DEF RoamingLeft
<1> HIDE DEF l
<1>4. Shape(g) /\ Same(l, g) /\ g.q = l.q
  BY <1>3, FreeResourcesDoes
<1> HIDE DEF g
<1>5. /\ Shape(t) /\ Same(g, t) /\ t.q = g.q /\ ~t.linked /\ ~t.linking
      /\ t.carrier => g.to_roaming > 0
  BY <1>4, DisconnectDoes
<1> HIDE DEF t
<1>6. Shape(s) /\ Same(t, s) /\ SameLink(t, s) /\ s.q = t.q
  BY <1>5 DEF Shape, Field, Same, SameLink
<1> HIDE DEF s
<1>7. /\ ~s.linked /\ ~s.linking /\ (s.to_roaming = 0 => ~s.carrier)
      /\ s.q = m.q /\ s.survey = m.survey /\ (s.to_join => m.to_join)
  BY <1>3, <1>4, <1>5, <1>6 DEF Same, SameLink
<1>8. /\ Settled(s, m')
      /\ m'.to_join => s.to_join \/ HasSurvey(m'.q)
      /\ ~m'.linked /\ (m'.carrier => m'.to_roaming > 0 /\ Pending(m'))
  BY <1>1, <1>6, <1>7, RoamingDoes
<1>9. Settled(m, m')
  BY <1>7, <1>8 DEF Settled
<1>10. /\ SurveySoon => SurveySoon'
       /\ HasSurvey(m'.q) => Coming'
  BY <1>1, <1>9, ComingIsNext DEF Settled, SurveySoon
<1>11. m.to_join => Coming'
  BY <1>1, <1>10, ComingIs, ComingIsNext DEF IInv, Core, ToJoinComing
<1>12. m'.to_join => Coming'
  BY <1>7, <1>8, <1>10, <1>11
<1>13. RInv'
  BY <1>8, <1>10 DEF RInv, RoamComing, Pending
<1> QED
  BY <1>1, <1>2, <1>9, <1>12, <1>13, SettledKeeps

LEMMA ThreadKeeps ==
  ASSUME IInv, Thread
  PROVE  Kept
<1>1. CASE CmdJoin
  <2>1. /\ Takes("join") /\ UNCHANGED <<scan, surveytimer, joinfires, th, lock, rx>>
        /\ m' = Popped \/ m' = [Popped EXCEPT !.assoc_timer = TRUE]
    BY <1>1 DEF CmdJoin
  <2>2. Shape(Popped) /\ Same(m, Popped)
    BY <2>1, PoppedDoes
  <2>3. /\ Shape(m') /\ SameLink(Popped, m') /\ m'.q = Popped.q /\ m'.survey = m.survey
        /\ m'.to_join = m.to_join /\ m'.to_roaming = m.to_roaming
        /\ m.assoc_timer => m'.assoc_timer
    BY <2>1, <2>2 DEF Shape, Field, Same, SameLink
  <2> QED
    BY <2>1, <2>3, PopKeeps DEF LockKept
<1>2. ASSUME NEW c \in {"disc", "joinres", "delsta", "sawbss"}, Takes(c),
             \/ m' = Popped
             \/ m' = [Popped EXCEPT !.scanned = @ \cup {Head(m.q).b}] /\ Head(m.q).b \in BssOrNone,
             UNCHANGED <<scan, surveytimer, joinfires, lock, rx>>, th' = th \/ th'.at = "del"
      PROVE  Kept
  <2>1. Shape(Popped) /\ Same(m, Popped)
    BY <1>2, PoppedDoes
  <2>2. Shape(m') /\ SameLink(Popped, m') /\ m'.q = Popped.q /\ Same(m, m')
    BY <1>2, <2>1 DEF Shape, Field, Same, SameLink
  <2> QED
    BY <1>2, <2>2, PopKeeps DEF LockKept, Same
<1>3. CASE CmdDisc
  BY <1>2, <1>3 DEF CmdDisc
<1>4. CASE CmdJoinRes
  BY <1>2, <1>4 DEF CmdJoinRes, timers
<1>5. CASE CmdDelSta
  BY <1>2, <1>5 DEF CmdDelSta
<1>6. CASE CmdSawBss
  <2>1. /\ Takes("sawbss") /\ UNCHANGED <<scan, surveytimer, joinfires, lock, rx, th>>
        /\ m' = Popped \/ m' = [Popped EXCEPT !.scanned = @ \cup {Head(m.q).b}]
    BY <1>6 DEF CmdSawBss, timers
  <2>2. Head(m.q).b \in BssOrNone
    BY <2>1, PoppedDoes DEF Command, BssOrNone
  <2> QED
    BY <1>2, <2>1, <2>2
<1>7. CASE CmdSurvey
  BY <1>7, CmdSurveyKeeps
<1>8. CASE CmdSurveyDone \/ DoneCancels \/ DoneJoins
  BY <1>8, SurveyDoneKeeps
<1>9. CASE DelSta
  BY <1>9, DelStaKeeps
<1> QED
  BY <1>1, <1>3, <1>4, <1>5, <1>6, <1>7, <1>8, <1>9 DEF Thread

-----------------------------------------------------------------------------
(* Types.                                                                  *)

LEMMA ExtWrites ==
  ASSUME NEW e \in ExtType, NEW st \in SUBSET Flag, NEW b \in BssOrNone
  PROVE  /\ [e EXCEPT !.st = st] \in ExtType
         /\ [e EXCEPT !.st = st, !.cnt = 0] \in ExtType
         /\ [e EXCEPT !.st = st, !.bss = b] \in ExtType
         /\ [e EXCEPT !.cnt = @ + 1] \in ExtType
<1>1. [e EXCEPT !.st = st] \in ExtType /\ [e EXCEPT !.st = st, !.bss = b] \in ExtType
  BY DEF ExtType
<1>2. [e EXCEPT !.st = st, !.cnt = 0] \in ExtType
  BY DEF ExtType
<1>3. [e EXCEPT !.cnt = @ + 1] \in ExtType
  BY DEF ExtType
<1> QED
  BY <1>1, <1>2, <1>3

LEMMA PlaceWrites ==
  ASSUME NEW S, NEW p \in Place(S), NEW at \in S, NEW b \in BssOrNone, NEW f \in BOOLEAN
  PROVE  [p EXCEPT !.at = at] \in Place(S) /\ [at |-> at, b |-> b, f |-> f] \in Place(S)
BY DEF Place

LEMMA IdlePlaces == Idle \in Place(RxAt) /\ Idle \in Place(ThAt)
BY DEF Idle, Place, RxAt, ThAt, BssOrNone

LEMMA FailedPlaces ==
  ASSUME NEW b \in BssOrNone
  PROVE  Failed(b) \in Place(RxAt)
BY DEF Failed, Place, RxAt

LEMMA AirTypes ==
  ASSUME IInv, Air
  PROVE  Types'
<1>1. Types /\ ext.bss \in BssOrNone /\ ext.st \in SUBSET Flag
  BY DEF IInv, Types, ExtType
<1>2. ASSUME NEW at \in {"beacon", "auth", "assoc"}, NEW tests, Sees(at, tests) PROVE Types'
  <2>1. /\ rx' = [at |-> at, b |-> ext.bss, f |-> FALSE]
        /\ UNCHANGED <<ext, scan, lock, joinfires, lt, th>>
    BY <1>2 DEF Sees, timers
  <2>2. rx' \in Place(RxAt)
    BY <1>1, <2>1 DEF Place, RxAt
  <2> QED
    BY <1>1, <2>1, <2>2 DEF Types
<1>3. CASE SeesBeacon \/ SeesAuth \/ SeesAssoc
  BY <1>2, <1>3 DEF SeesBeacon, SeesAuth, SeesAssoc
<1>4. ASSUME NEW b \in Bss, SeesBss(b) PROVE Types'
  BY <1>1, <1>4 DEF SeesBss, timers, Types
<1>5. CASE Deauth \/ Expires
  <2>1. /\ ext' = [ext EXCEPT !.st = {}]
        /\ rx' = rx \/ rx' = Failed(ext.bss) \/ rx' = Idle
        /\ UNCHANGED <<scan, lock, joinfires, lt, th>>
    BY <1>5 DEF Deauth, Expires, Reported, timers
  <2>2. ext' \in ExtType
    BY <1>1, <2>1, ExtWrites DEF Types
  <2>3. rx' \in Place(RxAt)
    BY <1>1, <2>1, FailedPlaces, IdlePlaces DEF Types
  <2> QED
    BY <1>1, <2>1, <2>2, <2>3 DEF Types
<1> QED
  BY <1>3, <1>4, <1>5 DEF Air

LEMMA TaskletTypes ==
  ASSUME IInv, Tasklet
  PROVE  Types'
<1>1. Types /\ ext.bss \in BssOrNone /\ ext.st \in SUBSET Flag
  BY DEF IInv, Types, ExtType
<1>2. CASE StartAuth \/ AuthGoesOn \/ StartAssoc
  <2>1. rx' = Idle /\ UNCHANGED <<scan, lock, joinfires, lt, th>>
    BY <1>2 DEF StartAuth, AuthGoesOn, StartAssoc
  <2>2. ext' = ext \/ \E st \in SUBSET Flag : ext' = [ext EXCEPT !.st = st, !.cnt = 0]
    <3>1. /\ (ext.st \ {"authnull"}) \cup {"auth"} \in SUBSET Flag
          /\ (ext.st \ {"authnull", "auth"}) \cup {"authok", "assoc"} \in SUBSET Flag
      BY <1>1 DEF Flag
    <3> QED
      BY <1>2, <3>1 DEF StartAuth, AuthGoesOn, StartAssoc
  <2>3. ext' \in ExtType
    BY <1>1, <2>2, ExtWrites DEF Types
  <2> QED
    BY <1>1, <2>1, <2>3, IdlePlaces DEF Types
<1>3. ASSUME NEW ok \in BOOLEAN, AssocAnswered(ok) PROVE Types'
  <2>1. /\ UNCHANGED <<scan, lock, joinfires, lt, th>>
        /\ rx' = [at |-> IF ok THEN "pre" ELSE "ref", b |-> ext.bss, f |-> ok] \/ rx' = Idle
    BY <1>3 DEF AssocAnswered, Reported
  <2>2. \E st \in SUBSET Flag : ext' = [ext EXCEPT !.st = st]
    <3>1. /\ (ext.st \ {"assoc"}) \cup {"done"} \in SUBSET Flag /\ {} \in SUBSET Flag
      BY <1>1 DEF Flag
    <3> QED
      BY <1>3, <3>1 DEF AssocAnswered
  <2>3. ext' \in ExtType
    BY <1>1, <2>2, ExtWrites DEF Types
  <2>4. rx' \in Place(RxAt)
    <3>1. [at |-> IF ok THEN "pre" ELSE "ref", b |-> ext.bss, f |-> ok] \in Place(RxAt)
      BY <1>1 DEF Place, RxAt
    <3> QED
      BY <2>1, <3>1, IdlePlaces
  <2> QED
    BY <1>1, <2>1, <2>3, <2>4 DEF Types
<1>4. CASE RxReports \/ RxJoins \/ RxCancels \/ RxQueues
  <2>1. UNCHANGED <<ext, scan, joinfires, lt, th>> /\ lock' \in {lock, TRUE, FALSE}
    BY <1>4 DEF RxReports, RxJoins, RxCancels, RxQueues, timers
  <2>2. rx' = Idle \/ \E at \in RxAt : rx' = [rx EXCEPT !.at = at]
    BY <1>4 DEF RxReports, RxJoins, RxCancels, RxQueues, RxAt
  <2>3. rx' \in Place(RxAt)
    <3>1. CASE rx' = Idle
      BY <3>1, IdlePlaces
    <3>2. CASE \E at \in RxAt : rx' = [rx EXCEPT !.at = at]
      <4>1. PICK at \in RxAt : rx' = [rx EXCEPT !.at = at]
        BY <3>2
      <4>2. rx \in Place(RxAt)
        BY <1>1 DEF Types
      <4>3. NoBss \in BssOrNone /\ FALSE \in BOOLEAN
        BY DEF BssOrNone
      <4>4. [rx EXCEPT !.at = at] \in Place(RxAt)
        BY <4>2, <4>3, PlaceWrites
      <4> QED
        BY <4>1, <4>4
    <3> QED
      BY <2>2, <3>1, <3>2
  <2> QED
    BY <1>1, <2>1, <2>3 DEF Types
<1> QED
  BY <1>2, <1>3, <1>4 DEF Tasklet

LEMMA LinkTimerHdlTypes ==
  ASSUME IInv, LinkTimerHdl
  PROVE  Types'
<1>1. Types /\ ext.bss \in BssOrNone
  BY DEF IInv, Types, ExtType
<1>2. CASE LinkTimer
  <2>1. /\ UNCHANGED <<scan, lock, joinfires, rx, th>>
        /\ lt' = Failed(ext.bss) \/ lt' = Idle
        /\ \/ ext' = [ext EXCEPT !.st = {}, !.cnt = 0] \/ ext' = ext
           \/ ext' = [ext EXCEPT !.cnt = @ + 1]
    BY <1>2 DEF LinkTimer, Reported
  <2>2. {} \in SUBSET Flag
    OBVIOUS
  <2>3. ext' \in ExtType
    BY <1>1, <2>1, <2>2, ExtWrites DEF Types
  <2>4. lt' \in Place(RxAt)
    BY <1>1, <2>1, IdlePlaces, FailedPlaces
  <2> QED
    BY <1>1, <2>1, <2>3, <2>4 DEF Types
<1>3. CASE LtReports \/ LtQueues
  <2>1. UNCHANGED <<ext, scan, lock, joinfires, rx, th>>
    BY <1>3 DEF LtReports, LtQueues, timers
  <2>2. lt' = Idle \/ \E at \in RxAt : lt' = [lt EXCEPT !.at = at]
    BY <1>3 DEF LtReports, LtQueues, RxAt
  <2>3. lt' \in Place(RxAt)
    <3>1. CASE lt' = Idle
      BY <3>1, IdlePlaces
    <3>2. CASE \E at \in RxAt : lt' = [lt EXCEPT !.at = at]
      <4>1. PICK at \in RxAt : lt' = [lt EXCEPT !.at = at]
        BY <3>2
      <4>2. lt \in Place(RxAt)
        BY <1>1 DEF Types
      <4>3. NoBss \in BssOrNone /\ FALSE \in BOOLEAN
        BY DEF BssOrNone
      <4>4. [lt EXCEPT !.at = at] \in Place(RxAt)
        BY <4>2, <4>3, PlaceWrites
      <4> QED
        BY <4>1, <4>4
    <3> QED
      BY <2>2, <3>1, <3>2
  <2> QED
    BY <1>1, <2>1, <2>3 DEF Types
<1> QED
  BY <1>2, <1>3 DEF LinkTimerHdl

LEMMA ThreadTypes ==
  ASSUME IInv, Thread
  PROVE  Types'
<1>1. Types /\ m.sec_bss \in BssOrNone /\ ext.st \in SUBSET Flag /\ NoBss \in BssOrNone
  BY DEF IInv, Core, Shape, Types, ExtType, BssOrNone
<1>2. CASE CmdSurvey
  <2>1. /\ UNCHANGED <<ext, lock, joinfires, rx, lt, th>>
        /\ \E st \in {"disable", "txnull", "process"}, idx \in {0, scan.idx} :
             scan' = [st |-> st, idx |-> idx]
    BY <1>2 DEF CmdSurvey
  <2>2. scan' \in ScanType
    BY <1>1, <2>1 DEF Types, ScanType
  <2> QED
    BY <1>1, <2>1, <2>2 DEF Types
<1>3. CASE CmdJoin \/ CmdDisc
  <2>1. UNCHANGED <<scan, lock, joinfires, rx, lt, th>>
    BY <1>3 DEF CmdJoin, CmdDisc
  <2>2. \E st \in SUBSET Flag, b \in BssOrNone :
          ext' = [ext EXCEPT !.st = st, !.bss = b] \/ ext' = [ext EXCEPT !.st = st]
    <3>1. {"authnull", "sta"} \in SUBSET Flag /\ {} \in SUBSET Flag
      BY DEF Flag
    <3>2. \/ ext' = [ext EXCEPT !.st = {"authnull", "sta"}, !.bss = m.sec_bss]
          \/ ext' = [ext EXCEPT !.st = IF "done" \in ext.st THEN {} ELSE ext.st, !.bss = NoBss]
          \/ ext' = [ext EXCEPT !.st = {}]
      BY <1>3 DEF CmdJoin, CmdDisc
    <3>3. (IF "done" \in ext.st THEN {} ELSE ext.st) \in SUBSET Flag
      BY <1>1
    <3> QED
      BY <1>1, <3>1, <3>2, <3>3, Zenon
  <2>3. ext' \in ExtType
    <3>1. PICK st \in SUBSET Flag, b \in BssOrNone :
            ext' = [ext EXCEPT !.st = st, !.bss = b] \/ ext' = [ext EXCEPT !.st = st]
      BY <2>2
    <3>2. ext \in ExtType
      BY <1>1 DEF Types
    <3>3. [ext EXCEPT !.st = st] \in ExtType /\ [ext EXCEPT !.st = st, !.bss = b] \in ExtType
      BY <3>2, ExtWrites
    <3> QED
      BY <3>1, <3>3
  <2> QED
    BY <1>1, <2>1, <2>3 DEF Types
<1>4. CASE CmdSawBss \/ CmdJoinRes
  BY <1>1, <1>4 DEF CmdSawBss, CmdJoinRes, timers, Types
<1>5. CASE CmdSurveyDone \/ DoneCancels \/ DoneJoins \/ DelSta
  <2>1. UNCHANGED <<ext, scan, lock, joinfires, rx, lt>>
    BY <1>5 DEF CmdSurveyDone, DoneCancels, DoneJoins, DelSta, timers
  <2>2. \/ \E at \in ThAt : \/ th' = [at |-> at, b |-> NoBss, f |-> FALSE]
                            \/ th' = [th EXCEPT !.at = at]
        \/ th' = Idle
    BY <1>5 DEF CmdSurveyDone, DoneCancels, DoneJoins, DelSta, ThAt
  <2>3. th' \in Place(ThAt)
    <3>1. CASE th' = Idle
      BY <3>1, IdlePlaces
    <3>2. ASSUME NEW at \in ThAt, \/ th' = [at |-> at, b |-> NoBss, f |-> FALSE]
                                  \/ th' = [th EXCEPT !.at = at]
          PROVE  th' \in Place(ThAt)
      <4>1. th \in Place(ThAt)
        BY <1>1 DEF Types
      <4>2. NoBss \in BssOrNone /\ FALSE \in BOOLEAN
        BY DEF BssOrNone
      <4>3. [th EXCEPT !.at = at] \in Place(ThAt) /\ [at |-> at, b |-> NoBss, f |-> FALSE] \in Place(ThAt)
        BY <4>1, <4>2, PlaceWrites
      <4> QED
        BY <3>2, <4>3
    <3> QED
      BY <2>2, <3>1, <3>2
  <2> QED
    BY <1>1, <2>1, <2>3 DEF Types
<1>6. CASE CmdDelSta
  <2>1. /\ UNCHANGED <<scan, lock, joinfires, rx, lt>> /\ ext' = [ext EXCEPT !.st = {}]
        /\ th' = [at |-> "del", b |-> Head(m.q).b, f |-> Head(m.q).f] /\ Takes("delsta")
    BY <1>6 DEF CmdDelSta
  <2>2. Head(m.q).b \in BssOrNone /\ Head(m.q).f \in BOOLEAN
    BY <2>1, PoppedDoes DEF Command, BssOrNone
  <2>3. th' \in Place(ThAt)
    BY <2>1, <2>2 DEF Place, ThAt
  <2>4. ext' \in ExtType
    BY <1>1, <2>1, ExtWrites DEF Types
  <2> QED
    BY <1>1, <2>1, <2>3, <2>4 DEF Types
<1> QED
  BY <1>2, <1>3, <1>4, <1>5, <1>6 DEF Thread

LEMMA TypesKept ==
  ASSUME IInv, [Next]_vars
  PROVE  Types'
<1>1. Types
  BY DEF IInv
<1>2. CASE User
  BY <1>1, <1>2 DEF Types, User, SetSsid, SetBssid, Disassociate, ScanChecks, timers
<1>3. CASE ScanStarts \/ ScanTimerExpires \/ ScanTimeout \/ AssocTimerExpires \/ JoinTimeout
  BY <1>1, <1>3 DEF Types, ScanStarts, ScanTimerExpires, ScanTimeout, AssocTimerExpires,
                    JoinTimeout, timers
<1>4. CASE SurveyTimer
  <2>1. /\ scan' = scan \/ \E i \in {scan.idx, scan.idx + 1} : scan' = [scan EXCEPT !.idx = i]
        /\ UNCHANGED <<ext, lock, joinfires, rx, lt, th>>
    BY <1>4 DEF SurveyTimer
  <2>2. scan' \in ScanType
    BY <1>1, <2>1 DEF Types, ScanType
  <2> QED
    BY <1>1, <2>1, <2>2 DEF Types
<1>5. CASE UNCHANGED vars
  BY <1>1, <1>5 DEF vars, timers, Types
<1> QED
  BY <1>2, <1>3, <1>4, <1>5, AirTypes, TaskletTypes, LinkTimerHdlTypes, ThreadTypes DEF Next

-----------------------------------------------------------------------------
(* The theorems.                                                           *)

LEMMA InitHolds == Init => IInv /\ RInv
<1> SUFFICES ASSUME Init PROVE IInv /\ RInv
  OBVIOUS
<1>1. Shape(m) /\ ~m.linked /\ ~m.linking /\ ~m.survey /\ ~m.to_join /\ ~m.carrier
  <2>1. m = [f \in Field |-> m[f]]
    BY DEF Init, Field
  <2>2. /\ m.linked = FALSE /\ m.linking = FALSE /\ m.survey = FALSE /\ m.to_join = FALSE
        /\ m.assoc_timer = FALSE /\ m.carrier = FALSE
    BY DEF Init
  <2>3. /\ m.linked \in BOOLEAN /\ m.linking \in BOOLEAN /\ m.survey \in BOOLEAN
        /\ m.to_join \in BOOLEAN /\ m.assoc_timer \in BOOLEAN /\ m.carrier \in BOOLEAN
    BY <2>2, Zenon
  <2>4. /\ m.to_roaming \in Nat /\ m.sec_bss \in BssOrNone /\ m.scanned \subseteq BssOrNone
        /\ m.fixed \subseteq BssOrNone /\ m.q \in Seq(Command)
    <3>1. <<>> \in Seq(Command)
      OBVIOUS
    <3>2. NoBss \in BssOrNone
      BY DEF BssOrNone
    <3>3. /\ m.to_roaming = 0 /\ m.sec_bss = NoBss /\ m.scanned = {} /\ m.fixed = {}
          /\ m.q = <<>>
      BY DEF Init
    <3> QED
      BY <3>1, <3>2, <3>3
  <2>5. Shape(m)
    BY <2>1, <2>3, <2>4, Zenon DEF Shape
  <2> QED
    BY <2>2, <2>5, Zenon
<1>2. Types /\ ~lock /\ rx.at = "idle"
  <2>1. ext \in ExtType /\ scan \in ScanType
    BY DEF Init, ExtType, ScanType, BssOrNone
  <2>2. rx \in Place(RxAt) /\ lt \in Place(RxAt) /\ th \in Place(ThAt) /\ rx.at = "idle"
    BY IdlePlaces DEF Init, Idle
  <2>3. lock = FALSE /\ joinfires = FALSE
    BY DEF Init
  <2> QED
    BY <2>1, <2>2, <2>3 DEF Types
<1> QED
  BY <1>1, <1>2 DEF IInv, Core, RInv, SyncLinked, LinkingIsTimed, SurveyIsComing,
                    ToJoinComing, RoamComing

LEMMA NextKeeps ==
  ASSUME IInv, [Next]_vars
  PROVE  IInv' /\ Kept
<1>1. ASSUME UNCHANGED vars PROVE Kept
  <2>1. UNCHANGED <<m, scan, surveytimer, th, joinfires>> /\ LockKept
    BY <1>1 DEF vars, timers, LockKept
  <2> QED
    BY <2>1, AloneKeeps
<1>2. Kept
  BY <1>1, UserKeeps, ScanStartsKeeps, AirKeeps, TaskletKeeps, LinkTimerHdlKeeps, TimersKeep,
     JoinTimeoutKeeps, ThreadKeeps DEF Next
<1> QED
  BY <1>2, TypesKept DEF IInv, Kept

\* A join the user waits for has a timer behind it, whatever the tasklet, the
\* timers and the command thread do to the exchange, with any number of
\* requests, networks and failing allocations.
THEOREM MlmeLinkingIsTimed == Spec => []LinkingIsTimed
<1>1. Init => IInv
  BY InitHolds
<1>2. IInv /\ [Next]_vars => IInv'
  BY NextKeeps
<1>3. IInv => LinkingIsTimed
  BY DEF IInv, Core
<1> QED
  BY <1>1, <1>2, <1>3, PTL DEF Spec

\* A join that waits for a survey has one whose end is still to come, as long
\* as commands and events can be allocated.
THEOREM MlmeToJoinHasSurvey ==
  ASSUME ~NoMem
  PROVE  Spec => []ToJoinHasSurvey
<1>1. Init => IInv
  BY InitHolds
<1>2. IInv /\ [Next]_vars => IInv'
  BY NextKeeps
<1>3. IInv => ToJoinHasSurvey
  BY ComingIsSurvey DEF IInv, Core, ToJoinComing, ToJoinHasSurvey
<1> QED
  BY <1>1, <1>2, <1>3, PTL DEF Spec

\* Roaming that was not reported to the system is under way: an attempt is
\* left, and a timer or a survey will make it, as long as commands and events
\* can be allocated.
THEOREM MlmeRoamIsPending ==
  ASSUME ~NoMem
  PROVE  Spec => []RoamIsPending
<1>1. Init => IInv /\ RInv
  BY InitHolds
<1>2. IInv /\ RInv /\ [Next]_vars => IInv' /\ RInv'
  BY NextKeeps DEF Kept
<1>3. RInv => RoamIsPending
  BY ComingIsSurvey DEF RInv, RoamComing, RoamIsPending
<1> QED
  BY <1>1, <1>2, <1>3, PTL DEF Spec

-----------------------------------------------------------------------------
(* The link the user sees is one the access point knows of.  What tears    *)
(* the exchange down is a command that was queued when there was no link,  *)
(* or leaves something behind that ends the link: so the proof is about    *)
(* the order of commands in the queue.                                     *)

HasCmd(q, c) == \E i \in DOMAIN q : q[i].c = c

\* A join command that no disconnect command follows.
JoinLast(q) ==
  \E i \in DOMAIN q : q[i].c = "join" /\ \A j \in DOMAIN q : j > i => q[j].c # "disc"

\* From queue p to queue q nothing is added that could end an exchange, and
\* nothing is taken that begins one or ends a link.
QueueKept(p, q) ==
  /\ HasCmd(q, "join") => HasCmd(p, "join")
  /\ HasCmd(q, "disc") => HasCmd(p, "disc")
  /\ HasCmd(p, "delsta") => HasCmd(q, "delsta")
  /\ JoinLast(p) => JoinLast(q)

\* Only networks are reported as seen.
Aired(q) == \A i \in DOMAIN q : q[i].c = "sawbss" => q[i].b # NoBss

LEMMA AppendKeeps ==
  ASSUME NEW q \in Seq(Command), NEW c \in Command
  PROVE  /\ c.c \notin {"join", "disc"} => QueueKept(q, Append(q, c))
         /\ c.c = "join" => JoinLast(Append(q, c))
         /\ c.c = "delsta" => HasCmd(Append(q, c), "delsta")
         /\ Aired(q) /\ (c.c = "sawbss" => c.b # NoBss) => Aired(Append(q, c))
<1> DEFINE a == Append(q, c)
<1>1. /\ DOMAIN q = 1 .. Len(q) /\ Len(q) \in Nat
      /\ DOMAIN a = 1 .. (Len(q) + 1)
      /\ \A i \in 1 .. Len(q) : a[i] = q[i]
      /\ a[Len(q) + 1] = c
  OBVIOUS
<1> HIDE DEF a
<1>2. ASSUME NEW i \in DOMAIN a
      PROVE  (i \in DOMAIN q /\ a[i] = q[i]) \/ (i = Len(q) + 1 /\ a[i] = c)
  <2>1. i \in 1 .. (Len(q) + 1)
    BY <1>1, Zenon
  <2>2. i \in 1 .. Len(q) \/ i = Len(q) + 1
    BY <1>1, <2>1
  <2>3. CASE i \in 1 .. Len(q)
    BY <1>1, <2>3, Zenon
  <2>4. CASE i = Len(q) + 1
    BY <1>1, <2>4, Zenon
  <2> QED
    BY <2>2, <2>3, <2>4
<1>3. ASSUME NEW i \in DOMAIN q PROVE i \in DOMAIN a /\ a[i] = q[i]
  <2>1. i \in 1 .. Len(q)
    BY <1>1, Zenon
  <2>2. i \in 1 .. (Len(q) + 1)
    BY <1>1, <2>1
  <2> QED
    BY <1>1, <2>1, <2>2, Zenon
<1>4. ASSUME NEW d PROVE HasCmd(a, d) => HasCmd(q, d) \/ c.c = d
  BY <1>2 DEF HasCmd
<1>5. ASSUME NEW d PROVE HasCmd(q, d) \/ c.c = d => HasCmd(a, d)
  BY <1>1, <1>3 DEF HasCmd
<1>6. ASSUME c.c # "disc", JoinLast(q) PROVE JoinLast(a)
  <2>1. PICK i \in DOMAIN q :
          q[i].c = "join" /\ \A j \in DOMAIN q : j > i => q[j].c # "disc"
    BY <1>6 DEF JoinLast
  <2>2. i \in DOMAIN a /\ a[i].c = "join"
    BY <1>3, <2>1
  <2>3. ASSUME NEW j \in DOMAIN a, j > i PROVE a[j].c # "disc"
    BY <1>2, <1>6, <2>1, <2>3
  <2> QED
    BY <2>2, <2>3 DEF JoinLast
<1>7. c.c = "join" => JoinLast(a)
  <2>1. Len(q) + 1 \in DOMAIN a /\ \A j \in DOMAIN a : ~(j > Len(q) + 1)
    BY <1>1
  <2> QED
    BY <1>1, <2>1 DEF JoinLast
<1>8. Aired(q) /\ (c.c = "sawbss" => c.b # NoBss) => Aired(a)
  BY <1>2 DEF Aired
<1>9. c.c \notin {"join", "disc"} => QueueKept(q, a)
  BY <1>4, <1>5, <1>6 DEF QueueKept
<1> QED
  BY <1>5, <1>7, <1>8, <1>9 DEF a

LEMMA TailKeeps ==
  ASSUME NEW q \in Seq(Command), q # <<>>
  PROVE  /\ \A c : HasCmd(Tail(q), c) => HasCmd(q, c)
         /\ HasCmd(q, Head(q).c)
         /\ Head(q).c \notin {"join", "disc", "delsta"} => QueueKept(q, Tail(q))
         /\ Head(q).c # "delsta" /\ HasCmd(q, "delsta") => HasCmd(Tail(q), "delsta")
         /\ Head(q).c # "join" /\ JoinLast(q) => JoinLast(Tail(q))
         /\ HasCmd(Tail(q), "disc") /\ JoinLast(q) => JoinLast(Tail(q))
         /\ Aired(q) => Aired(Tail(q))
         /\ Aired(q) /\ Head(q).c = "sawbss" => Head(q).b # NoBss
<1> DEFINE a == Tail(q)
<1>1. /\ DOMAIN q = 1 .. Len(q) /\ Len(q) \in Nat /\ 1 \in DOMAIN q
      /\ DOMAIN a = 1 .. (Len(q) - 1)
      /\ \A i \in 1 .. (Len(q) - 1) : a[i] = q[i + 1]
      /\ Head(q) = q[1]
  OBVIOUS
<1> HIDE DEF a
<1>2. \A i \in DOMAIN a : i \in Nat /\ i + 1 \in DOMAIN q /\ i + 1 > 1 /\ a[i] = q[i + 1]
  BY <1>1
<1>3. \A i \in DOMAIN q : i \in Nat /\ (i # 1 => i - 1 \in DOMAIN a /\ a[i - 1] = q[i])
  BY <1>1
<1>4. ASSUME NEW c PROVE HasCmd(a, c) => HasCmd(q, c)
  BY <1>2 DEF HasCmd
<1>5. ASSUME NEW c, Head(q).c # c, HasCmd(q, c) PROVE HasCmd(a, c)
  BY <1>1, <1>3, <1>5 DEF HasCmd
<1>6. ASSUME JoinLast(q), Head(q).c # "join" \/ HasCmd(a, "disc") PROVE JoinLast(a)
  <2>1. PICK i \in DOMAIN q :
          q[i].c = "join" /\ \A j \in DOMAIN q : j > i => q[j].c # "disc"
    BY <1>6 DEF JoinLast
  <2>2. i # 1
    <3>1. CASE Head(q).c # "join"
      BY <1>1, <2>1, <3>1
    <3>2. CASE HasCmd(a, "disc")
      BY <1>2, <2>1, <3>2 DEF HasCmd
    <3> QED
      BY <1>6, <3>1, <3>2
  <2>3. i \in Nat /\ i - 1 \in DOMAIN a /\ a[i - 1] = q[i]
    BY <1>3, <2>2
  <2>4. ASSUME NEW j \in DOMAIN a, j > i - 1 PROVE a[j].c # "disc"
    <3>1. j + 1 \in DOMAIN q /\ a[j] = q[j + 1] /\ j \in Nat
      BY <1>2
    <3>2. j + 1 > i
      BY <2>3, <2>4, <3>1
    <3> QED
      BY <2>1, <3>1, <3>2
  <2> QED
    BY <2>1, <2>3, <2>4 DEF JoinLast
<1>7. Aired(q) => Aired(a)
  BY <1>2 DEF Aired
<1>8. Head(q).c \notin {"join", "disc", "delsta"} => QueueKept(q, a)
  BY <1>4, <1>5, <1>6 DEF QueueKept
<1>9. HasCmd(q, Head(q).c) /\ (Aired(q) /\ Head(q).c = "sawbss" => Head(q).b # NoBss)
  BY <1>1 DEF HasCmd, Aired
<1> QED
  BY <1>4, <1>5, <1>6, <1>7, <1>8, <1>9 DEF a

\* No entry for "no network".
Clean(s) == NoBss \notin s.scanned /\ NoBss \notin s.fixed /\ Aired(s.q)

\* No link and no join that waits for one.
Over(s) == ~s.linked /\ ~s.linking

\* No link, and a join command with its parameter on the way to the thread.
Begun(s) == ~s.linked /\ s.sec_bss # NoBss /\ JoinLast(s.q)

\* The link, the parameter and what is queued for them stay.
Steady(s, t) ==
  /\ t.linked = s.linked /\ t.sec_bss = s.sec_bss /\ t.to_roaming = s.to_roaming
  /\ QueueKept(s.q, t.q)

LEMMA QueueKeptSelf == \A q : QueueKept(q, q)
BY DEF QueueKept

LEMMA SteadyTransitive ==
  ASSUME NEW s, NEW t, NEW u, Steady(s, t), Steady(t, u)
  PROVE  Steady(s, u)
BY DEF Steady, QueueKept

LEMMA EnqueueSteady ==
  ASSUME NEW s, Shape(s), NEW c \in Command, c.c \notin {"join", "disc"}
  PROVE  LET t == Enqueue(s, c)
         IN  /\ Steady(s, t) /\ t.linking = s.linking /\ t.assoc_timer = s.assoc_timer
             /\ c.c = "delsta" => HasCmd(t.q, "delsta")
             /\ Clean(s) /\ (c.c = "sawbss" => c.b # NoBss) => Clean(t)
<1> DEFINE t == Enqueue(s, c)
<1>1. PICK q \in Seq(Command) : q = s.q
  BY DEF Shape
<1>2. /\ t.q = Append(q, c) /\ t.linked = s.linked /\ t.sec_bss = s.sec_bss
      /\ t.to_roaming = s.to_roaming /\ t.linking = s.linking /\ t.assoc_timer = s.assoc_timer
      /\ t.scanned = s.scanned /\ t.fixed = s.fixed
  BY <1>1 DEF Enqueue, Shape, Field
<1>3. /\ QueueKept(q, Append(q, c)) /\ (c.c = "delsta" => HasCmd(Append(q, c), "delsta"))
      /\ Aired(q) /\ (c.c = "sawbss" => c.b # NoBss) => Aired(Append(q, c))
  BY AppendKeeps
<1> HIDE DEF t
<1> DEFINE r == Append(q, c)
<1> HIDE DEF r
<1>4. /\ t.q = r /\ QueueKept(q, r) /\ (c.c = "delsta" => HasCmd(r, "delsta"))
      /\ Aired(q) /\ (c.c = "sawbss" => c.b # NoBss) => Aired(r)
  BY <1>2, <1>3 DEF r
<1>5. Steady(s, t)
  BY <1>1, <1>2, <1>4, Zenon DEF Steady
<1>6. c.c = "delsta" => HasCmd(t.q, "delsta")
  BY <1>4, Zenon
<1>7. Clean(s) /\ (c.c = "sawbss" => c.b # NoBss) => Clean(t)
  BY <1>1, <1>2, <1>4, Zenon DEF Clean
<1> QED
  BY <1>2, <1>5, <1>6, <1>7 DEF t

\* A disconnect command is queued; only while there is no link.
LEMMA DisassociatedOver ==
  ASSUME NEW s, Shape(s), Clean(s), NEW t \in Disassociated(s)
  PROVE  Over(t) /\ Clean(t) /\ Shape(t)
<1>0. PICK e \in Posted(s, Cmd("disc")) :
        t = rtw_free_assoc_resources(rtw_indicate_disconnect(e))
  BY DEF Disassociated
<1> DEFINE d == rtw_indicate_disconnect(e)
<1>1. Cmd("disc") \in Command /\ Cmd("disc").c = "disc"
  BY CmdTyped
<1>2. /\ Shape(e) /\ e.scanned = s.scanned /\ e.fixed = s.fixed
      /\ e.q = s.q \/ e.q = Append(s.q, Cmd("disc"))
  <2>1. e = s \/ e = Enqueue(s, Cmd("disc"))
    BY DEF Posted
  <2>2. CASE e = s
    BY <2>2
  <2>3. CASE e = Enqueue(s, Cmd("disc"))
    <3>1. Shape(e)
      BY <1>1, <2>3, EnqueueDoes
    <3>2. e.q = Append(s.q, Cmd("disc")) /\ e.scanned = s.scanned /\ e.fixed = s.fixed
      BY <2>3 DEF Enqueue, Shape, Field
    <3> QED
      BY <3>1, <3>2
  <2> QED
    BY <2>1, <2>2, <2>3
<1>3. Aired(e.q)
  <2>1. PICK q \in Seq(Command) : q = s.q
    BY DEF Shape
  <2>2. Aired(q) /\ Aired(Append(q, Cmd("disc")))
    BY <1>1, <2>1, AppendKeeps DEF Clean
  <2> QED
    BY <1>2, <2>1, <2>2
<1>4. /\ Shape(d) /\ d.q = e.q /\ d.scanned = s.scanned /\ d.fixed = s.fixed
      /\ ~d.linked /\ ~d.linking
  <2>1. Shape(d) /\ d.q = e.q /\ ~d.linked /\ ~d.linking
    BY <1>2, DisconnectDoes
  <2>2. d.scanned = e.scanned /\ d.fixed = e.fixed
    BY <1>2 DEF rtw_indicate_disconnect, rtw_reset_securitypriv, Shape, Field
  <2> QED
    BY <1>2, <2>1, <2>2
<1> HIDE DEF d
<1>5. /\ Shape(t) /\ SameLink(d, t) /\ t.q = d.q
  BY <1>0, <1>4, FreeResourcesDoes DEF d
<1>6. t.scanned = d.scanned /\ t.fixed \subseteq d.fixed
  BY <1>0, <1>4 DEF rtw_free_assoc_resources, Shape, Field, d
<1>7. Over(t) /\ Clean(t)
  BY <1>3, <1>4, <1>5, <1>6 DEF Over, Clean, SameLink
<1> QED
  BY <1>5, <1>7

LEMMA SiteSurveySteady ==
  ASSUME NEW s, Shape(s), NEW t \in rtw_sitesurvey_cmd(s)
  PROVE  /\ Steady(s, t) /\ t.linking = s.linking /\ t.assoc_timer = s.assoc_timer
         /\ Clean(s) => Clean(t)
<1>1. PICK k \in SUBSET (s.scanned \ s.fixed) :
           t = [s EXCEPT !.survey = TRUE, !.scan_timer = TRUE,
                             !.scanned = s.fixed \cup k, !.q = Append(@, Cmd("survey"))]
  BY DEF rtw_sitesurvey_cmd
<1>2. /\ t.linked = s.linked /\ t.sec_bss = s.sec_bss /\ t.to_roaming = s.to_roaming
      /\ t.linking = s.linking /\ t.assoc_timer = s.assoc_timer
      /\ t.q = Append(s.q, Cmd("survey")) /\ t.scanned = s.fixed \cup k /\ t.fixed = s.fixed
  BY <1>1 DEF Shape, Field
<1>3. PICK q \in Seq(Command) : q = s.q
  BY DEF Shape
<1>4. Cmd("survey") \in Command /\ Cmd("survey").c = "survey"
  BY CmdTyped
<1>5. QueueKept(q, Append(q, Cmd("survey"))) /\ (Aired(q) => Aired(Append(q, Cmd("survey"))))
  BY <1>4, AppendKeeps
<1> DEFINE r == Append(q, Cmd("survey"))
<1>6. t.q = r /\ QueueKept(q, r) /\ (Aired(q) => Aired(r))
  BY <1>2, <1>3, <1>5
<1> HIDE DEF r
<1>7. Steady(s, t)
  BY <1>2, <1>3, <1>6, Zenon DEF Steady
<1>8. ASSUME Clean(s) PROVE Clean(t)
  <2>1. NoBss \notin t.scanned /\ NoBss \notin t.fixed
    BY <1>2, <1>8 DEF Clean
  <2> QED
    BY <1>3, <1>6, <1>8, <2>1 DEF Clean
<1> QED
  BY <1>2, <1>7, <1>8

LEMMA JoinCmdBegins ==
  ASSUME NEW s, Shape(s), ~s.linked, Clean(s), NEW b \in Bss
  PROVE  Begun(rtw_joinbss_cmd(s, b)) /\ Clean(rtw_joinbss_cmd(s, b))
<1> DEFINE t == rtw_joinbss_cmd(s, b)
<1>1. /\ t.linked = s.linked /\ t.sec_bss = b /\ t.q = Append(s.q, Cmd("join"))
      /\ t.scanned = s.scanned /\ t.fixed = s.fixed
  BY DEF rtw_joinbss_cmd, Enqueue, Shape, Field
<1>2. PICK q \in Seq(Command) : q = s.q
  BY DEF Shape
<1>3. Cmd("join") \in Command /\ Cmd("join").c = "join"
  BY CmdTyped
<1>4. JoinLast(Append(q, Cmd("join"))) /\ (Aired(q) => Aired(Append(q, Cmd("join"))))
  BY <1>3, AppendKeeps
<1>5. JoinLast(t.q) /\ Aired(t.q)
  BY <1>1, <1>2, <1>4 DEF Clean
<1>6. b # NoBss
  BY MlmeAssumption
<1> HIDE DEF t
<1>7. Begun(t) /\ Clean(t)
  BY <1>1, <1>5, <1>6 DEF Begun, Clean
<1> QED
  BY <1>7 DEF t

LEMMA SurveyFirstSteady ==
  ASSUME NEW s, Shape(s), NEW r \in SurveyFirst(s)
  PROVE  /\ Steady(s, r.m) /\ ~r.m.linking /\ r.m.assoc_timer = s.assoc_timer
         /\ Clean(s) => Clean(r.m)
<1> DEFINE t == [s EXCEPT !.linking = FALSE]
           f == [t EXCEPT !.to_join = FALSE]
<1>1. /\ Shape(t) /\ ~t.linking /\ t.q = s.q /\ t.linked = s.linked /\ t.sec_bss = s.sec_bss
      /\ t.to_roaming = s.to_roaming /\ t.scanned = s.scanned /\ t.fixed = s.fixed
      /\ t.assoc_timer = s.assoc_timer
  BY DEF Shape, Field
<1>2. /\ ~f.linking /\ f.q = s.q /\ f.linked = s.linked /\ f.sec_bss = s.sec_bss
      /\ f.to_roaming = s.to_roaming /\ f.scanned = s.scanned /\ f.fixed = s.fixed
      /\ f.assoc_timer = s.assoc_timer
  BY DEF Shape, Field
<1>3. (\E u \in rtw_sitesurvey_cmd(t) : r = Ok(u)) \/ r = Fail(f)
  BY DEF SurveyFirst
<1> HIDE DEF t, f
<1>4. Steady(s, t) /\ Steady(s, f) /\ (Clean(s) => Clean(t) /\ Clean(f))
  BY <1>1, <1>2, QueueKeptSelf DEF Steady, Clean
<1>5. ASSUME NEW u \in rtw_sitesurvey_cmd(t), r = Ok(u)
      PROVE  /\ Steady(s, r.m) /\ ~r.m.linking /\ r.m.assoc_timer = s.assoc_timer
             /\ Clean(s) => Clean(r.m)
  <2>1. r.m = u
    BY <1>5 DEF Ok
  <2>2. /\ Steady(t, u) /\ u.linking = t.linking /\ u.assoc_timer = t.assoc_timer
        /\ Clean(t) => Clean(u)
    BY <1>1, SiteSurveySteady
  <2>3. Steady(s, u)
    BY <1>4, <2>2, SteadyTransitive
  <2> QED
    BY <1>1, <1>4, <2>1, <2>2, <2>3
<1>6. CASE r = Fail(f)
  BY <1>2, <1>4, <1>6 DEF Fail
<1> QED
  BY <1>3, <1>5, <1>6

\* A link is given up before the join command is queued, and kept when there
\* is no network to join.
LEMMA SelectBegins ==
  ASSUME NEW s, Shape(s), Clean(s), NEW r \in rtw_select_and_join_from_scanned_queue(s)
  PROVE  /\ Clean(r.m)
         /\ r.ok => Begun(r.m)
         /\ ~r.ok => r.m = s \/ ~r.m.linked
<1> DEFINE torn == IF s.linked THEN Disassociated(s) ELSE {s}
           c == Candidates(s)
<1>1. \/ \E t \in torn : (\E b \in c : r = Ok(rtw_joinbss_cmd(t, b))) \/ r = Fail(t)
      \/ r = Fail(s)
  BY DEF rtw_select_and_join_from_scanned_queue
<1>2. c \subseteq Bss
  BY DEF Candidates, Shape, Clean, BssOrNone
<1>3. ASSUME NEW t \in torn PROVE Shape(t) /\ Clean(t) /\ ~t.linked
  <2>1. CASE s.linked
    <3>1. t \in Disassociated(s)
      BY <2>1
    <3> HIDE DEF torn
    <3> QED
      BY <3>1, DisassociatedOver DEF Over
  <2>2. CASE ~s.linked
    BY <2>2
  <2> QED
    BY <2>1, <2>2
<1> HIDE DEF torn, c
<1>4. ASSUME NEW t \in torn, NEW b \in c, r = Ok(rtw_joinbss_cmd(t, b))
      PROVE  Clean(r.m) /\ r.ok /\ Begun(r.m)
  <2>1. r.m = rtw_joinbss_cmd(t, b) /\ r.ok
    BY <1>4 DEF Ok
  <2>2. b \in Bss
    BY <1>2
  <2> QED
    BY <1>3, <2>1, <2>2, JoinCmdBegins
<1>5. ASSUME NEW t \in torn, r = Fail(t) PROVE Clean(r.m) /\ ~r.ok /\ ~r.m.linked
  BY <1>3, <1>5 DEF Fail
<1>6. CASE r = Fail(s)
  BY <1>6 DEF Fail
<1> QED
  BY <1>1, <1>4, <1>5, <1>6

\* rtw_do_join: a join begins, or no link is left, or nothing has changed but
\* that no join waits.
LEMMA DoJoinEnds ==
  ASSUME NEW s, Shape(s), Clean(s), NEW r \in rtw_do_join(s)
  PROVE  /\ Clean(r.m)
         /\ \/ Over(r.m) \/ Begun(r.m)
            \/ Steady(s, r.m) /\ ~r.m.linking /\ r.m.assoc_timer = s.assoc_timer
<1> DEFINE t == [s EXCEPT !.linking = TRUE, !.to_join = TRUE]
           tries == rtw_select_and_join_from_scanned_queue(t)
           ended(x) == [x.m EXCEPT !.to_join = FALSE, !.assoc_timer = TRUE]
           Goal == /\ Clean(r.m)
                   /\ \/ Over(r.m) \/ Begun(r.m)
                      \/ Steady(s, r.m) /\ ~r.m.linking /\ r.m.assoc_timer = s.assoc_timer
<1>1. /\ Shape(t) /\ t.q = s.q /\ t.linked = s.linked /\ t.sec_bss = s.sec_bss
      /\ t.to_roaming = s.to_roaming /\ t.scanned = s.scanned /\ t.fixed = s.fixed
      /\ t.assoc_timer = s.assoc_timer
  BY DEF Shape, Field
<1>2. \/ r \in SurveyFirst(t)
      \/ \E x \in tries : x.ok /\ r = Ok(ended(x))
      \/ \E x \in tries : ~x.ok /\ r \in SurveyFirst(x.m)
  BY DEF rtw_do_join
<1> HIDE DEF t
<1>3. Steady(s, t) /\ Clean(t)
  BY <1>1, QueueKeptSelf DEF Steady, Clean
<1>4. ASSUME r \in SurveyFirst(t) PROVE Goal
  <2>1. Steady(t, r.m) /\ ~r.m.linking /\ Clean(r.m) /\ r.m.assoc_timer = t.assoc_timer
    BY <1>1, <1>3, <1>4, SurveyFirstSteady
  <2>2. Steady(s, r.m)
    BY <1>3, <2>1, SteadyTransitive
  <2> QED
    BY <1>1, <2>1, <2>2
<1>5. ASSUME NEW x \in tries
      PROVE  /\ Shape(x.m) /\ Clean(x.m) /\ (x.ok => Begun(x.m))
             /\ ~x.ok => x.m = t \/ ~x.m.linked
  BY <1>1, <1>3, SelectDoes, SelectBegins
<1>6. ASSUME NEW x \in tries, ~x.ok, r \in SurveyFirst(x.m) PROVE Goal
  <2>1. CASE x.m = t
    BY <1>4, <1>6, <2>1
  <2>2. CASE ~x.m.linked
    <3>1. Steady(x.m, r.m) /\ ~r.m.linking /\ Clean(r.m)
      BY <1>5, <1>6, SurveyFirstSteady
    <3> QED
      BY <2>2, <3>1 DEF Steady, Over
  <2> QED
    BY <1>5, <1>6, <2>1, <2>2
<1>7. ASSUME NEW x \in tries, x.ok, r = Ok(ended(x)) PROVE Goal
  <2>1. r.m = ended(x)
    BY <1>7 DEF Ok
  <2>2. /\ ended(x).q = x.m.q /\ ended(x).linked = x.m.linked /\ ended(x).sec_bss = x.m.sec_bss
        /\ ended(x).scanned = x.m.scanned /\ ended(x).fixed = x.m.fixed
    BY <1>5 DEF Shape, Field
  <2> HIDE DEF ended
  <2>3. Begun(x.m) /\ Clean(x.m)
    BY <1>5, <1>7
  <2>4. Begun(r.m) /\ Clean(r.m)
    BY <2>1, <2>2, <2>3 DEF Begun, Clean
  <2> QED
    BY <2>4
<1> HIDE DEF tries, ended, Goal
<1>8. Goal
  BY <1>2, <1>4, <1>6, <1>7
<1> QED
  BY <1>8 DEF Goal

\* Without a link the attempts at roaming end with a join begun or with none.
LEMMA RoamsEnds ==
  ASSUME NEW s, Shape(s), Clean(s), ~s.linked, NEW n \in Nat, NEW t \in Roams(s, n)
  PROVE  Clean(t) /\ (Over(t) \/ Begun(t))
<1> DEFINE at(k) == [s EXCEPT !.to_roaming = k]
           last == [s EXCEPT !.to_roaming = 0, !.to_join = @ /\ n = 0]
<1>1. \/ \E k \in Nat \ {0} : \E x \in rtw_do_join(at(k)) : t = x.m
      \/ t = rtw_indicate_disconnect(last)
  BY RoamsIs, Zenon
<1>2. ASSUME NEW k \in Nat \ {0}, NEW x \in rtw_do_join(at(k)), t = x.m
      PROVE  Clean(t) /\ (Over(t) \/ Begun(t))
  <2>1. /\ Shape(at(k)) /\ at(k).q = s.q /\ ~at(k).linked
        /\ at(k).scanned = s.scanned /\ at(k).fixed = s.fixed
    BY DEF Shape, Field
  <2> HIDE DEF at
  <2>2. Clean(at(k))
    BY <2>1 DEF Clean
  <2>3. Clean(t) /\ (Over(t) \/ Begun(t) \/ (Steady(at(k), t) /\ ~t.linking))
    BY <1>2, <2>1, <2>2, DoJoinEnds
  <2> QED
    BY <2>1, <2>3 DEF Steady, Over
<1>3. CASE t = rtw_indicate_disconnect(last)
  <2>1. Shape(last) /\ last.q = s.q /\ last.scanned = s.scanned /\ last.fixed = s.fixed
    BY DEF Shape, Field
  <2> HIDE DEF last
  <2>2. t.q = last.q /\ ~t.linked /\ ~t.linking
    BY <1>3, <2>1, DisconnectDoes
  <2>3. t.scanned = last.scanned /\ t.fixed = last.fixed
    BY <1>3, <2>1 DEF rtw_indicate_disconnect, rtw_reset_securitypriv, Shape, Field
  <2> QED
    BY <2>1, <2>2, <2>3 DEF Clean, Over
<1> HIDE DEF at, last
<1> QED
  BY <1>1, <1>2, <1>3

LEMMA RoamingEnds ==
  ASSUME NEW s, Shape(s), Clean(s), Over(s), NEW t \in rtw_roaming(s)
  PROVE  Clean(t) /\ (Over(t) \/ Begun(t))
<1> DEFINE u == [s EXCEPT !.ssid = SsidOf(s.cur), !.bssid = NoBss]
<1>1. CASE s.to_roaming = 0
  BY <1>1 DEF rtw_roaming
<1>2. CASE s.to_roaming # 0
  <2>1. t \in Roams(u, s.to_roaming) /\ s.to_roaming \in Nat
    BY <1>2 DEF rtw_roaming, Shape
  <2>2. /\ Shape(u) /\ u.q = s.q /\ u.scanned = s.scanned /\ u.fixed = s.fixed
        /\ u.linked = s.linked
    BY DEF Shape, Field
  <2> HIDE DEF u
  <2>3. Clean(u) /\ ~u.linked
    BY <2>2 DEF Clean, Over
  <2> QED
    BY <2>1, <2>2, <2>3, RoamsEnds
<1> QED
  BY <1>1, <1>2

\* The join that waited for a survey: begun, or the link is given up.
LEMMA JoinAfterSurveyEnds ==
  ASSUME NEW s, Shape(s), Clean(s), s.linked => s.to_roaming = 0,
         NEW t \in JoinAfterSurvey(s)
  PROVE  Clean(t) /\ (Over(t) \/ Begun(t))
<1> DEFINE b == [s EXCEPT !.linking = TRUE, !.to_join = FALSE]
           n(u) == [u EXCEPT !.to_roaming = @ - 1]
           lost(u) == rtw_indicate_disconnect(rtw_free_assoc_resources(rtw_set_roaming(u, 0)))
           waits(x) == [x EXCEPT !.to_join = TRUE]
           ends(x) == [x EXCEPT !.linking = FALSE]
           tries == rtw_select_and_join_from_scanned_queue(b)
           timed(r) == [r.m EXCEPT !.assoc_timer = TRUE]
           Goal == Clean(t) /\ (Over(t) \/ Begun(t))
<1>1. PICK r \in tries :
        \/ r.ok /\ t = timed(r)
        \/ r.m.to_roaming = 0 /\ t = ends(rtw_indicate_disconnect(r.m))
        \/ /\ r.m.to_roaming # 0 /\ n(r.m).to_roaming > 0
           /\ \E x \in rtw_sitesurvey_cmd(n(r.m)) : t = ends(waits(x))
        \/ r.m.to_roaming # 0 /\ t = ends(lost(r.m))
  <2>1. \E x \in tries : (x.ok /\ t = timed(x)) \/ \E y \in NotFound(x.m) : t = ends(y)
    BY DEF JoinAfterSurvey
  <2>2. PICK x \in tries : (x.ok /\ t = timed(x)) \/ \E y \in NotFound(x.m) : t = ends(y)
    BY <2>1, Zenon
  <2>3. ASSUME NEW y \in NotFound(x.m)
        PROVE  \/ x.m.to_roaming = 0 /\ y = rtw_indicate_disconnect(x.m)
               \/ /\ x.m.to_roaming # 0 /\ n(x.m).to_roaming > 0
                  /\ \E z \in rtw_sitesurvey_cmd(n(x.m)) : y = waits(z)
               \/ x.m.to_roaming # 0 /\ y = lost(x.m)
    BY DEF NotFound
  <2> HIDE DEF n, lost, waits, ends, timed, tries
  <2> QED
    BY <2>2, <2>3
<1>2. /\ Shape(b) /\ b.q = s.q /\ b.to_roaming = s.to_roaming /\ b.linked = s.linked
      /\ b.scanned = s.scanned /\ b.fixed = s.fixed
  BY DEF Shape, Field
<1> HIDE DEF b
<1>3. Clean(b)
  BY <1>2 DEF Clean
<1> DEFINE u == r.m
<1>4. /\ Shape(u) /\ Clean(u) /\ u.to_roaming = s.to_roaming /\ (u.linked => s.linked)
      /\ r.ok => Begun(u)
  BY <1>2, <1>3, SelectDoes, SelectBegins DEF Torn
<1> HIDE DEF tries, u
<1>5. ASSUME NEW x, Shape(x)
      PROVE  /\ ~ends(x).linking /\ ends(x).q = x.q /\ ends(x).linked = x.linked
             /\ ends(x).scanned = x.scanned /\ ends(x).fixed = x.fixed
             /\ Shape(waits(x)) /\ waits(x).q = x.q /\ waits(x).linked = x.linked
             /\ waits(x).scanned = x.scanned /\ waits(x).fixed = x.fixed
  BY <1>5 DEF Shape, Field
<1>6. ASSUME r.ok, t = timed(r) PROVE Goal
  <2>1. /\ t.q = u.q /\ t.linked = u.linked /\ t.sec_bss = u.sec_bss
        /\ t.scanned = u.scanned /\ t.fixed = u.fixed
    BY <1>4, <1>6 DEF Shape, Field, u
  <2>2. Begun(u)
    BY <1>4, <1>6
  <2> QED
    BY <1>4, <2>1, <2>2 DEF Begun, Clean
<1>7. ASSUME NEW g, Shape(g), Clean(g), t = ends(rtw_indicate_disconnect(g)) PROVE Goal
  <2> DEFINE d == rtw_indicate_disconnect(g)
  <2>1. Shape(d) /\ d.q = g.q /\ ~d.linked
    BY <1>7, DisconnectDoes
  <2>2. d.scanned = g.scanned /\ d.fixed = g.fixed
    BY <1>7 DEF rtw_indicate_disconnect, rtw_reset_securitypriv, Shape, Field
  <2>3. t = ends(d)
    BY <1>7
  <2> HIDE DEF d, ends, waits
  <2>4. /\ ~t.linking /\ t.q = d.q /\ ~t.linked /\ t.scanned = d.scanned /\ t.fixed = d.fixed
    BY <1>5, <2>1, <2>3
  <2> QED
    BY <1>7, <2>1, <2>2, <2>4 DEF Clean, Over
<1>8. ASSUME r.m.to_roaming # 0, n(r.m).to_roaming > 0,
             NEW x \in rtw_sitesurvey_cmd(n(r.m)), t = ends(waits(x))
      PROVE  Goal
  <2> DEFINE v == n(u)
  <2>1. /\ v.to_roaming = u.to_roaming - 1 /\ v.to_roaming > 0 /\ u.to_roaming \in Nat
    BY <1>4, <1>8 DEF u, Shape, Field
  <2>2. Shape(v) /\ v.linked = u.linked /\ v.q = u.q /\ v.scanned = u.scanned /\ v.fixed = u.fixed
    <3>1. v.to_roaming \in Nat
      BY <2>1
    <3> QED
      BY <1>4, <3>1 DEF Shape, Field
  <2>3. x \in rtw_sitesurvey_cmd(v)
    BY <1>8 DEF u
  <2> HIDE DEF v, ends, waits
  <2>4. ~v.linked /\ Clean(v)
    BY <1>4, <2>1, <2>2 DEF Clean
  <2>5. Shape(x) /\ Steady(v, x) /\ Clean(x)
    BY <2>2, <2>3, <2>4, SiteSurveyDoes, SiteSurveySteady
  <2>6. ~x.linked
    BY <2>4, <2>5 DEF Steady
  <2>7. /\ Shape(waits(x)) /\ waits(x).q = x.q /\ ~waits(x).linked
        /\ waits(x).scanned = x.scanned /\ waits(x).fixed = x.fixed
    BY <1>5, <2>5, <2>6
  <2>8. /\ ~t.linking /\ t.q = x.q /\ ~t.linked /\ t.scanned = x.scanned /\ t.fixed = x.fixed
    BY <1>5, <1>8, <2>7
  <2> QED
    BY <2>5, <2>8 DEF Clean, Over
<1>9. ASSUME t = ends(lost(r.m)) PROVE Goal
  <2> DEFINE z == rtw_set_roaming(u, 0)
             g == rtw_free_assoc_resources(z)
  <2>1. Shape(z) /\ z.q = u.q /\ z.scanned = u.scanned /\ z.fixed = u.fixed
    BY <1>4 DEF rtw_set_roaming, Shape, Field
  <2>2. t = ends(rtw_indicate_disconnect(g))
    BY <1>9 DEF u
  <2> HIDE DEF z, ends, waits
  <2>3. Shape(g) /\ g.q = z.q
    BY <2>1, FreeResourcesDoes
  <2>4. g.scanned = z.scanned /\ g.fixed \subseteq z.fixed
    BY <2>1 DEF rtw_free_assoc_resources, Shape, Field
  <2> HIDE DEF g
  <2>5. Clean(g)
    BY <1>4, <2>1, <2>3, <2>4 DEF Clean
  <2> HIDE DEF Goal
  <2> QED
    BY <1>7, <2>2, <2>3, <2>5
<1>10. ASSUME t = ends(rtw_indicate_disconnect(r.m)) PROVE Goal
  <2>1. t = ends(rtw_indicate_disconnect(u))
    BY <1>10 DEF u
  <2> HIDE DEF ends, waits, Goal
  <2> QED
    BY <1>4, <1>7, <2>1
<1> HIDE DEF n, lost, waits, ends, timed, Goal
<1>11. Goal
  BY <1>1, <1>6, <1>8, <1>9, <1>10
<1> QED
  BY <1>11 DEF Goal

\* rtw_joinbss_event_prehandle, of a success.
LEMMA JoinedClean ==
  ASSUME NEW s, Shape(s), Clean(s), NEW b \in s.scanned
  PROVE  LET t == Joined(s, b)
         IN  Clean(t) /\ t.sec_bss = s.sec_bss
<1> DEFINE old == IF s.linked /\ s.cur = b THEN s
                  ELSE IF s.linked THEN [s EXCEPT !.fixed = (@ \ {s.cur}) \cup {b},
                                                  !.sta = @ \ {s.cur}]
                  ELSE [s EXCEPT !.fixed = @ \cup {b}]
           mid == [old EXCEPT !.cur = b, !.sta = @ \cup {b},
                              !.linked = FALSE, !.linking = FALSE, !.survey = FALSE]
           t == rtw_indicate_connect(mid)
<1>1. /\ Shape(old) /\ old.q = s.q /\ old.scanned = s.scanned
      /\ old.fixed \subseteq s.fixed \cup {b} /\ old.sec_bss = s.sec_bss
  BY DEF Shape, Field
<1> HIDE DEF old
<1>2. /\ Shape(mid) /\ mid.q = s.q /\ mid.scanned = s.scanned /\ mid.fixed = old.fixed
      /\ mid.sec_bss = s.sec_bss
  BY <1>1 DEF Shape, Field
<1> HIDE DEF mid
<1>3. t.q = s.q /\ t.scanned = s.scanned /\ t.fixed = old.fixed /\ t.sec_bss = s.sec_bss
  BY <1>2 DEF rtw_indicate_connect, Shape, Field
<1> HIDE DEF t
<1>4. Clean(t)
  BY <1>1, <1>3 DEF Clean
<1>5. Joined(s, b) = t
  BY Zenon DEF Joined, t, mid, old
<1> QED
  BY <1>3, <1>4, <1>5

\* The exchange with the access point is complete, or will be reported to have
\* failed: by link_timer, by link_timer_hdl or the tasklet that has given it
\* up, or by the callback of the event that ends the link.
Exchange ==
  \/ Associated
  \/ linktimer /\ "sta" \in ext.st /\ ext.st \cap {"authnull", "auth", "assoc"} # {}
  \/ lt.at \in {"pre", "ref"}
  \/ rx.at \in {"pre", "ref"} /\ ~rx.f
  \/ th.at = "del"

Answered == Exchange \/ HasCmd(m.q, "delsta") \/ JoinLast(m.q)

\* A join command finds its parameter, and follows the disconnect command that
\* it was queued with.
Prepared ==
  /\ HasCmd(m.q, "join") => m.sec_bss # NoBss
  /\ HasCmd(m.q, "disc") => JoinLast(m.q)

\* A link that _rtw_join_timeout_handler will end: assoc_timer is set, and the
\* tasklet is not about to cancel it.
Doomed == m.linked /\ rx.at # "sync" /\ (m.assoc_timer \/ joinfires)

LInv ==
  /\ Clean(m)
  /\ ~(m.linked /\ m.linking)
  /\ m.linked => m.to_roaming = 0
  /\ m.linked \/ m.linking => Doomed \/ (Answered /\ Prepared)

LEMMA OverKeeps ==
  ASSUME Clean(m'), Over(m')
  PROVE  LInv'
BY DEF LInv, Over

LEMMA BegunKeeps ==
  ASSUME Clean(m'), Begun(m')
  PROVE  LInv'
BY DEF LInv, Begun, Answered, Prepared

LEMMA SteadyKeeps ==
  ASSUME LInv, Clean(m'), Steady(m, m'), m'.linking => m.linking,
         m.assoc_timer \/ joinfires => m'.assoc_timer \/ joinfires',
         rx'.at = "sync" => rx.at = "sync",
         Exchange => Exchange' \/ HasCmd(m'.q, "delsta")
  PROVE  LInv'
<1>1. Doomed => Doomed'
  BY DEF Doomed, Steady
<1>2. Answered => Answered'
  BY DEF Answered, Steady, QueueKept
<1>3. Prepared => Prepared'
  BY DEF Prepared, Steady, QueueKept
<1> QED
  BY <1>1, <1>2, <1>3 DEF LInv, Steady

LEMMA ExchangeSame ==
  ASSUME UNCHANGED <<ext, linktimer, lt, rx>>, th.at = "del" => th'.at = "del"
  PROVE  Exchange => Exchange'
BY DEF Exchange, Associated

\* A step that leaves the exchange alone.
LEMMA AsideKeeps ==
  ASSUME LInv, Clean(m'), Steady(m, m'), m'.linking => m.linking,
         m.assoc_timer \/ joinfires => m'.assoc_timer \/ joinfires',
         UNCHANGED <<ext, linktimer, lt, rx>>, th.at = "del" => th'.at = "del"
  PROVE  LInv'
BY ExchangeSame, SteadyKeeps

\* A command other than a join or a disconnect is queued.
LEMMA QueuedLink ==
  ASSUME IInv, LInv, NEW c \in Command, c.c \notin {"join", "disc"},
         c.c = "sawbss" => c.b # NoBss, m' = Enqueue(m, c), UNCHANGED joinfires,
         rx'.at = "sync" => rx.at = "sync",
         Exchange => Exchange' \/ c.c = "delsta"
  PROVE  LInv'
<1>1. /\ Steady(m, m') /\ m'.linking = m.linking /\ m'.assoc_timer = m.assoc_timer
      /\ (c.c = "delsta" => HasCmd(m'.q, "delsta")) /\ Clean(m')
  BY EnqueueSteady DEF IInv, Core, LInv
<1> QED
  BY <1>1, SteadyKeeps

\* A step of the exchange alone.
LEMMA ExchangeKeeps ==
  ASSUME LInv, UNCHANGED <<m, joinfires>>, rx'.at = "sync" => rx.at = "sync",
         Exchange => Exchange'
  PROVE  LInv'
<1>1. Steady(m, m') /\ Clean(m')
  BY QueueKeptSelf DEF Steady, LInv
<1> QED
  BY <1>1, SteadyKeeps

-----------------------------------------------------------------------------
LEMMA SetTargetLink ==
  ASSUME IInv, LInv, NEW s, NEW same, SetTarget(s, same),
         UNCHANGED <<ext, linktimer, lt, rx, th, joinfires>>
  PROVE  LInv'
<1> DEFINE torn == IF ~m.survey /\ m.linked /\ ~same THEN Disassociated(m) ELSE {m}
           Asked(x) == [x EXCEPT !.ssid = s.ssid, !.bssid = s.bssid]
<1>0. \/ m' = m
      \/ \E t \in torn :
           \/ m' = t
           \/ m.survey /\ m' = [Asked(t) EXCEPT !.to_join = TRUE]
           \/ \E r \in rtw_do_join(Asked(t)) : m' = r.m
  BY DEF SetTarget
<1>2. Shape(m) /\ Clean(m)
  BY DEF IInv, Core, LInv
<1>3. ASSUME m' = m PROVE LInv'
  BY <1>3, ExchangeKeeps, ExchangeSame
<1> SUFFICES ASSUME NEW t \in torn,
                    \/ m' = t
                    \/ m.survey /\ m' = [Asked(t) EXCEPT !.to_join = TRUE]
                    \/ \E r \in rtw_do_join(Asked(t)) : m' = r.m
             PROVE  LInv'
  BY <1>0, <1>3, Zenon
<1> DEFINE u == Asked(t)
<1>1. \/ m' = t
      \/ m.survey /\ m' = [u EXCEPT !.to_join = TRUE]
      \/ \E r \in rtw_do_join(u) : m' = r.m
  OBVIOUS
<1>4. Shape(t) /\ Clean(t) /\ (t = m \/ Over(t)) /\ (m.survey => t = m)
  <2>1. CASE ~m.survey /\ m.linked /\ ~same
    <3>1. t \in Disassociated(m)
      BY <2>1
    <3> HIDE DEF torn
    <3> QED
      BY <1>2, <2>1, <3>1, DisassociatedOver
  <2>2. CASE ~(~m.survey /\ m.linked /\ ~same)
    BY <1>2, <2>2
  <2> QED
    BY <2>1, <2>2
<1> HIDE DEF torn
<1>5. /\ Shape(u) /\ u.q = t.q /\ u.linked = t.linked /\ u.linking = t.linking
      /\ u.sec_bss = t.sec_bss /\ u.to_roaming = t.to_roaming
      /\ u.scanned = t.scanned /\ u.fixed = t.fixed /\ u.assoc_timer = t.assoc_timer
  BY <1>4 DEF Shape, Field
<1>6. m.survey /\ m' = [u EXCEPT !.to_join = TRUE] => LInv'
  <2> SUFFICES ASSUME m.survey, m' = [u EXCEPT !.to_join = TRUE] PROVE LInv'
    OBVIOUS
  <2> HIDE DEF u
  <2>1. /\ m'.q = u.q /\ m'.linked = u.linked /\ m'.linking = u.linking
        /\ m'.sec_bss = u.sec_bss /\ m'.to_roaming = u.to_roaming
        /\ m'.scanned = u.scanned /\ m'.fixed = u.fixed /\ m'.assoc_timer = u.assoc_timer
    BY <1>5 DEF Shape, Field
  <2>2. Steady(m, m') /\ Clean(m') /\ m'.linking = m.linking /\ m'.assoc_timer = m.assoc_timer
    BY <1>2, <1>4, <1>5, <2>1, QueueKeptSelf DEF Steady, Clean
  <2> QED
    BY <2>2, AsideKeeps
<1> HIDE DEF u
<1>7. Clean(u) /\ Steady(t, u)
  BY <1>4, <1>5, QueueKeptSelf DEF Clean, Steady
<1>8. ASSUME NEW r \in rtw_do_join(u), m' = r.m PROVE LInv'
  <2>1. /\ Clean(m')
        /\ \/ Over(m') \/ Begun(m')
           \/ Steady(u, m') /\ ~m'.linking /\ m'.assoc_timer = u.assoc_timer
    BY <1>5, <1>7, <1>8, DoJoinEnds
  <2>2. CASE Over(m') \/ Begun(m')
    BY <2>1, <2>2, OverKeeps, BegunKeeps
  <2>3. CASE Steady(u, m') /\ ~m'.linking /\ m'.assoc_timer = u.assoc_timer
    <3>1. CASE Over(t)
      BY <1>7, <2>1, <2>3, <3>1, OverKeeps DEF Over, Steady
    <3>2. CASE t = m
      <4>1. Steady(m, m')
        BY <1>7, <2>3, <3>2, SteadyTransitive
      <4> QED
        BY <1>5, <2>1, <2>3, <3>2, <4>1, AsideKeeps
    <3> QED
      BY <1>4, <3>1, <3>2
  <2> QED
    BY <2>1, <2>2, <2>3
<1> QED
  BY <1>1, <1>3, <1>4, <1>6, <1>8, OverKeeps

LEMMA UserLink ==
  ASSUME IInv, LInv, User
  PROVE  LInv'
<1>1. ASSUME NEW x \in Ssid, SetSsid(x) PROVE LInv'
  <2>1. UNCHANGED <<ext, linktimer, lt, rx, th, joinfires>>
    BY <1>1 DEF SetSsid, timers
  <2>2. SetTarget([ssid |-> x, bssid |-> NoBss], m.ssid = x)
    BY <1>1 DEF SetSsid
  <2> QED
    BY <2>1, <2>2, SetTargetLink
<1>2. ASSUME NEW b \in Bss, SetBssid(b) PROVE LInv'
  <2>1. UNCHANGED <<ext, linktimer, lt, rx, th, joinfires>>
    BY <1>2 DEF SetBssid, timers
  <2>2. SetTarget([ssid |-> m.ssid, bssid |-> b], m.cur = b)
    BY <1>2 DEF SetBssid
  <2> QED
    BY <2>1, <2>2, SetTargetLink
<1>3. CASE Disassociate
  <2>1. m' \in Disassociated(m)
    BY <1>3 DEF Disassociate
  <2>2. Over(m') /\ Clean(m')
    BY <2>1, DisassociatedOver DEF IInv, Core, LInv
  <2> QED
    BY <2>2, OverKeeps
<1>4. CASE ScanChecks
  <2>1. UNCHANGED <<m, ext, linktimer, lt, rx, th, joinfires>>
    BY <1>4 DEF ScanChecks, timers
  <2> QED
    BY <2>1, ExchangeSame, ExchangeKeeps
<1> QED
  BY <1>1, <1>2, <1>3, <1>4 DEF User

LEMMA ScanStartsLink ==
  ASSUME IInv, LInv, ScanStarts
  PROVE  LInv'
<1>1. UNCHANGED <<ext, linktimer, lt, rx, th, joinfires>>
  BY DEF ScanStarts, timers
<1>2. m' \in rtw_sitesurvey_cmd(m) \/ m' = m
  BY DEF ScanStarts
<1>3. CASE m' = m
  BY <1>1, <1>3, ExchangeSame, ExchangeKeeps
<1>4. CASE m' \in rtw_sitesurvey_cmd(m)
  <2>1. Steady(m, m') /\ m'.linking = m.linking /\ m'.assoc_timer = m.assoc_timer /\ Clean(m')
    BY <1>4, SiteSurveySteady DEF IInv, Core, LInv
  <2> QED
    BY <1>1, <2>1, AsideKeeps
<1> QED
  BY <1>2, <1>3, <1>4

LEMMA SeesLink ==
  ASSUME IInv, LInv, NEW at \in {"beacon", "auth", "assoc"}, NEW tests, Sees(at, tests)
  PROVE  LInv'
<1>1. UNCHANGED <<m, ext, linktimer, lt, th, joinfires>> /\ rx = Idle /\ rx'.at = at
  BY DEF Sees, timers
<1>2. Exchange => Exchange'
  BY <1>1 DEF Exchange, Associated, Idle
<1> QED
  BY <1>1, <1>2, ExchangeKeeps

LEMMA AirLink ==
  ASSUME ~NoMem, IInv, LInv, Air
  PROVE  LInv'
<1>1. ASSUME NEW b \in Bss, SeesBss(b) PROVE LInv'
  <2>1. /\ m' = Enqueue(m, CmdOf("sawbss", b, FALSE))
        /\ UNCHANGED <<ext, linktimer, lt, rx, th, joinfires>>
    BY <1>1 DEF SeesBss, timers
  <2>2. /\ CmdOf("sawbss", b, FALSE) \in Command /\ CmdOf("sawbss", b, FALSE).c = "sawbss"
        /\ CmdOf("sawbss", b, FALSE).b = b /\ b # NoBss
    BY CmdTyped, MlmeAssumption DEF BssOrNone, CmdOf
  <2>3. Exchange => Exchange'
    BY <2>1, ExchangeSame
  <2> QED
    BY <2>1, <2>2, <2>3, QueuedLink
<1>2. CASE SeesBeacon \/ SeesAuth \/ SeesAssoc
  BY <1>2, SeesLink DEF SeesBeacon, SeesAuth, SeesAssoc
<1>3. CASE Deauth
  <2>1. rx = Idle /\ UNCHANGED <<joinfires, lt, th>>
    BY <1>3 DEF Deauth, timers
  <2>2. CASE "done" \in ext.st
    \* The event that will end the link is queued.
    <3> DEFINE c == CmdOf("delsta", ext.bss, FALSE)
    <3>1. m' = Enqueue(m, c) /\ rx' = rx
      BY <1>3, <2>2 DEF Deauth, Posted
    <3>2. c \in Command /\ c.c = "delsta"
      BY CmdTyped DEF IInv, Types, ExtType
    <3> HIDE DEF c
    <3> QED
      BY <2>1, <3>1, <3>2, QueuedLink
  <2>3. CASE "done" \notin ext.st
    \* The failure will be reported.
    <3>1. m' = m /\ rx' = Failed(ext.bss)
      BY <1>3, <2>3 DEF Deauth, Reported
    <3>2. Exchange' /\ rx'.at # "sync"
      BY <3>1 DEF Exchange, Failed
    <3> QED
      BY <2>1, <3>1, <3>2, ExchangeKeeps
  <2> QED
    BY <2>2, <2>3
<1>4. CASE Expires
  <2> DEFINE c == CmdOf("delsta", ext.bss, TRUE)
  <2>1. m' = Enqueue(m, c) /\ UNCHANGED <<joinfires, rx>>
    BY <1>4 DEF Expires, Posted, timers
  <2>2. c \in Command /\ c.c = "delsta"
    BY CmdTyped DEF IInv, Types, ExtType
  <2> HIDE DEF c
  <2> QED
    BY <2>1, <2>2, QueuedLink
<1> QED
  BY <1>1, <1>2, <1>3, <1>4 DEF Air

\* A failure that is reported ends the join, and dooms the link if there is one.
LEMMA FailsLink ==
  ASSUME IInv, LInv, NEW p, PrehandleFails(p), rx'.at # "sync"
  PROVE  LInv'
<1> DEFINE s == IF p.at = "ref" THEN rtw_reset_securitypriv(m) ELSE m
<1>1. m' = [s EXCEPT !.assoc_timer = TRUE, !.linking = FALSE]
  BY DEF PrehandleFails
<1>2. /\ Shape(s) /\ s.linked = m.linked /\ s.to_roaming = m.to_roaming /\ s.q = m.q
      /\ s.scanned = m.scanned /\ s.fixed = m.fixed
  <2>1. Shape(m)
    BY DEF IInv, Core
  <2> QED
    BY <2>1 DEF rtw_reset_securitypriv, Shape, Field, BssOrNone
<1> HIDE DEF s
<1>3. /\ m'.linked = m.linked /\ ~m'.linking /\ m'.assoc_timer /\ m'.q = m.q
      /\ m'.to_roaming = m.to_roaming /\ m'.scanned = m.scanned /\ m'.fixed = m.fixed
  BY <1>1, <1>2 DEF Shape, Field
<1>4. Clean(m')
  BY <1>3 DEF LInv, Clean
<1> QED
  BY <1>3, <1>4 DEF LInv, Doomed

LEMMA IgnoresSteady ==
  ASSUME IInv, LInv, NEW p, PrehandleIgnores(p)
  PROVE  Steady(m, m') /\ Clean(m') /\ m'.linking = m.linking /\ m'.assoc_timer = m.assoc_timer
<1>1. /\ m'.linked = m.linked /\ m'.linking = m.linking /\ m'.assoc_timer = m.assoc_timer
      /\ m'.q = m.q /\ m'.sec_bss = m.sec_bss /\ m'.to_roaming = m.to_roaming
      /\ m'.scanned = m.scanned /\ m'.fixed \subseteq m.fixed
  BY DEF PrehandleIgnores, IInv, Core, Shape, Field
<1> QED
  BY <1>1, QueueKeptSelf DEF Steady, LInv, Clean

LEMMA TaskletLink ==
  ASSUME ~NoMem, IInv, LInv, Tasklet
  PROVE  LInv'
<1>0. Shape(m) /\ ext \in ExtType /\ rx \in Place(RxAt) /\ lt \in Place(RxAt)
  BY DEF IInv, Core, Types
<1>1. CASE StartAuth
  <2>1. /\ UNCHANGED <<lt, th, joinfires>> /\ rx.at = "beacon" /\ rx' = Idle /\ linktimer'
        /\ ext' = [ext EXCEPT !.st = (@ \ {"authnull"}) \cup {"auth"}, !.cnt = 0]
    BY <1>1 DEF StartAuth
  <2>2. m' = [m EXCEPT !.cur = rx.b] \/ m' = m
    BY <1>1 DEF StartAuth
  <2>3. /\ m'.linked = m.linked /\ m'.linking = m.linking /\ m'.assoc_timer = m.assoc_timer
        /\ m'.q = m.q /\ m'.sec_bss = m.sec_bss /\ m'.to_roaming = m.to_roaming
        /\ m'.scanned = m.scanned /\ m'.fixed = m.fixed
    BY <1>0, <2>2 DEF Shape, Field
  <2>4. Steady(m, m') /\ Clean(m')
    BY <2>3, QueueKeptSelf DEF Steady, LInv, Clean
  <2>5. ext'.st = (ext.st \ {"authnull"}) \cup {"auth"}
    BY <1>0, <2>1 DEF ExtType
  <2>6. Exchange => Exchange'
    BY <2>1, <2>5 DEF Exchange, Associated
  <2> QED
    BY <2>1, <2>3, <2>4, <2>6, SteadyKeeps DEF Idle
<1>2. CASE AuthGoesOn
  <2>1. /\ UNCHANGED <<m, ext, lt, th, joinfires>> /\ rx.at = "auth" /\ rx' = Idle
        /\ linktimer' = linktimer \/ linktimer' = TRUE
    BY <1>2, Zenon DEF AuthGoesOn
  <2>2. Exchange => Exchange'
    <3>1. CASE linktimer' = linktimer
      BY <2>1, <3>1 DEF Exchange, Associated
    <3>2. CASE linktimer' = TRUE
      BY <2>1, <3>2 DEF Exchange, Associated
    <3> QED
      BY <2>1, <3>1, <3>2
  <2> QED
    BY <2>1, <2>2, ExchangeKeeps DEF Idle
<1>3. CASE StartAssoc
  <2>1. /\ UNCHANGED <<m, lt, th, joinfires>> /\ rx.at = "auth" /\ rx' = Idle /\ linktimer'
        /\ ext' = [ext EXCEPT !.st = (@ \ {"authnull", "auth"}) \cup {"authok", "assoc"}, !.cnt = 0]
    BY <1>3 DEF StartAssoc
  <2>2. ext'.st = (ext.st \ {"authnull", "auth"}) \cup {"authok", "assoc"}
    BY <1>0, <2>1 DEF ExtType
  <2>3. Exchange => Exchange'
    BY <2>1, <2>2 DEF Exchange, Associated
  <2> QED
    BY <2>1, <2>3, ExchangeKeeps DEF Idle
<1>4. ASSUME NEW ok \in BOOLEAN, AssocAnswered(ok) PROVE LInv'
  <2>1. /\ UNCHANGED <<m, lt, th, joinfires>> /\ rx.at = "assoc" /\ lt = Idle
        /\ rx' = [at |-> IF ok THEN "pre" ELSE "ref", b |-> ext.bss, f |-> ok]
        /\ ext' = [ext EXCEPT !.st = IF ok THEN (@ \ {"assoc"}) \cup {"done"} ELSE {}]
    BY <1>4 DEF AssocAnswered, Reported
  <2>2. CASE ok
    \* An exchange that was under way is complete.
    <3>1. ext'.st = (ext.st \ {"assoc"}) \cup {"done"}
      BY <1>0, <2>1, <2>2 DEF ExtType
    <3>2. Exchange => Exchange'
      BY <2>1, <3>1 DEF Exchange, Associated, Idle
    <3> QED
      BY <2>1, <2>2, <3>2, ExchangeKeeps
  <2>3. CASE ~ok
    <3>1. rx'.at = "ref" /\ ~rx'.f
      BY <2>1, <2>3
    <3>2. Exchange'
      BY <3>1 DEF Exchange
    <3> QED
      BY <2>1, <3>1, <3>2, ExchangeKeeps
  <2> QED
    BY <2>2, <2>3
<1>5. CASE RxReports
  <2>1. /\ UNCHANGED <<ext, linktimer, lt, th, joinfires>> /\ rx' = [rx EXCEPT !.at = "enq"]
    BY <1>5 DEF RxReports, timers
  <2>2. rx'.at = "enq"
    BY <1>0, <2>1 DEF Place
  <2>3. CASE PrehandleFails(rx)
    BY <2>2, <2>3, FailsLink
  <2>4. CASE PrehandleIgnores(rx)
    <3>1. rx.f
      BY <2>4 DEF PrehandleIgnores
    <3>2. Exchange => Exchange'
      BY <2>1, <3>1 DEF Exchange, Associated
    <3> QED
      BY <2>1, <2>2, <2>4, <3>2, IgnoresSteady, SteadyKeeps
  <2> QED
    BY <1>5, <2>3, <2>4 DEF RxReports
<1>6. CASE RxJoins
  \* What the join waited for is what the link rests on.
  <2>1. /\ UNCHANGED <<ext, linktimer, lt, th>> /\ rx.f /\ m.linking /\ rx.b \in m.scanned
        /\ m' = Joined(m, rx.b)
    BY <1>6 DEF RxJoins, PrehandleJoins, timers
  <2>2. /\ m'.linked /\ ~m'.linking /\ m'.to_roaming = 0 /\ m'.q = m.q
        /\ m'.sec_bss = m.sec_bss /\ Clean(m')
    BY <1>0, <2>1, JoinedDoes, JoinedClean DEF LInv
  <2>3. Answered /\ Prepared
    BY <2>1 DEF LInv, Doomed
  <2>4. Exchange => Exchange'
    BY <2>1 DEF Exchange, Associated
  <2>5. Answered' /\ Prepared'
    BY <2>2, <2>3, <2>4 DEF Answered, Prepared
  <2> QED
    BY <2>2, <2>5 DEF LInv
<1>7. CASE RxCancels
  <2>1. /\ UNCHANGED <<ext, linktimer, lt, th>> /\ rx.at = "sync"
        /\ m' = [m EXCEPT !.assoc_timer = FALSE] /\ rx' = [rx EXCEPT !.at = "enq"]
    BY <1>7 DEF RxCancels, timers
  <2>2. /\ m'.linked = m.linked /\ m'.linking = m.linking /\ m'.to_roaming = m.to_roaming
        /\ m'.q = m.q /\ m'.sec_bss = m.sec_bss
        /\ m'.scanned = m.scanned /\ m'.fixed = m.fixed
    BY <1>0, <2>1 DEF Shape, Field
  <2>3. Exchange => Exchange'
    BY <2>1 DEF Exchange, Associated
  <2>4. m.linked \/ m.linking => Answered /\ Prepared
    BY <2>1 DEF LInv, Doomed
  <2>5. (Answered => Answered') /\ (Prepared => Prepared')
    BY <2>2, <2>3 DEF Answered, Prepared
  <2>6. Clean(m')
    BY <2>2 DEF LInv, Clean
  <2> QED
    BY <2>2, <2>4, <2>5, <2>6 DEF LInv
<1>8. CASE RxQueues
  <2> DEFINE c == CmdOf("joinres", rx.b, rx.f)
  <2>1. /\ m' = Enqueue(m, c) /\ UNCHANGED <<ext, linktimer, lt, th, joinfires>>
        /\ rx.at = "enq" /\ rx' = Idle
    BY <1>8 DEF RxQueues, EventQueued, timers
  <2>2. c \in Command /\ c.c = "joinres"
    BY <1>0, CmdTyped DEF Place
  <2>3. Exchange => Exchange'
    BY <2>1 DEF Exchange, Associated
  <2> HIDE DEF c
  <2> QED
    BY <2>1, <2>2, <2>3, QueuedLink DEF Idle
<1> QED
  BY <1>1, <1>2, <1>3, <1>4, <1>5, <1>6, <1>7, <1>8 DEF Tasklet

LEMMA LinkTimerHdlLink ==
  ASSUME ~NoMem, IInv, LInv, LinkTimerHdl
  PROVE  LInv'
<1>0. Shape(m) /\ ext \in ExtType /\ lt \in Place(RxAt)
  BY DEF IInv, Core, Types
<1>1. CASE LinkTimer
  <2> DEFINE stage == IF "authnull" \in ext.st THEN "beacon"
                      ELSE IF "auth" \in ext.st THEN "auth"
                      ELSE IF "assoc" \in ext.st THEN "assoc" ELSE "none"
             gives_up == stage = "beacon" \/ (stage \in {"auth", "assoc"} /\ ext.cnt = Limit)
  <2>1. /\ UNCHANGED <<m, rx, th, joinfires>> /\ lt = Idle
        /\ linktimer' = (stage \in {"auth", "assoc"} /\ ~gives_up)
        /\ ext' = IF gives_up THEN [ext EXCEPT !.st = {}, !.cnt = 0]
                  ELSE IF stage = "none" THEN ext ELSE [ext EXCEPT !.cnt = @ + 1]
        /\ lt' = IF gives_up THEN Failed(ext.bss) ELSE Idle
    BY <1>1 DEF LinkTimer, Reported
  <2>2. CASE gives_up
    <3>1. lt'.at = "pre"
      BY <2>1, <2>2 DEF Failed
    <3>2. Exchange'
      BY <3>1 DEF Exchange
    <3> QED
      BY <2>1, <3>2, ExchangeKeeps
  <2>3. CASE ~gives_up
    \* What has not given up has set the timer again.
    <3>1. ext'.st = ext.st
      BY <1>0, <2>1, <2>3 DEF ExtType
    <3>2. ext.st \cap {"authnull", "auth", "assoc"} # {} => linktimer'
      BY <2>1, <2>3
    <3>3. Exchange => Exchange'
      BY <2>1, <3>1, <3>2 DEF Exchange, Associated, Idle
    <3> QED
      BY <2>1, <3>3, ExchangeKeeps
  <2> QED
    BY <2>2, <2>3
<1>2. CASE LtReports
  <2>1. PrehandleFails(lt) /\ rx' = rx /\ ~lock
    BY <1>2 DEF LtReports, PrehandleFails
  <2>2. rx'.at # "sync"
    BY <2>1 DEF IInv, Core, SyncLinked
  <2> QED
    BY <2>1, <2>2, FailsLink
<1>3. CASE LtQueues
  <2> DEFINE c == CmdOf("joinres", lt.b, lt.f)
  <2>1. /\ m' = Enqueue(m, c) /\ UNCHANGED <<ext, linktimer, rx, th, joinfires>>
        /\ lt.at = "enq" /\ lt' = Idle
    BY <1>3 DEF LtQueues, EventQueued, timers
  <2>2. c \in Command /\ c.c = "joinres"
    BY <1>0, CmdTyped DEF Place
  <2>3. Exchange => Exchange'
    BY <2>1 DEF Exchange, Associated
  <2> HIDE DEF c
  <2> QED
    BY <2>1, <2>2, <2>3, QueuedLink
<1> QED
  BY <1>1, <1>2, <1>3 DEF LinkTimerHdl

LEMMA TimersLink ==
  ASSUME IInv, LInv, AssocTimerExpires \/ ScanTimerExpires \/ ScanTimeout \/ SurveyTimer
  PROVE  LInv'
<1>0. Shape(m)
  BY DEF IInv, Core
<1>1. ASSUME NEW d, m' = [m EXCEPT !.assoc_timer = d] \/ m' = [m EXCEPT !.scan_timer = FALSE]
               \/ m' = [m EXCEPT !.survey = FALSE] \/ m' = m,
             m.assoc_timer \/ joinfires => m'.assoc_timer \/ joinfires',
             UNCHANGED <<ext, linktimer, lt, rx, th>>
      PROVE  LInv'
  <2>1. /\ m'.linked = m.linked /\ m'.linking = m.linking /\ m'.q = m.q
        /\ m'.sec_bss = m.sec_bss /\ m'.to_roaming = m.to_roaming
        /\ m'.scanned = m.scanned /\ m'.fixed = m.fixed
    BY <1>0, <1>1 DEF Shape, Field
  <2>2. Steady(m, m') /\ Clean(m')
    BY <2>1, QueueKeptSelf DEF Steady, LInv, Clean
  <2> QED
    BY <1>1, <2>1, <2>2, AsideKeeps
<1>2. CASE AssocTimerExpires
  <2>1. /\ m' = [m EXCEPT !.assoc_timer = FALSE] /\ joinfires'
        /\ UNCHANGED <<ext, linktimer, lt, rx, th>>
    BY <1>2 DEF AssocTimerExpires
  <2> QED
    BY <1>1, <2>1
<1>3. CASE ScanTimerExpires
  <2>1. /\ m' = [m EXCEPT !.scan_timer = FALSE] /\ UNCHANGED <<ext, linktimer, lt, rx, th, joinfires>>
    BY <1>3 DEF ScanTimerExpires
  <2>2. m'.assoc_timer = m.assoc_timer
    BY <1>0, <2>1 DEF Shape, Field
  <2> QED
    BY <1>1, <2>1, <2>2
<1>4. CASE ScanTimeout
  <2>1. /\ m' = [m EXCEPT !.survey = FALSE] /\ UNCHANGED <<ext, linktimer, lt, rx, th, joinfires>>
    BY <1>4 DEF ScanTimeout
  <2>2. m'.assoc_timer = m.assoc_timer
    BY <1>0, <2>1 DEF Shape, Field
  <2> QED
    BY <1>1, <2>1, <2>2
<1>5. CASE SurveyTimer
  <2>1. /\ m' = m \/ m' = Enqueue(m, Cmd("survey"))
        /\ UNCHANGED <<ext, linktimer, lt, rx, th, joinfires>>
    BY <1>5 DEF SurveyTimer, Posted
  <2>2. Cmd("survey") \in Command /\ Cmd("survey").c = "survey"
    BY CmdTyped
  <2>3. Exchange => Exchange'
    BY <2>1, ExchangeSame
  <2>4. CASE m' = m
    BY <2>1, <2>3, <2>4, ExchangeKeeps
  <2>5. CASE m' = Enqueue(m, Cmd("survey"))
    BY <2>1, <2>2, <2>3, <2>5, QueuedLink
  <2> QED
    BY <2>1, <2>4, <2>5
<1> QED
  BY <1>2, <1>3, <1>4, <1>5

\* A link that is there when the timeout is handled is given up: roaming is
\* over while there is a link.
LEMMA JoinTimeoutLink ==
  ASSUME IInv, LInv, JoinTimeout
  PROVE  LInv'
<1>1. Shape(m) /\ Clean(m) /\ m.to_roaming \in Nat
  BY DEF IInv, Core, LInv, Shape
<1>2. CASE m.to_roaming > 0
  <2>1. m' \in Roams(m, m.to_roaming - 1) /\ m.to_roaming - 1 \in Nat
    BY <1>1, <1>2 DEF JoinTimeout
  <2>2. ~m.linked
    BY <1>2 DEF LInv
  <2>3. Clean(m') /\ (Over(m') \/ Begun(m'))
    BY <1>1, <2>1, <2>2, RoamsEnds
  <2> QED
    BY <2>3, OverKeeps, BegunKeeps
<1>3. CASE ~(m.to_roaming > 0)
  <2> DEFINE d == rtw_indicate_disconnect(m)
  <2>1. m' = [d EXCEPT !.scanned = {}, !.fixed = {}]
    BY <1>3 DEF JoinTimeout
  <2>2. Shape(d) /\ d.q = m.q /\ ~d.linked /\ ~d.linking
    BY <1>1, DisconnectDoes
  <2> HIDE DEF d
  <2>3. ~m'.linked /\ ~m'.linking /\ m'.q = m.q /\ m'.scanned = {} /\ m'.fixed = {}
    BY <2>1, <2>2 DEF Shape, Field
  <2>4. Over(m') /\ Clean(m')
    BY <1>1, <2>3 DEF Over, Clean
  <2> QED
    BY <2>4, OverKeeps
<1> QED
  BY <1>2, <1>3

LEMMA PoppedLink ==
  ASSUME IInv, NEW c, Takes(c)
  PROVE  /\ Popped.linked = m.linked /\ Popped.linking = m.linking
         /\ Popped.to_roaming = m.to_roaming /\ Popped.assoc_timer = m.assoc_timer
         /\ Popped.sec_bss = m.sec_bss /\ (Clean(m) => Clean(Popped))
         /\ c \notin {"join", "disc", "delsta"} => Steady(m, Popped)
         /\ \A d : HasCmd(Popped.q, d) => HasCmd(m.q, d)
         /\ HasCmd(m.q, c)
         /\ c # "delsta" /\ HasCmd(m.q, "delsta") => HasCmd(Popped.q, "delsta")
         /\ c # "join" /\ JoinLast(m.q) => JoinLast(Popped.q)
         /\ HasCmd(Popped.q, "disc") /\ JoinLast(m.q) => JoinLast(Popped.q)
         /\ Clean(m) /\ c = "sawbss" => Head(m.q).b # NoBss
<1>1. PICK q \in Seq(Command) : q = m.q /\ q # <<>> /\ Head(q).c = c
  BY DEF IInv, Core, Shape, Takes
<1>2. /\ Popped.linked = m.linked /\ Popped.linking = m.linking
      /\ Popped.to_roaming = m.to_roaming /\ Popped.assoc_timer = m.assoc_timer
      /\ Popped.sec_bss = m.sec_bss /\ Popped.scanned = m.scanned /\ Popped.fixed = m.fixed
      /\ Popped.q = Tail(q)
  BY <1>1 DEF IInv, Core, Shape, Field, Popped
<1>3. /\ \A d : HasCmd(Tail(q), d) => HasCmd(q, d)
      /\ HasCmd(q, c)
      /\ c \notin {"join", "disc", "delsta"} => QueueKept(q, Tail(q))
      /\ c # "delsta" /\ HasCmd(q, "delsta") => HasCmd(Tail(q), "delsta")
      /\ c # "join" /\ JoinLast(q) => JoinLast(Tail(q))
      /\ HasCmd(Tail(q), "disc") /\ JoinLast(q) => JoinLast(Tail(q))
      /\ Aired(q) => Aired(Tail(q))
      /\ Aired(q) /\ c = "sawbss" => Head(q).b # NoBss
  BY <1>1, TailKeeps
<1> DEFINE r == Tail(q)
           h == Head(q)
<1>4. Popped.q = r /\ m.q = q /\ Head(m.q) = h
  BY <1>1, <1>2
<1> HIDE DEF r, h
<1>5. /\ \A d : HasCmd(r, d) => HasCmd(q, d)
      /\ HasCmd(q, c)
      /\ c \notin {"join", "disc", "delsta"} => QueueKept(q, r)
      /\ c # "delsta" /\ HasCmd(q, "delsta") => HasCmd(r, "delsta")
      /\ c # "join" /\ JoinLast(q) => JoinLast(r)
      /\ HasCmd(r, "disc") /\ JoinLast(q) => JoinLast(r)
      /\ Aired(q) => Aired(r)
      /\ Aired(q) /\ c = "sawbss" => h.b # NoBss
  BY <1>3 DEF r, h
<1>6. Clean(m) => Clean(Popped)
  BY <1>2, <1>4, <1>5, Zenon DEF Clean
<1>7. c \notin {"join", "disc", "delsta"} => Steady(m, Popped)
  BY <1>2, <1>4, <1>5, Zenon DEF Steady
<1>8. Clean(m) /\ c = "sawbss" => Head(m.q).b # NoBss
  BY <1>4, <1>5, Zenon DEF Clean
<1>9. /\ \A d : HasCmd(Popped.q, d) => HasCmd(m.q, d)
      /\ HasCmd(m.q, c)
      /\ c # "delsta" /\ HasCmd(m.q, "delsta") => HasCmd(Popped.q, "delsta")
      /\ c # "join" /\ JoinLast(m.q) => JoinLast(Popped.q)
      /\ HasCmd(Popped.q, "disc") /\ JoinLast(m.q) => JoinLast(Popped.q)
  BY <1>4, <1>5, Zenon
<1> QED
  BY <1>2, <1>6, <1>7, <1>8, <1>9

\* A command that neither begins an exchange nor ends one.
LEMMA PlainCmdLink ==
  ASSUME IInv, LInv, NEW c \in {"survey", "sawbss", "surveydone", "joinres"}, Takes(c),
         UNCHANGED <<ext, linktimer, lt, rx, joinfires>>, th'.at # "del" => th.at # "del",
         Steady(Popped, m'), m'.linking = m.linking, m'.assoc_timer = m.assoc_timer, Clean(m')
  PROVE  LInv'
<1>1. Steady(m, Popped)
  BY PoppedLink
<1>2. Steady(m, m')
  BY <1>1, SteadyTransitive
<1> QED
  BY <1>2, AsideKeeps

\* The join command: the exchange begins anew, with link_timer behind it.
LEMMA CmdJoinLink ==
  ASSUME IInv, LInv, CmdJoin
  PROVE  LInv'
<1>1. /\ Takes("join") /\ UNCHANGED <<joinfires, rx, lt, th>>
      /\ m' = Popped \/ m' = [Popped EXCEPT !.assoc_timer = TRUE]
  BY DEF CmdJoin
<1>2. Shape(Popped) /\ ext \in ExtType
  BY <1>1, PoppedDoes DEF IInv, Types
<1>3. /\ m'.linked = Popped.linked /\ m'.linking = Popped.linking
      /\ m'.to_roaming = Popped.to_roaming /\ m'.q = Popped.q /\ m'.sec_bss = Popped.sec_bss
      /\ m'.scanned = Popped.scanned /\ m'.fixed = Popped.fixed
      /\ Popped.assoc_timer => m'.assoc_timer
  BY <1>1, <1>2 DEF Shape, Field
<1>4. /\ Popped.linked = m.linked /\ Popped.linking = m.linking
      /\ Popped.to_roaming = m.to_roaming /\ Popped.assoc_timer = m.assoc_timer
      /\ Popped.sec_bss = m.sec_bss /\ Clean(Popped)
      /\ \A d : HasCmd(Popped.q, d) => HasCmd(m.q, d)
      /\ HasCmd(m.q, "join")
      /\ HasCmd(Popped.q, "disc") /\ JoinLast(m.q) => JoinLast(Popped.q)
  BY <1>1, PoppedLink DEF LInv
<1>5. Clean(m')
  BY <1>3, <1>4 DEF Clean
<1>6. Doomed => Doomed'
  BY <1>1, <1>3, <1>4 DEF Doomed
<1>7. ASSUME Prepared PROVE Prepared' /\ Answered'
  <2>1. Prepared'
    BY <1>3, <1>4, <1>7 DEF Prepared
  <2>2. m.sec_bss # NoBss
    BY <1>4, <1>7 DEF Prepared
  <2>3. ext' = [ext EXCEPT !.st = {"authnull", "sta"}, !.bss = m.sec_bss] /\ linktimer'
    BY <2>2 DEF CmdJoin
  <2>4. ext'.st = {"authnull", "sta"}
    BY <1>2, <2>3 DEF ExtType
  <2>5. Exchange'
    BY <2>3, <2>4 DEF Exchange
  <2> QED
    BY <2>1, <2>5 DEF Answered
<1> QED
  BY <1>3, <1>4, <1>5, <1>6, <1>7 DEF LInv

\* The disconnect command: the join that was queued after it is still to come.
LEMMA CmdDiscLink ==
  ASSUME IInv, LInv, CmdDisc
  PROVE  LInv'
<1>1. Takes("disc") /\ UNCHANGED <<joinfires, rx, th>> /\ m' = Popped
  BY DEF CmdDisc
<1>2. /\ Popped.linked = m.linked /\ Popped.linking = m.linking
      /\ Popped.to_roaming = m.to_roaming /\ Popped.assoc_timer = m.assoc_timer
      /\ Popped.sec_bss = m.sec_bss /\ Clean(Popped)
      /\ \A d : HasCmd(Popped.q, d) => HasCmd(m.q, d)
      /\ HasCmd(m.q, "disc") /\ (JoinLast(m.q) => JoinLast(Popped.q))
  BY <1>1, PoppedLink DEF LInv
<1>3. Doomed => Doomed'
  BY <1>1, <1>2 DEF Doomed
<1>4. Prepared => Prepared' /\ Answered'
  BY <1>1, <1>2 DEF Prepared, Answered
<1> QED
  BY <1>1, <1>2, <1>3, <1>4 DEF LInv

\* The event that ends a link: the rest of its callback is still to come.
LEMMA CmdDelStaLink ==
  ASSUME IInv, LInv, CmdDelSta
  PROVE  LInv'
<1>1. Takes("delsta") /\ UNCHANGED <<joinfires, rx>> /\ m' = Popped /\ th'.at = "del"
  BY DEF CmdDelSta
<1>2. /\ Popped.linked = m.linked /\ Popped.linking = m.linking
      /\ Popped.to_roaming = m.to_roaming /\ Popped.assoc_timer = m.assoc_timer
      /\ Popped.sec_bss = m.sec_bss /\ Clean(Popped)
      /\ \A d : HasCmd(Popped.q, d) => HasCmd(m.q, d)
      /\ JoinLast(m.q) => JoinLast(Popped.q)
  BY <1>1, PoppedLink DEF LInv
<1>3. Doomed => Doomed'
  BY <1>1, <1>2 DEF Doomed
<1>4. Prepared => Prepared'
  BY <1>1, <1>2 DEF Prepared
<1>5. Answered'
  BY <1>1 DEF Answered, Exchange
<1> QED
  BY <1>1, <1>2, <1>3, <1>4, <1>5 DEF LInv

\* The rest of it: no link is left, and roaming has begun a join or not.
LEMMA DelStaLink ==
  ASSUME IInv, LInv, DelSta
  PROVE  LInv'
<1> DEFINE l == RoamingLeft(m, th.f)
           g == rtw_free_assoc_resources(l)
           t == rtw_indicate_disconnect(g)
           s == [t EXCEPT !.scanned = @ \ {m.cur}]
<1>1. m' \in rtw_roaming(s)
  BY DEF DelSta
<1>2. Shape(m) /\ Clean(m)
  BY DEF IInv, Core, LInv
<1>3. Shape(l) /\ l.q = m.q /\ l.scanned = m.scanned /\ l.fixed = m.fixed
  <2>1. ASSUME NEW k \in Nat
        PROVE  LET z == rtw_set_roaming(m, k)
               IN  Shape(z) /\ z.q = m.q /\ z.scanned = m.scanned /\ z.fixed = m.fixed
    BY <1>2 DEF rtw_set_roaming, Shape, Field
  <2>2. CASE l = rtw_set_roaming(m, 0) \/ l = rtw_set_roaming(m, MaxRoaming)
    BY <2>1, <2>2, MlmeAssumption
  <2>3. CASE m.to_roaming > 0 /\ l = [m EXCEPT !.to_roaming = @ - 1]
    <3>1. PICK k : k = m.to_roaming - 1
      OBVIOUS
    <3>2. k \in Nat /\ l = [m EXCEPT !.to_roaming = k]
      <4>1. m.to_roaming \in Nat
        BY <1>2 DEF Shape
      <4> QED
        BY <2>3, <3>1, <4>1
    <3> QED
      BY <1>2, <3>2 DEF Shape, Field
  <2> QED
    BY <2>2, <2>3 DEF RoamingLeft
<1> HIDE DEF l
<1>4. Shape(g) /\ g.q = l.q /\ g.scanned = l.scanned /\ g.fixed \subseteq l.fixed
  <2>1. Shape(g) /\ g.q = l.q
    BY <1>3, FreeResourcesDoes
  <2>2. g.scanned = l.scanned /\ g.fixed \subseteq l.fixed
    BY <1>3 DEF rtw_free_assoc_resources, Shape, Field
  <2> QED
    BY <2>1, <2>2
<1> HIDE DEF g
<1>5. Shape(t) /\ t.q = g.q /\ ~t.linked /\ ~t.linking /\ t.scanned = g.scanned /\ t.fixed = g.fixed
  <2>1. Shape(t) /\ t.q = g.q /\ ~t.linked /\ ~t.linking
    BY <1>4, DisconnectDoes
  <2>2. t.scanned = g.scanned /\ t.fixed = g.fixed
    BY <1>4 DEF rtw_indicate_disconnect, rtw_reset_securitypriv, Shape, Field
  <2> QED
    BY <2>1, <2>2
<1> HIDE DEF t
<1>6. /\ Shape(s) /\ s.q = t.q /\ ~s.linked /\ ~s.linking /\ s.scanned \subseteq t.scanned
      /\ s.fixed = t.fixed
  BY <1>5 DEF Shape, Field
<1> HIDE DEF s
<1>7. Clean(s) /\ Over(s)
  BY <1>2, <1>3, <1>4, <1>5, <1>6 DEF Clean, Over
<1>8. Clean(m') /\ (Over(m') \/ Begun(m'))
  BY <1>1, <1>6, <1>7, RoamingEnds
<1> QED
  BY <1>8, OverKeeps, BegunKeeps

LEMMA ThreadLink ==
  ASSUME IInv, LInv, Thread
  PROVE  LInv'
<1>0. Shape(m) /\ Clean(m)
  BY DEF IInv, Core, LInv
<1>1. CASE CmdSurvey
  <2>1. /\ Takes("survey") /\ UNCHANGED <<ext, linktimer, lt, rx, th, joinfires>>
        /\ m' = Popped \/ m' = Enqueue(Popped, Cmd("surveydone"))
    BY <1>1 DEF CmdSurvey, Posted
  <2>2. /\ Shape(Popped) /\ Clean(Popped) /\ Popped.linking = m.linking
        /\ Popped.assoc_timer = m.assoc_timer
    BY <1>0, <2>1, PoppedDoes, PoppedLink
  <2>3. Cmd("surveydone") \in Command /\ Cmd("surveydone").c = "surveydone"
    BY CmdTyped
  <2>4. /\ Steady(Popped, m') /\ m'.linking = m.linking /\ m'.assoc_timer = m.assoc_timer
        /\ Clean(m')
    <3>1. CASE m' = Popped
      BY <2>2, <3>1, QueueKeptSelf DEF Steady
    <3>2. CASE m' = Enqueue(Popped, Cmd("surveydone"))
      BY <2>2, <2>3, <3>2, EnqueueSteady
    <3> QED
      BY <2>1, <3>1, <3>2
  <2> QED
    BY <2>1, <2>4, PlainCmdLink
<1>2. CASE CmdSawBss
  <2> DEFINE b == Head(m.q).b
  <2>1. /\ Takes("sawbss") /\ UNCHANGED <<ext, linktimer, lt, rx, th, joinfires>>
        /\ m' = Popped \/ m' = [Popped EXCEPT !.scanned = @ \cup {b}]
    BY <1>2 DEF CmdSawBss, timers
  <2>2. /\ Shape(Popped) /\ Clean(Popped) /\ Popped.linking = m.linking
        /\ Popped.assoc_timer = m.assoc_timer /\ b # NoBss
    BY <1>0, <2>1, PoppedDoes, PoppedLink
  <2> HIDE DEF b
  <2>3. /\ m'.linked = Popped.linked /\ m'.linking = Popped.linking /\ m'.q = Popped.q
        /\ m'.sec_bss = Popped.sec_bss /\ m'.to_roaming = Popped.to_roaming
        /\ m'.assoc_timer = Popped.assoc_timer /\ m'.fixed = Popped.fixed
        /\ m'.scanned \subseteq Popped.scanned \cup {b}
    BY <2>1, <2>2 DEF Shape, Field
  <2>4. Steady(Popped, m') /\ Clean(m')
    BY <2>2, <2>3, QueueKeptSelf DEF Steady, Clean
  <2> QED
    BY <2>1, <2>2, <2>3, <2>4, PlainCmdLink
<1>3. CASE CmdSurveyDone
  <2>1. /\ Takes("surveydone") /\ UNCHANGED <<ext, linktimer, lt, rx, joinfires>>
        /\ m' = [Popped EXCEPT !.survey = FALSE]
    BY <1>3 DEF CmdSurveyDone, timers
  <2>2. /\ Shape(Popped) /\ Clean(Popped) /\ Popped.linking = m.linking
        /\ Popped.assoc_timer = m.assoc_timer /\ th = Idle
    BY <1>0, <2>1, PoppedDoes, PoppedLink
  <2>3. /\ m'.linked = Popped.linked /\ m'.linking = Popped.linking /\ m'.q = Popped.q
        /\ m'.sec_bss = Popped.sec_bss /\ m'.to_roaming = Popped.to_roaming
        /\ m'.assoc_timer = Popped.assoc_timer /\ m'.fixed = Popped.fixed
        /\ m'.scanned = Popped.scanned
    BY <2>1, <2>2 DEF Shape, Field
  <2>4. Steady(Popped, m') /\ Clean(m')
    BY <2>2, <2>3, QueueKeptSelf DEF Steady, Clean
  <2>5. th.at # "del"
    BY <2>2 DEF Idle
  <2> QED
    BY <2>1, <2>2, <2>3, <2>4, <2>5, PlainCmdLink
<1>4. CASE DoneCancels
  <2>1. /\ m' = [m EXCEPT !.scan_timer = FALSE] /\ th.at # "del"
        /\ UNCHANGED <<ext, linktimer, lt, rx, joinfires>>
    BY <1>4 DEF DoneCancels, timers
  <2>2. /\ m'.linked = m.linked /\ m'.linking = m.linking /\ m'.assoc_timer = m.assoc_timer
        /\ m'.q = m.q /\ m'.sec_bss = m.sec_bss /\ m'.to_roaming = m.to_roaming
        /\ m'.scanned = m.scanned /\ m'.fixed = m.fixed
    BY <1>0, <2>1 DEF Shape, Field
  <2>3. Steady(m, m') /\ Clean(m')
    BY <1>0, <2>2, QueueKeptSelf DEF Steady, Clean
  <2> QED
    BY <2>1, <2>2, <2>3, AsideKeeps
<1>5. CASE DoneJoins
  <2>1. th.at # "del" /\ UNCHANGED <<ext, linktimer, lt, rx, joinfires>>
    BY <1>5 DEF DoneJoins, timers
  <2>2. m' \in JoinAfterSurvey(m) \/ m' = m
    BY <1>5 DEF DoneJoins
  <2>3. CASE m' = m
    <3>1. Exchange => Exchange'
      BY <2>1, ExchangeSame
    <3> QED
      BY <2>1, <2>3, <3>1, ExchangeKeeps
  <2>4. CASE m' \in JoinAfterSurvey(m)
    <3>1. m.linked => m.to_roaming = 0
      BY DEF LInv
    <3>2. Clean(m') /\ (Over(m') \/ Begun(m'))
      BY <1>0, <2>4, <3>1, JoinAfterSurveyEnds
    <3> QED
      BY <3>2, OverKeeps, BegunKeeps
  <2> QED
    BY <2>2, <2>3, <2>4
<1>6. CASE CmdJoinRes
  <2>1. /\ Takes("joinres") /\ UNCHANGED <<ext, linktimer, lt, rx, th, joinfires>> /\ m' = Popped
    BY <1>6 DEF CmdJoinRes, timers
  <2>2. Clean(Popped) /\ Popped.linking = m.linking /\ Popped.assoc_timer = m.assoc_timer
    BY <1>0, <2>1, PoppedLink
  <2>3. Steady(Popped, m')
    BY <2>1, QueueKeptSelf DEF Steady
  <2> QED
    BY <2>1, <2>2, <2>3, PlainCmdLink
<1> QED
  BY <1>1, <1>2, <1>3, <1>4, <1>5, <1>6, CmdJoinLink, CmdDiscLink, CmdDelStaLink, DelStaLink
     DEF Thread

LEMMA NextLink ==
  ASSUME ~NoMem, IInv, LInv, [Next]_vars
  PROVE  LInv'
<1>1. ASSUME UNCHANGED vars PROVE LInv'
  <2>1. UNCHANGED <<m, ext, linktimer, lt, rx, th, joinfires>>
    BY <1>1 DEF vars, timers
  <2> QED
    BY <2>1, ExchangeSame, ExchangeKeeps
<1> QED
  BY <1>1, UserLink, ScanStartsLink, AirLink, TaskletLink, LinkTimerHdlLink, TimersLink,
     JoinTimeoutLink, ThreadLink DEF Next

LEMMA InitLink == Init => LInv
<1> SUFFICES ASSUME Init PROVE LInv
  OBVIOUS
<1>1. /\ m.linked = FALSE /\ m.linking = FALSE /\ m.scanned = {} /\ m.fixed = {} /\ m.q = <<>>
  BY DEF Init
<1> QED
  BY <1>1 DEF LInv, Clean, Aired

\* The link the user sees is one the access point knows of: when nothing is
\* under way any more, _FW_LINKED means that pmlmeinfo is associated, however
\* requests, losses, late answers and timeouts have met, for any number of
\* networks.  Memory for commands and events is needed: when
\* report_del_sta_event finds none, pmlmeinfo->state is cleared already and
\* nobody will clear _FW_LINKED.
THEOREM MlmeLinkIsReal ==
  ASSUME ~NoMem
  PROVE  Spec => []LinkIsReal
<1>1. Init => IInv /\ LInv
  BY InitHolds, InitLink
<1>2. IInv /\ LInv /\ [Next]_vars => IInv' /\ LInv'
  BY NextKeeps, NextLink
<1>3. LInv => LinkIsReal
  <2> SUFFICES ASSUME LInv, m.linked, Quiet PROVE Associated
    BY DEF LinkIsReal
  <2>1. m.q = <<>> /\ rx = Idle /\ lt = Idle /\ th = Idle /\ ~m.assoc_timer /\ ~joinfires /\ ~linktimer
    BY DEF Quiet
  <2>2. ~HasCmd(m.q, "delsta") /\ ~JoinLast(m.q)
    BY <2>1 DEF HasCmd, JoinLast
  <2>3. Answered
    BY <2>1 DEF LInv, Doomed
  <2> QED
    BY <2>1, <2>2, <2>3 DEF Answered, Exchange, Idle
<1> QED
  BY <1>1, <1>2, <1>3, PTL DEF Spec
=============================================================================
