------------------------ MODULE AvdtpSession_proofs ------------------------
(***************************************************************************)
(* Proofs about AvdtpSession: for every set of end points, every set of    *)
(* requests and every bound, the session's fields stay in their types and  *)
(* its reference count is exact.                                           *)
(*                                                                         *)
(* A handler is an operator from a session to a set of sessions, so there  *)
(* is one lemma per operator: it takes a counted session to counted ones.  *)
(***************************************************************************)
EXTENDS AvdtpSession, SequenceTheorems, TLAPS

USE SepAssumption, BoundsAssumption

\* The inductive invariant, of a session s.  RefExact alone is not inductive:
\* what fires on a session must not find it freed, so a freed session has no
\* watch and no disconnect timer.
Counted(s) ==
    /\ s \in Session
    /\ s.ref # 0 => s.ref + s.robbed = s.held + 1
    /\ s.ref = 0 => s.held <= s.robbed /\ ~s.io /\ ~s.dc_timer

-----------------------------------------------------------------------------
(* Reference count and disconnect timer.                                   *)

\* Going on with a session (Touch) changes nothing that is counted.
LEMMA TouchCounted ==
    ASSUME NEW s, Counted(s)
    PROVE  Counted(Touch(s)) /\ Touch(s).ref = s.ref /\ Touch(s).held = s.held
BY ZenonT(30) DEF Counted, Touch, Session

\* remove_disconnect_timer() and, on a live session, set_disconnect_timer()
\* keep a session counted.
LEMMA TimerCounted ==
    ASSUME NEW s, Counted(s)
    PROVE  /\ Counted(remove_disconnect_timer(s))
           /\ remove_disconnect_timer(s).ref = s.ref
           /\ s.ref # 0 => Counted(set_disconnect_timer(s))
<1>1. Counted(remove_disconnect_timer(s)) /\ remove_disconnect_timer(s).ref = s.ref
  BY ZenonT(120) DEF Counted, Session, remove_disconnect_timer
<1> DEFINE v == IF s.dc_timer THEN FALSE ELSE s.stream_setup
<1>2. v \in BOOLEAN
  BY Zenon DEF Counted, Session
<1>3. set_disconnect_timer(s)
        = [s EXCEPT !.dc_timer = TRUE, !.stream_setup = v, !.refused = FALSE]
  BY DEF set_disconnect_timer
<1> HIDE DEF v
<1> DEFINE t == set_disconnect_timer(s)
<1>4. s.ref # 0 => Counted(t)
  <2>1. s \in Session
    BY DEF Counted
  <2>2. t = [s EXCEPT !.dc_timer = TRUE, !.stream_setup = v, !.refused = FALSE]
    BY <1>3
  <2> HIDE DEF t
  <2>3. t \in Session
    BY <1>2, <2>1, <2>2, ZenonT(120) DEF Session
  <2>4. t.ref = s.ref /\ t.held = s.held /\ t.robbed = s.robbed
    BY <2>1, <2>2, ZenonT(30) DEF Session
  <2> QED
    BY <2>3, <2>4, Zenon DEF Counted
<1> QED
  BY <1>1, <1>4

\* Freeing a session whose users have all been robbed of their references
\* keeps it counted.
LEMMA FreeCounted ==
    ASSUME NEW s \in Session, s.held <= s.robbed
    PROVE  Counted(FreeSession(s))
<1> DEFINE t == FreeSession(s)
           empty == <<>>
           zero == 0
           v == s.sock /\ ~s.stale
<1>1. empty \in Seq(Request) /\ NoSep \in SEP \cup {NoSep} /\ zero \in 0..(MaxHeld + 1)
  OBVIOUS
<1>2. v \in BOOLEAN
  OBVIOUS
<1> DEFINE a == [s EXCEPT !.ref = zero, !.sock = v, !.stale = FALSE, !.dc_timer = FALSE,
                          !.stream_setup = FALSE, !.io = FALSE]
           b == [a EXCEPT !.req = NoReq, !.timeout = FALSE, !.req_queue = empty,
                          !.prio_queue = empty]
<1>3. t = [b EXCEPT !.pending_open = NoSep, !.seps = FALSE, !.discov_cb = FALSE,
                    !.refused = FALSE]
  BY DEF FreeSession
<1> HIDE DEF empty, zero, t, v
<1>4. a \in Session /\ a.ref = zero /\ a.held = s.held /\ a.robbed = s.robbed
      /\ ~a.io /\ ~a.dc_timer
  <2>1. a \in Session
    BY <1>1, <1>2, ZenonT(30) DEF Session
  <2>2. a.ref = zero /\ a.held = s.held /\ a.robbed = s.robbed /\ ~a.io /\ ~a.dc_timer
    BY ZenonT(30) DEF Session
  <2> QED
    BY <2>1, <2>2
<1> HIDE DEF a
<1>5. b \in Session /\ b.ref = zero /\ b.held = s.held /\ b.robbed = s.robbed
      /\ ~b.io /\ ~b.dc_timer
  <2>1. b \in Session
    BY <1>1, <1>4, ZenonT(30) DEF Session
  <2>2. b.ref = a.ref /\ b.held = a.held /\ b.robbed = a.robbed
        /\ b.io = a.io /\ b.dc_timer = a.dc_timer
    BY <1>4, ZenonT(30) DEF Session
  <2> QED
    BY <1>4, <2>1, <2>2
<1> HIDE DEF b
<1>6. t \in Session
  BY <1>1, <1>3, <1>5, ZenonT(120) DEF Session
<1>7. t.ref = b.ref /\ t.held = b.held /\ t.robbed = b.robbed
      /\ t.io = b.io /\ t.dc_timer = b.dc_timer
  BY <1>3, <1>5, ZenonT(30) DEF Session
<1>8. Counted(t)
  BY <1>5, <1>6, <1>7 DEF Counted, zero
<1> QED
  BY <1>8 DEF t

\* Giving up a connect leaves the count alone.
LEMMA CloseConnectingType ==
    ASSUME NEW s \in Session
    PROVE  /\ CloseConnecting(s) \in Session
           /\ CloseConnecting(s).ref = s.ref
           /\ CloseConnecting(s).held = s.held
           /\ CloseConnecting(s).robbed = s.robbed
<1> DEFINE t == [s EXCEPT !.sock = FALSE, !.stale = FALSE]
<1>1. t \in Session
  BY ZenonT(30) DEF Session
<1>2. t.ref = s.ref /\ t.held = s.held /\ t.robbed = s.robbed
  BY ZenonT(30) DEF Session
<1> HIDE DEF t
<1>3. CloseConnecting(s) = IF s.state = "CONNECTING" THEN t ELSE s
  BY DEF CloseConnecting, t
<1> QED
  BY <1>1, <1>2, <1>3

\* The three numbers of a session are numbers.
LEMMA Numbers ==
    ASSUME NEW s \in Session
    PROVE  s.ref \in 0..(MaxHeld + 1) /\ s.held \in 0..MaxHeld /\ s.robbed \in 0..MaxHeld
BY Zenon DEF Session

\* avdtp_unref() of a session that counts one reference too many, or of one
\* that has none left but its own, makes it counted.
LEMMA UnrefCounted ==
    ASSUME NEW s \in Session, s.ref # 0,
           s.ref + s.robbed = s.held + 2 \/ (s.ref = 1 /\ s.held <= s.robbed)
    PROVE  Counted(avdtp_unref(s))
<1> DEFINE n == s.ref - 1
           d == [s EXCEPT !.ref = n]
           c == IF d.ref = 1 THEN CloseConnecting(d) ELSE d
<1>1. s.ref \in 0..(MaxHeld + 1) /\ s.held \in 0..MaxHeld /\ s.robbed \in 0..MaxHeld
  BY Numbers
<1>2. n \in 0..(MaxHeld + 1)
  BY <1>1
<1>3. avdtp_unref(s) = IF c.ref = 0 THEN FreeSession(c)
                       ELSE IF c.ref > 1 THEN c
                       ELSE IF c.sock THEN set_disconnect_timer(c)
                       ELSE IF c.free_lock THEN c ELSE FreeSession(c)
  BY DEF avdtp_unref
<1>4. d \in Session /\ d.ref = n /\ d.held = s.held /\ d.robbed = s.robbed
  <2> HIDE DEF n
  <2>1. d \in Session
    BY <1>2, ZenonT(30) DEF Session
  <2>2. d.ref = n /\ d.held = s.held /\ d.robbed = s.robbed
    BY ZenonT(30) DEF Session
  <2> QED
    BY <2>1, <2>2
<1> HIDE DEF d
<1>5. c \in Session /\ c.ref = n /\ c.held = s.held /\ c.robbed = s.robbed
  BY <1>4, CloseConnectingType
<1> HIDE DEF c
<1>6. c.ref # 0 => c.ref + c.robbed = c.held + 1
  BY <1>1, <1>5
<1>7. c.ref <= 1 => c.held <= c.robbed
  BY <1>1, <1>5
<1>8. c.ref # 0 => Counted(c)
  BY <1>5, <1>6, Zenon DEF Counted
<1>9. c.ref = 0 \/ c.ref = 1 \/ c.ref > 1
  BY <1>1, <1>5
<1>10. c.ref = 0 \/ c.ref = 1 => Counted(FreeSession(c))
  BY <1>5, <1>7, <1>9, FreeCounted
<1>11. c.ref = 1 => Counted(set_disconnect_timer(c))
  BY <1>8, TimerCounted
<1> HIDE DEF n
<1> QED
  BY <1>3, <1>8, <1>9, <1>10, <1>11

\* The users giving up references keep the session counted.
LEMMA UserUnrefCounted ==
    ASSUME NEW s, Counted(s), NEW h \in 0..(s.held - 1)
    PROVE  Counted(UserUnref(s, h))
<1> DEFINE drop == s.held - h
           user == [s EXCEPT !.held = h]
<1>1. s \in Session
  BY DEF Counted
<1>2. s.ref \in 0..(MaxHeld + 1) /\ s.held \in 0..MaxHeld /\ s.robbed \in 0..MaxHeld
  BY <1>1, Numbers
<1>3. h \in 0..MaxHeld
  BY <1>2
<1>4. user \in Session /\ user.held = h /\ user.ref = s.ref /\ user.robbed = s.robbed
      /\ user.io = s.io /\ user.dc_timer = s.dc_timer
  <2>1. user \in Session
    BY <1>1, <1>3, ZenonT(30) DEF Session
  <2>2. user.held = h /\ user.ref = s.ref /\ user.robbed = s.robbed
        /\ user.io = s.io /\ user.dc_timer = s.dc_timer
    BY <1>1, ZenonT(30) DEF Session
  <2> QED
    BY <2>1, <2>2
<1> DEFINE m == s.ref - (drop - 1)
           last == [user EXCEPT !.ref = m]
           gone == IF s.ref > 1 THEN CloseConnecting(user) ELSE user
<1>5. UserUnref(s, h) = IF s.ref = 0 THEN user
                        ELSE IF s.ref > drop THEN avdtp_unref(last)
                        ELSE FreeSession(gone)
  <2>1. last = [user EXCEPT !.ref = @ - (drop - 1)]
    BY <1>4
  <2> HIDE DEF last
  <2> QED
    BY <2>1 DEF UserUnref
<1> HIDE DEF user
<1>6. CASE s.ref = 0
  <2>1. s.held <= s.robbed /\ ~s.io /\ ~s.dc_timer
    BY <1>6 DEF Counted
  <2>2. user.ref = 0 /\ user.held <= user.robbed
    BY <1>2, <1>4, <1>6, <2>1
  <2>3. Counted(user)
    BY <1>4, <2>1, <2>2, Zenon DEF Counted
  <2> QED
    BY <1>5, <1>6, <2>3
<1>7. CASE s.ref # 0 /\ s.ref > drop
  <2>1. s.ref + s.robbed = s.held + 1
    BY <1>7 DEF Counted
  <2>2. m \in 0..(MaxHeld + 1) /\ m # 0 /\ m + s.robbed = h + 2
    BY <1>2, <1>7, <2>1
  <2> HIDE DEF m
  <2>3. last \in Session /\ last.ref = m /\ last.held = h /\ last.robbed = s.robbed
    <3>1. last \in Session
      BY <1>4, <2>2, ZenonT(30) DEF Session
    <3>2. last.ref = m /\ last.held = user.held /\ last.robbed = user.robbed
      BY <1>4, ZenonT(30) DEF Session
    <3> QED
      BY <1>4, <3>1, <3>2
  <2> HIDE DEF last, drop
  <2>4. Counted(avdtp_unref(last))
    BY <2>2, <2>3, UnrefCounted
  <2> QED
    BY <1>5, <1>7, <2>4
<1>8. CASE s.ref # 0 /\ ~(s.ref > drop)
  <2>1. s.ref + s.robbed = s.held + 1
    BY <1>8 DEF Counted
  <2>2. h <= s.robbed
    BY <1>2, <1>8, <2>1
  <2>3. gone \in Session /\ gone.held = h /\ gone.robbed = s.robbed
    BY <1>4, CloseConnectingType
  <2> HIDE DEF gone, drop
  <2>4. Counted(FreeSession(gone))
    BY <2>2, <2>3, FreeCounted
  <2> QED
    BY <1>5, <1>8, <2>4
<1> QED
  BY <1>6, <1>7, <1>8

\* A callback, in which the users may drop references, keeps it counted.
LEMMA CallbackCounted ==
    ASSUME NEW s, Counted(s), NEW t \in Callback(s)
    PROVE  Counted(t)
BY UserUnrefCounted DEF Callback

\* A user taking a reference on a live session keeps it counted.
LEMMA RefCounted ==
    ASSUME NEW s, Counted(s), s.ref # 0, s.held < MaxHeld
    PROVE  Counted(avdtp_ref(s)) /\ avdtp_ref(s).ref # 0
<1> DEFINE t == [s EXCEPT !.ref = s.ref + 1, !.held = s.held + 1, !.refused = FALSE]
<1>0. s \in Session /\ s.ref + s.robbed = s.held + 1
  BY DEF Counted
<1>1. s.ref \in 0..(MaxHeld + 1) /\ s.held \in 0..MaxHeld /\ s.robbed \in 0..MaxHeld
  BY <1>0, Numbers
<1>2. s.held + 1 \in 0..MaxHeld /\ s.ref + 1 \in 0..(MaxHeld + 1)
      /\ (s.ref + 1) + s.robbed = (s.held + 1) + 1 /\ s.ref + 1 # 0
  BY <1>0, <1>1
<1>3. Counted(t) /\ t.ref # 0
  BY <1>0, <1>2, ZenonT(120) DEF Counted, Session
<1> HIDE DEF t
<1>4. avdtp_ref(s) = IF t.dc_timer THEN remove_disconnect_timer(t) ELSE t
  BY DEF avdtp_ref, t
<1> QED
  BY <1>3, <1>4, TimerCounted

\* The same for a user that may or may not take one.
LEMMA UserRefCounted ==
    ASSUME NEW s, Counted(s), s.ref # 0, NEW t \in UserRef(s)
    PROVE  Counted(t) /\ t.ref # 0
BY RefCounted DEF UserRef

-----------------------------------------------------------------------------
(* Streams and the loss of the connection.                                 *)

\* Changing a field that is neither the count nor a socket, watch or timer
\* keeps the session counted.
LEMMA SetField ==
    ASSUME NEW s, Counted(s)
    PROVE  /\ \A v \in BOOLEAN :
              /\ Counted([s EXCEPT !.free_lock = v])
              /\ Counted([s EXCEPT !.seps = v])
              /\ Counted([s EXCEPT !.discov_cb = v])
              /\ Counted([s EXCEPT !.stream_setup = v])
              /\ Counted([s EXCEPT !.refused = v])
              /\ Counted([s EXCEPT !.uaf = v])
           /\ \A v \in SessionState :
              /\ Counted([s EXCEPT !.state = v])
           /\ \A v \in SUBSET SEP :
              /\ Counted([s EXCEPT !.streams = v])
           /\ \A v \in Request \cup {NoReq} :
              /\ Counted([s EXCEPT !.req = v])
           /\ \A v \in Seq(Request) :
              /\ Counted([s EXCEPT !.req_queue = v])
              /\ Counted([s EXCEPT !.prio_queue = v])
           /\ \A v \in SEP \cup {NoSep} :
              /\ Counted([s EXCEPT !.pending_open = v])
           /\ \A v \in Nat :
              /\ Counted([s EXCEPT !.connects = v])
              /\ Counted([s EXCEPT !.auth = v])
           /\ \A v \in {"no", "assert", "null"} :
              /\ Counted([s EXCEPT !.halted = v])
<1>1. \A v \in BOOLEAN : Counted([s EXCEPT !.free_lock = v])
  BY ZenonT(120) DEF Counted, Session
<1>2. \A v \in BOOLEAN : Counted([s EXCEPT !.seps = v])
  BY ZenonT(120) DEF Counted, Session
<1>3. \A v \in BOOLEAN : Counted([s EXCEPT !.discov_cb = v])
  BY ZenonT(120) DEF Counted, Session
<1>4. \A v \in BOOLEAN : Counted([s EXCEPT !.stream_setup = v])
  BY ZenonT(120) DEF Counted, Session
<1>5. \A v \in BOOLEAN : Counted([s EXCEPT !.refused = v])
  BY ZenonT(120) DEF Counted, Session
<1>6. \A v \in Nat : Counted([s EXCEPT !.auth = v])
  BY ZenonT(30) DEF Counted, Session
<1>7. \A v \in BOOLEAN : Counted([s EXCEPT !.uaf = v])
  BY ZenonT(120) DEF Counted, Session
<1>8. \A v \in SessionState : Counted([s EXCEPT !.state = v])
  BY ZenonT(30) DEF Counted, Session
<1>9. \A v \in SUBSET SEP : Counted([s EXCEPT !.streams = v])
  BY ZenonT(30) DEF Counted, Session
<1>10. \A v \in Request \cup {NoReq} : Counted([s EXCEPT !.req = v])
  BY ZenonT(30) DEF Counted, Session
<1>11. \A v \in Seq(Request) : Counted([s EXCEPT !.req_queue = v])
  BY ZenonT(30) DEF Counted, Session
<1>12. \A v \in Seq(Request) : Counted([s EXCEPT !.prio_queue = v])
  BY ZenonT(30) DEF Counted, Session
<1>13. \A v \in SEP \cup {NoSep} : Counted([s EXCEPT !.pending_open = v])
  BY ZenonT(30) DEF Counted, Session
<1>14. \A v \in Nat : Counted([s EXCEPT !.connects = v])
  BY ZenonT(30) DEF Counted, Session
<1>15. \A v \in {"no", "assert", "null"} : Counted([s EXCEPT !.halted = v])
  BY ZenonT(30) DEF Counted, Session
<1> QED
  BY <1>1, <1>2, <1>3, <1>4, <1>5, <1>6, <1>7, <1>8, <1>9, <1>10, <1>11, <1>12, <1>13, <1>14, <1>15, Zenon

\* So does closing the signalling socket.
LEMMA DownCounted ==
    ASSUME NEW s, Counted(s)
    PROVE  Counted([s EXCEPT !.free_lock = FALSE, !.sock = FALSE, !.stale = FALSE,
                             !.state = "DISCONNECTED", !.io = FALSE])
<1> DEFINE disconnected == "DISCONNECTED"
<1>1. disconnected \in SessionState
  BY DEF SessionState
<1> HIDE DEF disconnected
<1>2. Counted([s EXCEPT !.free_lock = FALSE, !.sock = FALSE, !.stale = FALSE,
                        !.state = disconnected, !.io = FALSE])
  BY <1>1, ZenonT(120) DEF Counted, Session
<1> QED
  BY <1>2 DEF disconnected

\* Changing one end point keeps the session counted.
LEMMA SetSep ==
    ASSUME NEW s, Counted(s), NEW p \in SEP
    PROVE  /\ s.sep[p] \in LocalSep
           /\ \A e \in LocalSep : Counted([s EXCEPT !.sep[p] = e])
<1>1. s.sep \in [SEP -> LocalSep]
  BY DEF Counted, Session
<1>2. \A f \in [SEP -> LocalSep] : Counted([s EXCEPT !.sep = f])
  BY ZenonT(30) DEF Counted, Session
<1>3. ASSUME NEW e \in LocalSep
      PROVE  Counted([s EXCEPT !.sep[p] = e])
  <2> DEFINE f == [s.sep EXCEPT ![p] = e]
  <2>1. f \in [SEP -> LocalSep]
    BY <1>1
  <2>2. [s EXCEPT !.sep[p] = e] = [s EXCEPT !.sep = f]
    OBVIOUS
  <2> HIDE DEF f
  <2> QED
    BY <2>1, <2>2, <1>2
<1> QED
  BY <1>1, <1>3

\* So does changing a field of one end point.
LEMMA SetSepField ==
    ASSUME NEW s, Counted(s), NEW p \in SEP
    PROVE  /\ \A v \in SepState : Counted([s EXCEPT !.sep[p].state = v])
           /\ \A v \in BOOLEAN : /\ Counted([s EXCEPT !.sep[p].sock = v])
                                 /\ Counted([s EXCEPT !.sep[p].io = v])
                                 /\ Counted([s EXCEPT !.sep[p].idle_timer = v])
                                 /\ Counted([s EXCEPT !.sep[p].close_int = v])
           /\ \A v \in {"none", "open", "close"} : Counted([s EXCEPT !.sep[p].timer = v])
           /\ Counted([s EXCEPT !.sep[p] = stream_free(@)])
<1>1. s.sep[p] \in LocalSep
  BY SetSep
<1>2. /\ \A v \in SepState : [s.sep[p] EXCEPT !.state = v] \in LocalSep
      /\ \A v \in BOOLEAN : /\ [s.sep[p] EXCEPT !.sock = v] \in LocalSep
                            /\ [s.sep[p] EXCEPT !.io = v] \in LocalSep
                            /\ [s.sep[p] EXCEPT !.idle_timer = v] \in LocalSep
                            /\ [s.sep[p] EXCEPT !.close_int = v] \in LocalSep
      /\ \A v \in {"none", "open", "close"} : [s.sep[p] EXCEPT !.timer = v] \in LocalSep
  BY <1>1 DEF LocalSep
<1>3. stream_free(s.sep[p]) \in LocalSep
  BY <1>1, Zenon DEF stream_free, IdleSep, LocalSep, SepState
<1> QED
  BY <1>2, <1>3, SetSep, Zenon

\* Releasing streams keeps the session counted.
LEMMA ReleaseCounted ==
    ASSUME NEW s, Counted(s), NEW S \in SUBSET SEP
    PROVE  Counted(ReleaseStreams(s, S))
<1> DEFINE st == s.streams \ S
           f == [p \in SEP |-> IF p \in S THEN stream_free([s.sep[p] EXCEPT !.idle_timer = FALSE])
                               ELSE s.sep[p]]
           po == IF s.pending_open \in S THEN NoSep ELSE s.pending_open
           r == ClearReq(s.req, S)
           q1 == Dangle(s.req_queue, S)
           q2 == Dangle(s.prio_queue, S)
           t == [s EXCEPT !.streams = st, !.sep = f, !.pending_open = po, !.req = r,
                          !.req_queue = q1, !.prio_queue = q2]
<1>1. st \in SUBSET SEP /\ po \in SEP \cup {NoSep}
  BY DEF Counted, Session
<1>2. f \in [SEP -> LocalSep]
  <2>1. s.sep \in [SEP -> LocalSep]
    BY DEF Counted, Session
  <2>2. \A e \in LocalSep : stream_free([e EXCEPT !.idle_timer = FALSE]) \in LocalSep
    BY ZenonT(30) DEF stream_free, IdleSep, LocalSep, SepState
  <2> QED
    BY <2>1, <2>2
<1>3. r \in Request \cup {NoReq}
  <2>1. s.req \in Request \cup {NoReq}
    BY DEF Counted, Session
  <2>2. \A x \in Request : [x EXCEPT !.ptr = "null"] \in Request
    BY DEF Request
  <2>3. ClearReq(NoReq, S) = NoReq
    BY DEF ClearReq, NoReq
  <2> QED
    BY <2>1, <2>2, <2>3 DEF ClearReq
<1>4. ASSUME NEW q \in Seq(Request)
      PROVE  Dangle(q, S) \in Seq(Request)
  <2>1. \A i \in 1..Len(q) : q[i] \in Request
    OBVIOUS
  <2>2. \A x \in Request : [x EXCEPT !.ptr = "dangling"] \in Request
    BY DEF Request
  <2> QED
    BY <2>1, <2>2 DEF Dangle
<1>5. q1 \in Seq(Request) /\ q2 \in Seq(Request)
  BY <1>4 DEF Counted, Session
<1>6. ReleaseStreams(s, S)
        = IF t.ref = 1 /\ t.streams = {} THEN set_disconnect_timer(t) ELSE t
  BY DEF ReleaseStreams
<1> HIDE DEF st, f, po, r, q1, q2
<1>7. Counted(t)
  BY <1>1, <1>2, <1>3, <1>5, ZenonT(120) DEF Counted, Session
<1> HIDE DEF t
<1> QED
  BY <1>6, <1>7, TimerCounted

\* avdtp_sep_set_state() keeps the session counted.
LEMMA SetStateCounted ==
    ASSUME NEW s, Counted(s), NEW p \in SEP, NEW st \in SepState,
           NEW t \in avdtp_sep_set_state(s, p, st)
    PROVE  Counted(t)
<1> DEFINE a == [s EXCEPT !.sep[p].state = st]
<1>1. Counted(a)
  BY SetSepField, Zenon
<1>2. PICK u : u \in Callback(a) \cup {a} /\ t = StateEntered(Touch(u), p, st)
  BY DEF avdtp_sep_set_state
<1>3. Counted(Touch(u))
  BY <1>1, <1>2, CallbackCounted, TouchCounted
<1>4. Counted([Touch(u) EXCEPT !.sep[p].idle_timer = FALSE])
  BY <1>3, SetSepField, Zenon
<1>5. Counted(ReleaseStreams(Touch(u), {p}))
  BY <1>3, ReleaseCounted
<1> QED
  BY <1>2, <1>3, <1>4, <1>5 DEF StateEntered

\* So does the end of a discovery.
LEMMA FinalizeCounted ==
    ASSUME NEW s, Counted(s), NEW t \in finalize_discovery(s)
    PROVE  Counted(t)
BY SetField, CallbackCounted, TouchCounted, Zenon DEF finalize_discovery

\* And the loss of the connection, which may free the session.
LEMMA LostCounted ==
    ASSUME NEW s, Counted(s), NEW t \in connection_lost(s)
    PROVE  Counted(t)
<1> DEFINE locked == [s EXCEPT !.free_lock = TRUE]
           down(x) == [Touch(x) EXCEPT !.free_lock = FALSE, !.sock = FALSE, !.stale = FALSE,
                                       !.state = "DISCONNECTED", !.io = FALSE]
<1>1. Counted(locked)
  BY Zenon DEF Counted, Session
<1>2. ASSUME NEW x, Counted(x), NEW y \in ReleaseAll(x)
      PROVE  Counted(y)
  <2>1. PICK u \in Callback(x) :
          y = ReleaseStreams([Touch(u) EXCEPT
                !.sep = [p \in SEP |-> IF p \in u.streams
                                       THEN [u.sep[p] EXCEPT !.state = "IDLE"]
                                       ELSE u.sep[p]]], u.streams)
    BY Zenon DEF ReleaseAll
  <2> DEFINE f == [p \in SEP |-> IF p \in u.streams
                                 THEN [u.sep[p] EXCEPT !.state = "IDLE"]
                                 ELSE u.sep[p]]
  <2>2. Counted(u) /\ Counted(Touch(u))
    BY <1>2, CallbackCounted, TouchCounted
  <2>3. f \in [SEP -> LocalSep]
    <3>1. u.sep \in [SEP -> LocalSep]
      BY <2>2 DEF Counted, Session
    <3>2. \A e \in LocalSep : [e EXCEPT !.state = "IDLE"] \in LocalSep
      BY DEF LocalSep, SepState
    <3> QED
      BY <3>1, <3>2
  <2>4. u.streams \in SUBSET SEP
    BY <2>2 DEF Counted, Session
  <2> HIDE DEF f
  <2>5. Counted([Touch(u) EXCEPT !.sep = f])
    BY <2>2, <2>3, ZenonT(120) DEF Counted, Session
  <2> QED
    BY <2>1, <2>4, <2>5, ReleaseCounted DEF f
<1>3. PICK x : Counted(x) /\ t = IF x.ref # 1 THEN down(x) ELSE avdtp_unref(down(x))
  BY <1>1, <1>2, FinalizeCounted, Zenon DEF connection_lost
<1>5. Counted(down(x))
  BY <1>3, DownCounted, TouchCounted, Zenon
<1>6. CASE x.ref # 1
  BY <1>3, <1>5, <1>6
<1>7. CASE x.ref = 1
  <2> DEFINE d == down(x)
  <2>1. Counted(d)
    BY <1>5
  <2>2. d.ref = 1
    BY <1>3, <1>7, TouchCounted, ZenonT(120) DEF Counted, Session
  <2> HIDE DEF d
  <2>3. d \in Session /\ d.ref + d.robbed = d.held + 1
    BY <2>1, <2>2 DEF Counted
  <2>4. d.held \in 0..MaxHeld /\ d.robbed \in 0..MaxHeld
    BY <2>3, Numbers
  <2>5. d.held <= d.robbed
    BY <2>2, <2>3, <2>4
  <2>6. Counted(avdtp_unref(d))
    BY <2>2, <2>3, <2>5, UnrefCounted
  <2> QED
    BY <1>3, <1>7, <2>6 DEF d
<1> QED
  BY <1>6, <1>7

-----------------------------------------------------------------------------
(* Requests.                                                               *)

\* A new request is well formed.
LEMMA NewReqType ==
    ASSUME NEW sig \in Signal, NEW p \in SEP \cup {NoSep}
    PROVE  NewReq(sig, p) \in Request
BY DEF NewReq, Request

\* Queueing a request keeps the session counted.
LEMMA QueueCounted ==
    ASSUME NEW s, Counted(s), NEW priority, NEW r \in Request
    PROVE  Counted(queue_request(s, priority, r))
<1> DEFINE q1 == Append(s.req_queue, r)
           q2 == Append(s.prio_queue, r)
<1>1. s.req_queue \in Seq(Request) /\ s.prio_queue \in Seq(Request)
  BY DEF Counted, Session
<1>2. q1 \in Seq(Request) /\ q2 \in Seq(Request)
  BY <1>1
<1>3. queue_request(s, priority, r) = IF priority THEN [s EXCEPT !.prio_queue = q2]
                                                  ELSE [s EXCEPT !.req_queue = q1]
  BY DEF queue_request
<1> HIDE DEF q1, q2
<1>4. Counted([s EXCEPT !.prio_queue = q2])
  BY <1>2, SetField, Zenon
<1>5. Counted([s EXCEPT !.req_queue = q1])
  BY <1>2, SetField, Zenon
<1> QED
  BY <1>3, <1>4, <1>5

\* So does one more connect or authorization in flight, or one less.
LEMMA ConnectsCounted ==
    ASSUME NEW s, Counted(s)
    PROVE  /\ Counted([s EXCEPT !.connects = @ + 1])
           /\ s.connects > 0 => Counted([s EXCEPT !.connects = @ - 1])
           /\ Counted([s EXCEPT !.auth = @ + 1])
           /\ s.auth > 0 => Counted([s EXCEPT !.auth = @ - 1])
<1>1. s.connects \in Nat /\ s.auth \in Nat
  BY DEF Counted, Session
<1>2. s.connects + 1 \in Nat /\ (s.connects > 0 => s.connects - 1 \in Nat)
      /\ s.auth + 1 \in Nat /\ (s.auth > 0 => s.auth - 1 \in Nat)
  BY <1>1
<1> QED
  BY <1>2, SetField, Zenon

\* Sending a request, or queueing it behind a connect, keeps it counted.
LEMMA SendCounted ==
    ASSUME NEW s, Counted(s), NEW priority, NEW r \in Request,
           NEW x \in send_req(s, priority, r)
    PROVE  Counted(x.s)
<1>1. Counted(queue_request([s EXCEPT !.connects = @ + 1], priority, r))
  BY ConnectsCounted, QueueCounted, Zenon
<1>2. Counted(queue_request(s, priority, r))
  BY QueueCounted
<1>3. Counted([s EXCEPT !.req = r, !.timeout = TRUE])
  BY ZenonT(30) DEF Counted, Session
<1> QED
  BY <1>1, <1>2, <1>3 DEF send_req

\* Sending the next queued request keeps the session counted.
LEMMA ProcessCounted ==
    ASSUME NEW s, Counted(s), NEW t \in process_queue(s)
    PROVE  Counted(t)
<1> DEFINE q1 == Tail(s.req_queue)
           q2 == Tail(s.prio_queue)
<1>1. s.req_queue \in Seq(Request) /\ s.prio_queue \in Seq(Request)
  BY DEF Counted, Session
<1>2. CASE s.prio_queue # <<>> /\ t # s
  <2>1. q2 \in Seq(Request) /\ Head(s.prio_queue) \in Request
    BY <1>1, <1>2
  <2>2. \E x \in send_req([s EXCEPT !.prio_queue = q2], FALSE, Head(s.prio_queue)) : t = x.s
    BY <1>2, Zenon DEF process_queue
  <2> HIDE DEF q2
  <2>3. Counted([s EXCEPT !.prio_queue = q2])
    BY <2>1, SetField, Zenon
  <2> QED
    BY <2>1, <2>2, <2>3, SendCounted, ZenonT(30)
<1>3. CASE s.prio_queue = <<>> /\ t # s
  <2>1. s.req_queue # <<>>
    BY <1>3, Zenon DEF process_queue
  <2>2. q1 \in Seq(Request) /\ Head(s.req_queue) \in Request
    BY <1>1, <2>1
  <2>3. \E x \in send_req([s EXCEPT !.req_queue = q1], FALSE, Head(s.req_queue)) : t = x.s
    BY <1>3, Zenon DEF process_queue
  <2> HIDE DEF q1
  <2>4. Counted([s EXCEPT !.req_queue = q1])
    BY <2>2, SetField, Zenon
  <2> QED
    BY <2>2, <2>3, <2>4, SendCounted, ZenonT(30)
<1> QED
  BY <1>2, <1>3

-----------------------------------------------------------------------------
(* The API.                                                                *)

\* A request on a stream keeps the session counted.
LEMMA StreamRequestCounted ==
    ASSUME NEW s, Counted(s), NEW p \in SEP, NEW sig \in Signal, NEW from,
           NEW x \in StreamRequest(s, p, sig, from)
    PROVE  Counted(x.s)
<1>1. NewReq(sig, p) \in Request
  BY NewReqType
<1> QED
  <2>1. x \in send_req(s, FALSE, NewReq(sig, p)) \/ x = [s |-> s, ok |-> FALSE]
    BY Zenon DEF StreamRequest
  <2>2. CASE x = [s |-> s, ok |-> FALSE]
    BY <2>2
  <2> QED
    BY <1>1, <2>1, <2>2, SendCounted, Zenon

\* So do the operations of the API on a stream.
LEMMA ApiCounted ==
    ASSUME NEW s, Counted(s), NEW p \in SEP,
           NEW t \in avdtp_open(s, p) \cup avdtp_start(s, p) \cup avdtp_reconfigure(s, p)
                     \cup avdtp_suspend(s, p) \cup avdtp_close(s, p) \cup avdtp_abort(s, p)
                     \cup avdtp_get_configuration(s, p)
    PROVE  Counted(t)
<1> USE DEF Signal, StreamSignal
<1>1. CASE t \in avdtp_open(s, p)
  BY <1>1, StreamRequestCounted DEF avdtp_open
<1>2. CASE t \in avdtp_start(s, p)
  BY <1>2, StreamRequestCounted DEF avdtp_start
<1>3. CASE t \in avdtp_reconfigure(s, p)
  BY <1>3, StreamRequestCounted DEF avdtp_reconfigure
<1>4. CASE t \in avdtp_suspend(s, p)
  BY <1>4, StreamRequestCounted DEF avdtp_suspend
<1>5. CASE t \in avdtp_close(s, p)
  <2>1. PICK x : Counted(x.s) /\ t \in {x.s, [x.s EXCEPT !.sep[p].close_int = TRUE]}
    BY <1>5, StreamRequestCounted DEF avdtp_close
  <2>2. Counted([x.s EXCEPT !.sep[p].close_int = TRUE])
    BY <2>1, SetSepField, Zenon
  <2> QED
    BY <2>1, <2>2, Zenon
<1>6. CASE t \in avdtp_abort(s, p)
  <2>1. PICK x : Counted(x.s) /\ t \in {x.s} \cup avdtp_sep_set_state(x.s, p, "ABORTING")
    BY <1>6, StreamRequestCounted DEF avdtp_abort
  <2> QED
    BY <2>1, SetStateCounted DEF SepState
<1>7. CASE t \in avdtp_get_configuration(s, p)
  <2>1. NewReq("GETCONF", p) \in Request
    BY NewReqType
  <2> QED
    BY <1>7, <2>1, SendCounted, ZenonT(30) DEF avdtp_get_configuration
<1> QED
  BY <1>1, <1>2, <1>3, <1>4, <1>5, <1>6, <1>7

\* Configuring a stream lists it and keeps the session counted.
LEMMA SetConfCounted ==
    ASSUME NEW s, Counted(s), NEW p \in SEP, NEW t \in avdtp_set_configuration(s, p)
    PROVE  Counted(t)
<1>1. ASSUME NEW u, Counted(u)
      PROVE  Counted([u EXCEPT !.sep[p].inuse = TRUE, !.sep[p].stream = TRUE,
                               !.streams = @ \cup {p}])
  <2> DEFINE e == [u.sep[p] EXCEPT !.inuse = TRUE, !.stream = TRUE]
             v == [u EXCEPT !.sep[p] = e]
             st == u.streams \cup {p}
  <2>1. e \in LocalSep
    <3>1. u.sep[p] \in LocalSep
      BY <1>1, SetSep
    <3> QED
      BY <3>1, Zenon DEF LocalSep
  <2>2. st \in SUBSET SEP
    BY <1>1 DEF Counted, Session
  <2>3. Counted([v EXCEPT !.streams = st])
    <3> HIDE DEF e, st
    <3>1. Counted(v)
      BY <1>1, <2>1, SetSep
    <3> HIDE DEF v
    <3> QED
      BY <2>2, <3>1, SetField, Zenon
  <2>4. [u EXCEPT !.sep[p].inuse = TRUE, !.sep[p].stream = TRUE, !.streams = @ \cup {p}]
          = [v EXCEPT !.streams = st]
    BY <1>1, ZenonT(120) DEF Counted, Session
  <2> QED
    BY <2>3, <2>4
<1>2. NewReq("SETCONF", p) \in Request
  BY NewReqType DEF Signal, StreamSignal
<1> QED
  <2>1. CASE s.state # "CONNECTED"
    BY <2>1 DEF avdtp_set_configuration
  <2>2. CASE s.state = "CONNECTED"
    <3>1. PICK x \in send_req(s, FALSE, NewReq("SETCONF", p)) :
            t \in {[x.s EXCEPT !.sep[p].inuse = TRUE, !.sep[p].stream = TRUE,
                              !.streams = @ \cup {p}],
                  [x.s EXCEPT !.sep[p] = stream_free(@)]}
      BY <2>2, Zenon DEF avdtp_set_configuration
    <3>2. Counted(x.s)
      BY <1>2, SendCounted, Zenon
    <3>3. Counted([x.s EXCEPT !.sep[p] = stream_free(@)])
      BY <3>2, SetSepField, Zenon
    <3> QED
      BY <1>1, <3>1, <3>2, <3>3, Zenon
  <2> QED
    BY <2>1, <2>2

\* So does the discovery callback of a live session.
LEMMA DiscoveryCallbackCounted ==
    ASSUME NEW s, Counted(s), s.ref # 0, NEW t \in DiscoveryCallback(s)
    PROVE  Counted(t)
BY CallbackCounted, UserRefCounted, SetConfCounted
   DEF DiscoveryCallback, Asks, Configurable

\* And starting a discovery.
LEMMA DiscoverCounted ==
    ASSUME NEW s, Counted(s), s.ref # 0, NEW t \in avdtp_discover(s)
    PROVE  Counted(t)
<1>1. NewReq("DISCOVER", NoSep) \in Request
  BY NewReqType DEF Signal
<1> QED
  <2>1. CASE s.discov_cb \/ s.seps
    BY <2>1, DiscoveryCallbackCounted, Zenon DEF avdtp_discover
  <2>2. CASE ~(s.discov_cb \/ s.seps)
    <3>1. PICK x \in send_req(s, FALSE, NewReq("DISCOVER", NoSep)) :
            t \in {x.s, [x.s EXCEPT !.discov_cb = TRUE]}
      BY <2>2, Zenon DEF avdtp_discover
    <3>2. Counted(x.s)
      BY <1>1, SendCounted, Zenon
    <3>3. Counted([x.s EXCEPT !.discov_cb = TRUE])
      BY <3>2, SetField, Zenon
    <3> QED
      BY <3>1, <3>2, <3>3, Zenon
  <2> QED
    BY <2>1, <2>2

-----------------------------------------------------------------------------
(* Transport and signalling connections.                                   *)

\* A transport connection keeps the session counted.
LEMMA TransportConnectCounted ==
    ASSUME NEW s, Counted(s), NEW t \in handle_transport_connect(s)
    PROVE  Counted(t)
<1> DEFINE p == s.pending_open
           a == [s EXCEPT !.pending_open = NoSep, !.sep[p].timer = "none",
                          !.sep[p].sock = TRUE]
<1>1. CASE p \notin s.streams
  <2>1. t = [s EXCEPT !.pending_open = NoSep]
    BY <1>1 DEF handle_transport_connect
  <2> QED
    BY <2>1, SetField, Zenon
<1>2. CASE p \in s.streams
  <2>1. p \in SEP
    BY <1>2 DEF Counted, Session
  <2>2. Counted(a)
    <3> DEFINE b == [s EXCEPT !.pending_open = NoSep]
               c == [b EXCEPT !.sep[p].timer = "none"]
    <3>1. Counted(b)
      BY SetField, Zenon
    <3>2. Counted(c)
      BY <2>1, <3>1, SetSepField, ZenonT(30)
    <3>3. Counted([c EXCEPT !.sep[p].sock = TRUE])
      BY <2>1, <3>2, SetSepField, ZenonT(30)
    <3> QED
      BY <3>3
  <2> DEFINE cfm == IF a.sep[p].open_acp THEN {a}
                    ELSE Callback(a) \cup Asks(a, avdtp_close(a, p))
  <2>3. t \in {[u EXCEPT !.sep[p].io = TRUE] :
                u \in UNION {avdtp_sep_set_state(Touch(v), p, "OPEN") : v \in cfm}}
    BY <1>2, Zenon DEF handle_transport_connect
  <2> HIDE DEF a, p
  <2>4. PICK v \in cfm : \E u \in avdtp_sep_set_state(Touch(v), p, "OPEN") :
                            t = [u EXCEPT !.sep[p].io = TRUE]
    <3> HIDE DEF cfm
    <3> QED
      BY <2>3
  <2>8. v = a \/ v \in Callback(a) \/ v \in avdtp_close(a, p)
    BY DEF Asks
  <2>9. Counted(v)
    BY <2>1, <2>2, <2>8, CallbackCounted, ApiCounted
  <2>5. PICK u \in avdtp_sep_set_state(Touch(v), p, "OPEN") :
             t = [u EXCEPT !.sep[p].io = TRUE]
    BY <2>4, Zenon
  <2>6. Counted(Touch(v))
    BY <2>9, TouchCounted
  <2>7. Counted(u)
    BY <2>1, <2>6, SetStateCounted DEF SepState
  <2> QED
    BY <2>1, <2>5, <2>7, SetSepField, Zenon
<1> QED
  BY <1>1, <1>2

\* So does the end of an outgoing connect on a live session.
LEMMA ConnectCounted ==
    ASSUME NEW s, Counted(s), s.ref # 0, s.connects > 0, NEW outcome,
           NEW t \in l2cap_connect_cb(s, outcome)
    PROVE  Counted(t)
<1> DEFINE done == [s EXCEPT !.connects = @ - 1]
           up == IF done.state = "DISCONNECTED"
                 THEN [done EXCEPT !.sock = TRUE, !.stale = FALSE, !.state = "CONNECTING"]
                 ELSE done
           failed(x) ==
               IF x.pending_open # NoSep
               THEN {[Touch(u) EXCEPT !.pending_open = NoSep] :
                        u \in avdtp_sep_set_state(x, x.pending_open, "IDLE")}
               ELSE connection_lost(x)
           ready == [up EXCEPT !.state = "CONNECTED", !.io = TRUE]
<1>1. Counted(done) /\ done.ref # 0
  <2>1. Counted(done)
    BY ConnectsCounted, Zenon
  <2>2. done.ref = s.ref
    BY DEF Counted, Session
  <2> QED
    BY <2>1, <2>2
<1> HIDE DEF done
<1>2. Counted(up) /\ up.ref # 0
  <2> DEFINE w == [done EXCEPT !.sock = TRUE, !.stale = FALSE, !.state = "CONNECTING"]
  <2>1. Counted(w) /\ w.ref # 0
    BY <1>1, ZenonT(120) DEF Counted, Session, SessionState
  <2> QED
    BY <1>1, <2>1
<1> HIDE DEF up
<1>3. Counted(ready)
  BY <1>2, ZenonT(30) DEF Counted, Session, SessionState
<1> HIDE DEF ready
<1>4. ASSUME NEW x, Counted(x), NEW y \in failed(x)
      PROVE  Counted(y)
  <2>1. CASE x.pending_open = NoSep
    BY <1>4, <2>1, LostCounted
  <2>2. CASE x.pending_open # NoSep
    <3>1. x.pending_open \in SEP
      BY <1>4, <2>2 DEF Counted, Session
    <3>2. PICK u \in avdtp_sep_set_state(x, x.pending_open, "IDLE") :
            y = [Touch(u) EXCEPT !.pending_open = NoSep]
      BY <1>4, <2>2
    <3>3. Counted(Touch(u))
      BY <1>4, <3>1, SetStateCounted, TouchCounted DEF SepState
    <3> QED
      BY <3>2, <3>3, SetField, Zenon
  <2> QED
    BY <2>1, <2>2
<1>5. \/ t \in failed(done) \/ t \in failed(up)
      \/ t \in process_queue(ready)
      \/ \E u \in handle_transport_connect(up) : t \in process_queue(Touch(u))
  BY DEF l2cap_connect_cb, done, up, ready
<1>6. ASSUME NEW u \in handle_transport_connect(up), t \in process_queue(Touch(u))
      PROVE  Counted(t)
  BY <1>2, <1>6, TransportConnectCounted, TouchCounted, ProcessCounted
<1> HIDE DEF failed
<1> QED
  BY <1>1, <1>2, <1>3, <1>4, <1>5, <1>6, ProcessCounted

\* So does the answer to an authorization.
LEMMA AuthCounted ==
    ASSUME NEW s, Counted(s), s.ref # 0, s.auth > 0, NEW granted, NEW t \in auth_cb(s, granted)
    PROVE  Counted(t)
<1> DEFINE n == s.auth - 1
           a == [s EXCEPT !.auth = n, !.stream_setup = TRUE]
           b == set_disconnect_timer(a)
<1>1. Counted([s EXCEPT !.auth = n]) /\ n \in Nat
  <2>1. s.auth \in Nat
    BY DEF Counted, Session
  <2>2. n \in Nat
    BY <2>1
  <2> HIDE DEF n
  <2> QED
    BY <2>2, SetField, Zenon
<1>5. t \in connection_lost([s EXCEPT !.auth = n])
      \/ t = [b EXCEPT !.state = "CONNECTED", !.io = TRUE]
  BY DEF auth_cb
<1> HIDE DEF n
<1>2. Counted(a) /\ a.ref # 0
  BY <1>1, ZenonT(120) DEF Counted, Session
<1>3. Counted(b) /\ b.ref = a.ref
  <2>1. Counted(b)
    BY <1>2, TimerCounted, Zenon
  <2> HIDE DEF a
  <2>2. b.ref = a.ref
    BY <1>2, ZenonT(30) DEF Counted, Session, set_disconnect_timer
  <2> QED
    BY <2>1, <2>2
<1> HIDE DEF a, b
<1>4. Counted([b EXCEPT !.state = "CONNECTED", !.io = TRUE])
  BY <1>2, <1>3, ZenonT(120) DEF Counted, Session, SessionState
<1> QED
  BY <1>1, <1>4, <1>5, LostCounted

\* A session the list finds or makes is live and counted.
LEMMA GetCounted ==
    ASSUME NEW s, Counted(s), NEW t \in avdtp_get_internal(s)
    PROVE  Counted(t) /\ t.ref # 0
<1> DEFINE new == FreshSession(s.sep)
<1>1. /\ s.sep \in [SEP -> LocalSep] /\ s.uaf \in BOOLEAN
      /\ s.connects \in Nat /\ s.auth \in Nat
  BY DEF Counted, Session
<1>2. 1 \in 0..(MaxHeld + 1) /\ 0 \in 0..MaxHeld /\ <<>> \in Seq(Request)
  OBVIOUS
<1>3. new \in Session /\ new.ref = 1 /\ new.held = 0 /\ new.robbed = 0
  BY <1>1, <1>2 DEF Session, SessionState, FreshSession
<1> HIDE DEF new
<1>4. Counted(new) /\ new.ref # 0
  BY <1>3 DEF Counted
<1>5. Counted([new EXCEPT !.uaf = s.uaf]) /\ [new EXCEPT !.uaf = s.uaf].ref # 0
  <2>1. [new EXCEPT !.uaf = s.uaf].ref = 1
    BY <1>3 DEF Session
  <2>2. Counted([new EXCEPT !.uaf = s.uaf])
    BY <1>1, <1>4, SetField, ZenonT(30)
  <2> QED
    BY <2>1, <2>2
<1> DEFINE n1 == [new EXCEPT !.uaf = s.uaf]
           n2 == [n1 EXCEPT !.connects = s.connects]
           n3 == [n2 EXCEPT !.auth = s.auth]
<1>6. Counted(n3) /\ n3.ref # 0
  <2>1. Counted(n2)
    BY <1>1, <1>5, SetField, Zenon
  <2>2. Counted(n3)
    BY <1>1, <2>1, SetField, Zenon
  <2>3. n3.ref = new.ref
    BY <1>3 DEF Session
  <2> QED
    BY <1>3, <2>2, <2>3
<1>7. (t = s /\ s.ref # 0) \/ t = n1 \/ t = [n1 EXCEPT !.connects = s.connects, !.auth = s.auth]
  BY DEF avdtp_get_internal, new
<1>8. [n1 EXCEPT !.connects = s.connects, !.auth = s.auth] = n3
  OBVIOUS
<1> QED
  BY <1>5, <1>6, <1>7, <1>8, Zenon

\* A failed authorization request takes a reference of a user, who does not
\* know, or the session's own: it stays counted, less one that was robbed.
LEMMA AuthErrorCounted ==
    ASSUME NEW s, Counted(s), s.ref # 0
    PROVE  Counted(AuthError(s))
<1> DEFINE r == IF s.ref > 1 THEN s.robbed + 1 ELSE s.robbed
           n == [s EXCEPT !.robbed = r]
           t == avdtp_unref(n)
<1>1. s \in Session /\ s.ref + s.robbed = s.held + 1
  BY DEF Counted
<1>2. s.ref \in 0..(MaxHeld + 1) /\ s.held \in 0..MaxHeld /\ s.robbed \in 0..MaxHeld
  BY <1>1, Numbers
<1>3. /\ r \in 0..MaxHeld
      /\ s.ref + r = s.held + 2 \/ (s.ref = 1 /\ s.held <= r)
  BY <1>1, <1>2
<1>4. n = [s EXCEPT !.robbed = IF s.ref > 1 THEN @ + 1 ELSE @]
  OBVIOUS
<1> HIDE DEF r
<1>5. n \in Session
  BY <1>1, <1>3, ZenonT(30) DEF Session
<1>6. n.ref = s.ref /\ n.held = s.held /\ n.robbed = r
  BY <1>1, ZenonT(30) DEF Session
<1> HIDE DEF n
<1>7. Counted(t)
  BY <1>3, <1>5, <1>6, UnrefCounted
<1>8. AuthError(s) = [t EXCEPT !.sock = @ /\ t.ref # 0, !.stale = t.sock /\ t.ref # 0]
  BY <1>4, Zenon DEF AuthError
<1> HIDE DEF t
<1> DEFINE b == t.sock /\ t.ref # 0
<1>9. AuthError(s) = [t EXCEPT !.sock = b, !.stale = b]
  BY <1>8
<1>10. b \in BOOLEAN
  OBVIOUS
<1> HIDE DEF b
<1> QED
  BY <1>7, <1>9, <1>10, ZenonT(120) DEF Counted, Session

\* An incoming connection keeps the session counted, however asking for its
\* authorization ends.
LEMMA ServerCounted ==
    ASSUME NEW s, Counted(s), NEW t \in avdtp_server_cb(s)
    PROVE  Counted(t)
<1>1. PICK x \in avdtp_get_internal(s) : t \in Incoming(x)
  BY DEF avdtp_server_cb
<1>2. Counted(x) /\ x.ref # 0
  BY GetCounted
<1> DEFINE new == [x EXCEPT !.sock = TRUE, !.stale = FALSE, !.io = TRUE]
           asked == [new EXCEPT !.auth = @ + 1]
<1>3. Counted(new) /\ new.ref # 0
  BY <1>2, ZenonT(120) DEF Counted, Session
<1>4. t \in handle_transport_connect(x) \/ t = x \/ t \in auth_cb(asked, TRUE)
      \/ t = AuthError(new) \/ t = asked
  <2>1. CASE t \in UNION {CASE a = "granted" -> auth_cb(asked, TRUE)
                            [] a = "error" -> {AuthError(new)}
                            [] a = "asked" /\ new.auth < MaxAuths -> {asked}
                            [] OTHER -> {} : a \in Auth}
    <3> HIDE DEF new, asked
    <3> QED
      BY <2>1, Zenon
  <2>2. \/ t \in handle_transport_connect(x) \/ t = x
        \/ t \in UNION {CASE a = "granted" -> auth_cb(asked, TRUE)
                            [] a = "error" -> {AuthError(new)}
                            [] a = "asked" /\ new.auth < MaxAuths -> {asked}
                            [] OTHER -> {} : a \in Auth}
    BY <1>1, Zenon DEF Incoming
  <2> HIDE DEF new, asked
  <2> QED
    BY <2>1, <2>2, Zenon
<1> HIDE DEF new
<1>5. Counted(asked)
  BY <1>3, ConnectsCounted, Zenon
<1>6. asked.ref # 0 /\ asked.auth > 0
  <2>1. new \in Session
    BY <1>3 DEF Counted
  <2>2. asked.ref = new.ref /\ asked.auth = new.auth + 1 /\ new.auth \in Nat
    BY <2>1 DEF Session
  <2> QED
    BY <1>3, <2>2
<1> HIDE DEF asked
<1> QED
  BY <1>2, <1>3, <1>4, <1>5, <1>6, TransportConnectCounted, AuthCounted, AuthErrorCounted, Zenon

-----------------------------------------------------------------------------
(* Commands.                                                               *)

\* The session of a handler's outcome is one of those it was given.
LEMMA Outcome ==
    ASSUME NEW S, NEW x
    PROVE  (x \in Accepted(S) \/ x \in Failed(S) \/ x \in Replied(S)) => x.s \in S
BY DEF Accepted, Failed, Replied

\* The command handlers keep a live session counted.
LEMMA SetConfCmdCounted ==
    ASSUME NEW s, Counted(s), s.ref # 0, NEW p \in SEP, NEW x \in avdtp_setconf_cmd(s, p)
    PROVE  Counted(x.s)
<1> DEFINE listed(u) == [u EXCEPT !.sep[p].stream = TRUE, !.streams = @ \cup {p}]
<1>1. ASSUME NEW u, Counted(u)
      PROVE  Counted(listed(u))
  <2> DEFINE e == [u.sep[p] EXCEPT !.stream = TRUE]
             v == [u EXCEPT !.sep[p] = e]
             st == u.streams \cup {p}
  <2>1. u.sep[p] \in LocalSep
    BY <1>1, SetSep
  <2>2. e \in LocalSep
    BY <2>1, Zenon DEF LocalSep
  <2>3. st \in SUBSET SEP
    BY <1>1 DEF Counted, Session
  <2>4. listed(u) = [v EXCEPT !.streams = st]
    BY <1>1 DEF Counted, Session
  <2> HIDE DEF e, st
  <2>5. Counted(v)
    BY <1>1, <2>2, SetSep
  <2> HIDE DEF v
  <2>6. Counted([v EXCEPT !.streams = st])
    BY <2>3, <2>5, SetField, Zenon
  <2> QED
    BY <2>4, <2>6
<1> DEFINE A == Replied({s})
           B == Failed({[u EXCEPT !.sep[p] = stream_free(@)] : u \in UserRef(s)})
           C == Accepted(UNION {avdtp_sep_set_state(listed(u), p, "CONFIGURED") :
                                    u \in UserRef(s)})
<1>9. x \in A \/ x \in B \/ x \in C
  BY Zenon DEF avdtp_setconf_cmd
<1> HIDE DEF listed
<1>2. x.s = s \/ (\E u \in UserRef(s) : x.s = [u EXCEPT !.sep[p] = stream_free(@)])
      \/ \E u \in UserRef(s) : x.s \in avdtp_sep_set_state(listed(u), p, "CONFIGURED")
  <2>1. CASE x \in A
    BY <2>1 DEF Replied
  <2>2. CASE x \in B
    <3>1. x.s \in {[u EXCEPT !.sep[p] = stream_free(@)] : u \in UserRef(s)}
      BY <2>2, Outcome
    <3> QED
      BY <3>1, ZenonT(30)
  <2>3. CASE x \in C
    BY <2>3 DEF Accepted
  <2> QED
    BY <1>9, <2>1, <2>2, <2>3, Zenon
<1>3. ASSUME NEW u \in UserRef(s)
      PROVE  Counted(u) /\ Counted([u EXCEPT !.sep[p] = stream_free(@)]) /\ Counted(listed(u))
  <2>1. Counted(u)
    BY UserRefCounted
  <2> QED
    BY <1>1, <2>1, SetSepField, Zenon
<1>4. ASSUME NEW u \in UserRef(s), x.s \in avdtp_sep_set_state(listed(u), p, "CONFIGURED")
      PROVE  Counted(x.s)
  BY <1>3, <1>4, SetStateCounted, Zenon DEF SepState
<1> QED
  BY <1>2, <1>3, <1>4, Zenon

\* Accepting an OPEN waits for its transport; the session stays counted.
LEMMA OpenCmdCounted ==
    ASSUME NEW s, Counted(s), NEW p \in SEP, NEW x \in avdtp_open_cmd(s, p)
    PROVE  Counted(x.s)
<1> DEFINE e == [s.sep[p] EXCEPT !.open_acp = TRUE, !.timer = "open"]
           v == [s EXCEPT !.sep[p] = e]
           w == [s EXCEPT !.sep[p].open_acp = TRUE, !.sep[p].timer = "open",
                          !.pending_open = p]
<1>1. s.sep[p] \in LocalSep
  BY SetSep
<1>2. e \in LocalSep
  BY <1>1, Zenon DEF LocalSep
<1>3. w = [v EXCEPT !.pending_open = p]
  BY ZenonT(120) DEF Counted, Session
<1>4. Counted([v EXCEPT !.pending_open = p])
  <2> HIDE DEF e
  <2>1. Counted(v)
    BY <1>2, SetSep
  <2> HIDE DEF v
  <2> QED
    BY <2>1, SetField, Zenon
<1>5. x.s = s \/ x.s = w
  BY DEF avdtp_open_cmd, Replied, Failed, Accepted
<1> QED
  BY <1>3, <1>4, <1>5

\* The other stream commands.
LEMMA StreamCmdCounted ==
    ASSUME NEW s, Counted(s), s.ref # 0, NEW p \in SEP,
           NEW x \in avdtp_start_cmd(s, p) \cup avdtp_suspend_cmd(s, p)
                     \cup avdtp_close_cmd(s, p) \cup avdtp_abort_cmd(s, p)
    PROVE  Counted(x.s)
<1> USE DEF Replied, Failed, Accepted, SepState
<1>1. CASE x \in avdtp_start_cmd(s, p)
  <2>1. x.s = s \/ \E u \in UserRef(s) : x.s \in avdtp_sep_set_state(u, p, "STREAMING")
    BY <1>1 DEF avdtp_start_cmd
  <2> QED
    BY <2>1, UserRefCounted, SetStateCounted
<1>2. CASE x \in avdtp_suspend_cmd(s, p)
  <2>1. x.s = s \/ \E u \in Callback(s) : x.s \in avdtp_sep_set_state(Touch(u), p, "OPEN")
    BY <1>2 DEF avdtp_suspend_cmd
  <2>2. \A u \in Callback(s) : Counted(Touch(u))
    BY CallbackCounted, TouchCounted
  <2> QED
    BY <2>1, <2>2, SetStateCounted
<1>3. CASE x \in avdtp_close_cmd(s, p)
  <2>1. x.s = s \/ \E u \in avdtp_sep_set_state(s, p, "CLOSING") :
                      x.s \in {u, [u EXCEPT !.sep[p].timer = "close"]}
    BY <1>3 DEF avdtp_close_cmd
  <2>2. ASSUME NEW u \in avdtp_sep_set_state(s, p, "CLOSING")
        PROVE  Counted(u) /\ Counted([u EXCEPT !.sep[p].timer = "close"])
    <3>1. Counted(u)
      BY SetStateCounted
    <3> QED
      BY <3>1, SetSepField, ZenonT(30)
  <2> QED
    BY <2>1, <2>2, Zenon
<1>4. CASE x \in avdtp_abort_cmd(s, p)
  <2>1. x.s = s \/ x.s \in avdtp_sep_set_state(s, p, "ABORTING")
    BY <1>4 DEF avdtp_abort_cmd
  <2> QED
    BY <2>1, SetStateCounted
<1> QED
  BY <1>1, <1>2, <1>3, <1>4

\* Handling any command keeps a live session counted.
LEMMA CommandCounted ==
    ASSUME NEW s, Counted(s), s.ref # 0, NEW cmd, NEW p \in SEP,
           NEW t \in HandleCommand(s, cmd, p)
    PROVE  Counted(t)
<1>1. PICK x \in avdtp_parse_cmd(s, cmd, p) :
        t = AfterCommand(Touch(x.s)) \/ t \in connection_lost(Touch(x.s))
  BY DEF HandleCommand
<1>2. \/ x \in avdtp_setconf_cmd(s, p) \/ x \in avdtp_open_cmd(s, p)
      \/ x \in avdtp_start_cmd(s, p) \cup avdtp_suspend_cmd(s, p)
               \cup avdtp_close_cmd(s, p) \cup avdtp_abort_cmd(s, p)
      \/ x \in Replied({s})
  BY DEF avdtp_parse_cmd
<1>3. Counted(x.s)
  <2>1. CASE x \in Replied({s})
    BY <2>1 DEF Replied
  <2> QED
    BY <1>2, <2>1, SetConfCmdCounted, OpenCmdCounted, StreamCmdCounted
<1>4. Counted(Touch(x.s))
  BY <1>3, TouchCounted
<1>5. Counted(AfterCommand(Touch(x.s)))
  BY <1>4, TimerCounted DEF AfterCommand
<1> QED
  BY <1>1, <1>4, <1>5, LostCounted

-----------------------------------------------------------------------------
(* Responses.                                                              *)

\* The answers to DISCOVER and GET_CAPABILITIES keep a live session counted.
LEMMA DiscoverRespCounted ==
    ASSUME NEW s, Counted(s), s.ref # 0,
           NEW x \in avdtp_discover_resp(s) \cup avdtp_get_capabilities_resp(s)
    PROVE  Counted(x.s)
<1>1. CASE x \in avdtp_discover_resp(s)
  <2>1. PICK n \in 0..MaxRemoteSeps :
          x.s = [s EXCEPT !.seps = @ \/ n > 0,
                          !.prio_queue = @ \o [i \in 1..n |-> NewReq("GETCAP", NoSep)]]
    <3>1. x.s \in {[s EXCEPT !.seps = @ \/ n > 0,
                        !.prio_queue = @ \o [i \in 1..n |-> NewReq("GETCAP", NoSep)]] :
                        n \in 0..MaxRemoteSeps}
      BY <1>1, Outcome, Zenon DEF avdtp_discover_resp
    <3> QED
      BY <3>1, ZenonT(30)
  <2> DEFINE b == s.seps \/ n > 0
             q == s.prio_queue \o [i \in 1..n |-> NewReq("GETCAP", NoSep)]
  <2>2. b \in BOOLEAN
    OBVIOUS
  <2>3. q \in Seq(Request)
    <3>1. NewReq("GETCAP", NoSep) \in Request
      BY NewReqType DEF Signal
    <3>2. [i \in 1..n |-> NewReq("GETCAP", NoSep)] \in Seq(Request)
      BY <3>1
    <3>3. s.prio_queue \in Seq(Request)
      BY DEF Counted, Session
    <3> QED
      BY <3>2, <3>3
  <2>4. x.s = [s EXCEPT !.seps = b, !.prio_queue = q]
    BY <2>1
  <2> HIDE DEF b, q
  <2>5. Counted([s EXCEPT !.seps = b, !.prio_queue = q])
    BY <2>2, <2>3, ZenonT(30) DEF Counted, Session
  <2> QED
    BY <2>4, <2>5
<1>2. CASE x \in avdtp_get_capabilities_resp(s)
  <2>1. x.s = s \/ \E u \in DiscoveryCallback(s) : x.s = [Touch(u) EXCEPT !.discov_cb = FALSE]
    <3> DEFINE queue == s.prio_queue \o s.req_queue
               more == queue # <<>> /\ Head(queue).signal = "GETCAP"
               found == {[Touch(u) EXCEPT !.discov_cb = FALSE] : u \in DiscoveryCallback(s)}
    <3>1. x \in Failed({s}) \/ x \in Accepted(IF more \/ ~s.discov_cb THEN {s} ELSE found)
      BY <1>2, Zenon DEF avdtp_get_capabilities_resp
    <3> HIDE DEF more, found
    <3>2. x.s = s \/ x.s \in found
      BY <3>1, Outcome
    <3> QED
      BY <3>2, Zenon DEF found
  <2>2. ASSUME NEW u \in DiscoveryCallback(s)
        PROVE  Counted([Touch(u) EXCEPT !.discov_cb = FALSE])
    <3>1. Counted(Touch(u))
      BY DiscoveryCallbackCounted, TouchCounted
    <3> QED
      BY <3>1, SetField, ZenonT(30)
  <2> QED
    BY <2>1, <2>2, Zenon
<1> QED
  BY <1>1, <1>2

\* So do the answers to the requests on a stream.
LEMMA StreamRespCounted ==
    ASSUME NEW s, Counted(s), s.ref # 0, NEW p \in SEP,
           NEW x \in avdtp_set_configuration_resp(s, p) \cup avdtp_start_resp(s, p)
                     \cup avdtp_close_resp(s, p) \cup avdtp_suspend_resp(s, p)
                     \cup avdtp_abort_resp(s, p)
    PROVE  Counted(x.s)
<1> USE DEF Accepted, SepState
<1>1. CASE x \in avdtp_set_configuration_resp(s, p)
  <2>1. PICK u \in Callback(s) \cup UNION {avdtp_open(v, p) : v \in UserRef(s)} :
          x.s \in avdtp_sep_set_state(Touch(u), p, "CONFIGURED")
    BY <1>1 DEF avdtp_set_configuration_resp, Asks
  <2>2. Counted(Touch(u))
    BY CallbackCounted, UserRefCounted, ApiCounted, TouchCounted
  <2> QED
    BY <2>1, <2>2, SetStateCounted
<1>2. CASE x \in avdtp_start_resp(s, p)
  <2>1. PICK u \in Callback(s) \cup avdtp_close(s, p) :
          x.s \in avdtp_sep_set_state(Touch(u), p, "STREAMING")
    BY <1>2 DEF avdtp_start_resp, Asks
  <2>2. Counted(Touch(u))
    BY CallbackCounted, ApiCounted, TouchCounted
  <2> QED
    BY <2>1, <2>2, SetStateCounted
<1>3. CASE x \in avdtp_close_resp(s, p)
  <2>1. PICK u \in avdtp_sep_set_state(s, p, "CLOSING") :
          x.s = [u EXCEPT !.sep[p].sock = FALSE]
    <3>1. x.s \in {[u EXCEPT !.sep[p].sock = FALSE] :
                       u \in avdtp_sep_set_state(s, p, "CLOSING")}
      BY <1>3, Outcome DEF avdtp_close_resp
    <3> QED
      BY <3>1, Zenon
  <2>2. Counted(u)
    BY SetStateCounted
  <2>3. Counted([u EXCEPT !.sep[p].sock = FALSE])
    BY <2>2, SetSepField, Zenon
  <2> QED
    BY <2>1, <2>3
<1>4. CASE x \in avdtp_suspend_resp(s, p)
  <2> DEFINE idle == {[u EXCEPT !.sep[p].idle_timer = TRUE] :
                         u \in avdtp_sep_set_state(s, p, "OPEN")}
  <2>1. PICK v \in idle : x.s \in Callback(Touch(v)) \cup avdtp_start(Touch(v), p)
    BY <1>4 DEF avdtp_suspend_resp, Asks
  <2>2. PICK u \in avdtp_sep_set_state(s, p, "OPEN") : v = [u EXCEPT !.sep[p].idle_timer = TRUE]
    BY <2>1
  <2>3. Counted(u)
    BY SetStateCounted
  <2>4. Counted(v)
    BY <2>2, <2>3, SetSepField, Zenon
  <2>5. Counted(Touch(v))
    BY <2>4, TouchCounted
  <2> QED
    BY <2>1, <2>5, CallbackCounted, ApiCounted
<1>5. CASE x \in avdtp_abort_resp(s, p)
  <2>1. PICK u \in Callback(s) : x.s \in avdtp_sep_set_state(Touch(u), p, "IDLE")
    BY <1>5 DEF avdtp_abort_resp
  <2>2. Counted(Touch(u))
    BY CallbackCounted, TouchCounted
  <2> QED
    BY <2>1, <2>2, SetStateCounted
<1> QED
  BY <1>1, <1>2, <1>3, <1>4, <1>5

\* And the answer to OPEN, which starts the transport connect.
LEMMA OpenRespCounted ==
    ASSUME NEW s, Counted(s), NEW p \in SEP \cup {NoSep}, NEW x \in avdtp_open_resp(s, p)
    PROVE  Counted(x.s)
<1> DEFINE v == [s EXCEPT !.connects = @ + 1]
<1>1. CASE p = NoSep
  <2>1. x.s = [s EXCEPT !.halted = "null"]
    BY <1>1 DEF avdtp_open_resp, Accepted
  <2> QED
    BY <2>1, SetField, Zenon
<1>2. CASE p # NoSep
  <2>1. x.s \in avdtp_sep_set_state(s, p, "IDLE") \/ x.s = [v EXCEPT !.pending_open = p]
    BY <1>2 DEF avdtp_open_resp, Accepted, Failed
  <2>2. Counted([v EXCEPT !.pending_open = p])
    BY ConnectsCounted, SetField, Zenon
  <2> QED
    BY <1>2, <2>1, <2>2, SetStateCounted DEF SepState
<1> QED
  BY <1>1, <1>2

\* A response finds a stream of the list or none.
LEMMA ResolveType ==
    ASSUME NEW s, Counted(s), NEW r \in Request, NEW p \in Resolve(s, r)
    PROVE  p \in SEP \cup {NoSep}
BY DEF Resolve, Counted, Session, Request

\* Handling a response keeps a live session counted.
LEMMA ResponseCounted ==
    ASSUME NEW s, Counted(s), s.ref # 0, s.req # NoReq, NEW type,
           NEW t \in HandleResponse(s, type)
    PROVE  Counted(t)
<1> DEFINE a == [s EXCEPT !.timeout = FALSE]
<1>1. Counted(a) /\ a.ref # 0 /\ a.req = s.req
  BY ZenonT(30) DEF Counted, Session
<1> HIDE DEF a
<1> DEFINE parsed == UNION {CASE type = "ACCEPT" -> avdtp_parse_resp(a, a.req.signal, p)
                              [] type = "REJECT" -> avdtp_parse_rej(a, a.req.signal, p)
                              [] OTHER -> Accepted({a}) : p \in Resolve(a, a.req)}
<1>7. PICK x \in parsed : t \in process_queue([Touch(x.s) EXCEPT !.req = NoReq])
                           \/ t \in connection_lost(Touch(x.s))
  BY Zenon DEF HandleResponse, a
<1>2. PICK p \in Resolve(a, a.req) :
        x \in avdtp_parse_resp(a, a.req.signal, p)
              \cup avdtp_parse_rej(a, a.req.signal, p) \cup Accepted({a})
  BY <1>7, Zenon
<1>3. p \in SEP \cup {NoSep}
  <2>1. a.req \in Request
    BY <1>1 DEF Counted, Session
  <2> QED
    BY <1>1, <2>1, ResolveType
<1>4. Counted(x.s)
  <2>1. CASE x \in Accepted({a})
    BY <1>1, <2>1 DEF Accepted
  <2>2. CASE x \in avdtp_parse_rej(a, a.req.signal, p)
    <3>1. x.s = a \/ x.s \in Callback(a)
      BY <2>2 DEF avdtp_parse_rej, Failed, Accepted
    <3> QED
      BY <1>1, <3>1, CallbackCounted
  <2>3. CASE x \in avdtp_parse_resp(a, a.req.signal, p)
    <3>1. \/ x \in avdtp_discover_resp(a) \cup avdtp_get_capabilities_resp(a)
          \/ x \in avdtp_open_resp(a, p)
          \/ p # NoSep /\ x \in avdtp_set_configuration_resp(a, p) \cup avdtp_start_resp(a, p)
                                \cup avdtp_close_resp(a, p) \cup avdtp_suspend_resp(a, p)
                                \cup avdtp_abort_resp(a, p)
          \/ x \in Accepted({a})
      BY <2>3 DEF avdtp_parse_resp
    <3> QED
      BY <1>1, <1>3, <2>1, <3>1, DiscoverRespCounted, OpenRespCounted, StreamRespCounted
  <2> QED
    BY <1>2, <2>1, <2>2, <2>3
<1>5. Counted(Touch(x.s))
  BY <1>4, TouchCounted
<1>6. Counted([Touch(x.s) EXCEPT !.req = NoReq])
  BY <1>5, SetField, Zenon
<1> QED
  BY <1>7, <1>5, <1>6, ProcessCounted, LostCounted

\* A request timing out keeps the session counted.
LEMMA RequestTimeoutCounted ==
    ASSUME NEW s, Counted(s), NEW t \in request_timeout(s)
    PROVE  Counted(t)
<1> DEFINE p == IF s.req.sep \in s.streams THEN s.req.sep ELSE NoSep
           a == [s EXCEPT !.req = NoReq, !.timeout = FALSE]
           r == NewReq("ABORT", p)
<1>1. Counted(a)
  BY ZenonT(120) DEF Counted, Session
<1>2. p \in SEP \cup {NoSep}
  BY DEF Counted, Session
<1>3. r \in Request
  BY <1>2, NewReqType DEF Signal, StreamSignal
<1> DEFINE sig == s.req.signal
           cfm == IF p # NoSep /\ sig \notin {"GETCONF", "ABORT"} THEN Callback(a) ELSE {a}
           aborted == UNION {send_req(Touch(u), TRUE, r) : u \in cfm}
<1>7. \/ t \in UNION {connection_lost(Touch(u)) : u \in cfm}
      \/ t \in UNION {IF x.ok THEN {x.s} ELSE connection_lost(x.s) : x \in aborted}
  BY Zenon DEF request_timeout
<1>8. cfm \subseteq {a} \cup Callback(a)
  OBVIOUS
<1> HIDE DEF a, p, r, sig, cfm
<1>4. PICK u \in {a} \cup Callback(a) :
        \/ t \in connection_lost(Touch(u))
        \/ \E x \in send_req(Touch(u), TRUE, r) : t = x.s \/ t \in connection_lost(x.s)
  BY <1>7, <1>8, Zenon
<1>5. Counted(Touch(u))
  BY <1>1, CallbackCounted, TouchCounted
<1>6. ASSUME NEW x \in send_req(Touch(u), TRUE, r)
      PROVE  Counted(x.s)
  BY <1>3, <1>5, SendCounted, Zenon
<1> QED
  BY <1>4, <1>5, <1>6, LostCounted, Zenon

-----------------------------------------------------------------------------
(* Transport events and timers.                                            *)

\* The end of a transport keeps the session counted.
LEMMA TransportCounted ==
    ASSUME NEW s, Counted(s), NEW p \in SEP, NEW t \in transport_cb(s, p)
    PROVE  Counted(t)
<1>1. PICK u \in {s} \cup Callback(s) :
        t \in avdtp_sep_set_state([Touch(u) EXCEPT !.sep[p].io = FALSE], p, "IDLE")
  BY Zenon DEF transport_cb
<1>2. Counted(Touch(u))
  BY CallbackCounted, TouchCounted
<1> DEFINE v == [Touch(u) EXCEPT !.sep[p].io = FALSE]
<1>3. Counted(v)
  BY <1>2, SetSepField, Zenon
<1>4. "IDLE" \in SepState
  BY DEF SepState
<1> HIDE DEF v
<1>5. t \in avdtp_sep_set_state(v, p, "IDLE")
  BY <1>1 DEF v
<1> QED
  BY <1>3, <1>4, <1>5, SetStateCounted

\* So do the stream timers.
LEMMA StreamTimersCounted ==
    ASSUME NEW s, Counted(s), NEW p \in SEP,
           NEW t \in stream_open_timeout(s, p) \cup stream_close_timeout(s, p)
                     \cup stream_timeout(s, p)
    PROVE  Counted(t)
<1>1. CASE t \in stream_open_timeout(s, p)
  <2> DEFINE a == [s EXCEPT !.sep[p].timer = "none"]
             b == [a EXCEPT !.pending_open = NoSep]
  <2>1. Counted(a)
    BY SetSepField, ZenonT(30)
  <2>2. Counted(b)
    <3> HIDE DEF a
    <3> QED
      BY <2>1, SetField, Zenon
  <2>3. t \in avdtp_abort(b, p)
    BY <1>1 DEF stream_open_timeout
  <2> HIDE DEF b
  <2> QED
    BY <2>2, <2>3, ApiCounted
<1>2. CASE t \in stream_close_timeout(s, p)
  <2> DEFINE e == [s.sep[p] EXCEPT !.timer = "none", !.sock = FALSE]
  <2>1. s.sep[p] \in LocalSep
    BY SetSep
  <2>2. e \in LocalSep
    BY <2>1, Zenon DEF LocalSep
  <2>3. s \in Session /\ s.sep \in [SEP -> LocalSep]
    BY DEF Counted, Session
  <2>4. t = [s EXCEPT !.sep[p] = e]
    BY <1>2, <2>3, Zenon DEF stream_close_timeout
  <2> HIDE DEF e
  <2> QED
    BY <2>2, <2>4, SetSep
<1>3. CASE t \in stream_timeout(s, p)
  <2>1. t = [s EXCEPT !.sep[p].idle_timer = FALSE]
    BY <1>3 DEF stream_timeout
  <2> QED
    BY <2>1, SetSepField, Zenon
<1> QED
  BY <1>1, <1>2, <1>3

\* So does the disconnect timer, which sets up a stream or ends the session.
LEMMA DisconnectCounted ==
    ASSUME NEW s, Counted(s), s.ref # 0, NEW t \in disconnect_timeout(s)
    PROVE  Counted(t)
<1> DEFINE a == [s EXCEPT !.dc_timer = FALSE, !.stream_setup = FALSE]
<1>1. Counted(a) /\ a.ref # 0
  BY TimerCounted, Zenon DEF remove_disconnect_timer
<1>2. \/ t = [s EXCEPT !.halted = "assert"]
      \/ t \in connection_lost(a)
      \/ t \in sink_setup_stream(a)
  BY DEF disconnect_timeout
<1> HIDE DEF a
<1>3. CASE t = [s EXCEPT !.halted = "assert"]
  BY <1>3, SetField, Zenon
<1>4. CASE t \in sink_setup_stream(a)
  <2>1. \/ t = [a EXCEPT !.refused = TRUE]
        \/ a.held < MaxHeld /\ t \in avdtp_discover(avdtp_ref(a))
    BY <1>4 DEF sink_setup_stream
  <2>2. CASE t = [a EXCEPT !.refused = TRUE]
    BY <1>1, <2>2, SetField, Zenon
  <2>3. CASE a.held < MaxHeld /\ t \in avdtp_discover(avdtp_ref(a))
    <3>1. Counted(avdtp_ref(a)) /\ avdtp_ref(a).ref # 0
      BY <1>1, <2>3, RefCounted
    <3> QED
      BY <2>3, <3>1, DiscoverCounted
  <2> QED
    BY <2>1, <2>2, <2>3
<1> QED
  BY <1>1, <1>2, <1>3, <1>4, LostCounted

-----------------------------------------------------------------------------
(* The specification.                                                      *)

\* No session has been created yet: nothing is counted.
LEMMA InitCounted == Init => Counted(session)
<1> DEFINE f == [p \in SEP |-> IdleSep]
           new == FreshSession(f)
<1>1. f \in [SEP -> LocalSep]
  BY DEF IdleSep, LocalSep, SepState
<1>2. 1 \in 0..(MaxHeld + 1) /\ 0 \in 0..MaxHeld /\ <<>> \in Seq(Request)
  OBVIOUS
<1> HIDE DEF f
<1>3. new \in Session
  BY <1>1, <1>2 DEF Session, SessionState, FreshSession
<1>4. new.held = 0 /\ new.robbed = 0 /\ ~new.io /\ ~new.dc_timer
  BY DEF FreshSession
<1> HIDE DEF new
<1>5. [new EXCEPT !.ref = 0] \in Session
  <2>1. 0 \in 0..(MaxHeld + 1)
    OBVIOUS
  <2>2. \A r \in 0..(MaxHeld + 1) : [new EXCEPT !.ref = r] \in Session
    BY <1>3, ZenonT(30) DEF Session
  <2> QED
    BY <2>1, <2>2
<1> DEFINE t == [new EXCEPT !.ref = 0]
<1>6. t.ref = 0 /\ t.held = 0 /\ t.robbed = 0 /\ ~t.io /\ ~t.dc_timer
  BY <1>3, <1>4 DEF Session
<1>7. Init => session = t
  BY DEF Init, f, new
<1> HIDE DEF t
<1>8. Counted(t)
  BY <1>5, <1>6 DEF Counted, t
<1> QED
  BY <1>7, <1>8

\* Every step keeps the session counted.
LEMMA NextCounted ==
    ASSUME Counted(session), [Next]_session
    PROVE  Counted(session')
<1> DEFINE s == session
<1>1. /\ s.held \in 0..MaxHeld /\ s.ref \in 0..(MaxHeld + 1)
      /\ Running /\ s.held > 0 => s.ref # 0
      /\ s.io \/ s.dc_timer => s.ref # 0
  BY DEF Counted, Session, Running, Alive
<1>2. CASE UserStep
  <2>1. CASE Get
    <3>1. PICK t \in avdtp_get_internal(session) : session' = avdtp_ref(t) /\ session.held < MaxHeld
      BY <2>1 DEF Get
    <3>2. Counted(t) /\ t.ref # 0
      BY GetCounted
    <3>3. t.held < MaxHeld
      <4> DEFINE zero == 0
      <4>1. t = session \/ t.held = zero
        BY ZenonT(120) DEF avdtp_get_internal, FreshSession
      <4> QED
        BY <1>1, <3>1, <4>1
    <3> QED
      BY <3>1, <3>2, <3>3, RefCounted
  <2>2. CASE Unref
    <3>1. session.held - 1 \in 0..(session.held - 1)
      BY <1>1, <2>2 DEF Unref, User
    <3> QED
      BY <2>2, <3>1, UserUnrefCounted DEF Unref
  <2>3. CASE Discover
    BY <1>1, <2>3, DiscoverCounted DEF Discover, UserAsks, User, Running
  <2>4. ASSUME NEW p \in SEP, SetConfiguration(p)
        PROVE  Counted(session')
    BY <2>4, SetConfCounted DEF SetConfiguration
  <2>5. ASSUME NEW p \in SEP,
               \/ GetConfiguration(p) \/ Open(p) \/ Start(p) \/ Reconfigure(p)
               \/ Suspend(p) \/ Close(p) \/ Abort(p)
        PROVE  Counted(session')
    BY <2>5, ApiCounted
       DEF GetConfiguration, Open, Start, Reconfigure, Suspend, Close, Abort
  <2> QED
    BY <1>2, <2>1, <2>2, <2>3, <2>4, <2>5 DEF UserStep
<1>3. CASE LinkStep
  <2>1. ASSUME NEW outcome, ConnectDone(outcome)
        PROVE  Counted(session')
    <3>1. CASE Alive
      BY <2>1, <3>1, ConnectCounted DEF ConnectDone, Alive
    <3>2. CASE ~Alive
      BY <2>1, <3>2, ConnectsCounted, Zenon DEF ConnectDone
    <3> QED
      BY <3>1, <3>2
  <2>2. ASSUME NEW granted \in BOOLEAN, AuthDone(granted)
        PROVE  Counted(session')
    <3>1. CASE Alive
      BY <2>2, <3>1, AuthCounted DEF AuthDone, Alive
    <3>2. CASE ~Alive
      BY <2>2, <3>2, ConnectsCounted, Zenon DEF AuthDone
    <3> QED
      BY <3>1, <3>2
  <2>3. CASE ServerConnect
    BY <2>3, ServerCounted DEF ServerConnect
  <2>4. CASE SessionHup
    BY <2>4, LostCounted DEF SessionHup
  <2>5. CASE SessionNval
    BY <2>5, ZenonT(120) DEF SessionNval, Counted, Session
  <2>6. ASSUME NEW p \in SEP, TransportHup(p) \/ TransportNval(p)
        PROVE  Counted(session')
    BY <2>6, TransportCounted DEF TransportHup, TransportNval
  <2> QED
    BY <1>3, <2>1, <2>2, <2>3, <2>4, <2>5, <2>6 DEF LinkStep
<1>4. CASE PeerStep
  <2>1. ASSUME NEW cmd, NEW p \in SEP, Command(cmd, p)
        PROVE  Counted(session')
    BY <1>1, <2>1, CommandCounted DEF Command, Readable
  <2>2. ASSUME NEW type, Response(type)
        PROVE  Counted(session')
    BY <1>1, <2>2, ResponseCounted DEF Response, Readable
  <2> QED
    BY <1>4, <2>1, <2>2 DEF PeerStep
<1>5. CASE TimerStep
  <2>1. ASSUME NEW p \in SEP,
               StreamOpenTimeout(p) \/ StreamCloseTimeout(p) \/ StreamTimeout(p)
        PROVE  Counted(session')
    BY <2>1, StreamTimersCounted DEF StreamOpenTimeout, StreamCloseTimeout, StreamTimeout
  <2>2. CASE RequestTimeout
    BY <2>2, RequestTimeoutCounted DEF RequestTimeout
  <2>3. CASE DisconnectTimeout
    BY <1>1, <2>3, DisconnectCounted DEF DisconnectTimeout
  <2> QED
    BY <1>5, <2>1, <2>2, <2>3 DEF TimerStep
<1>6. CASE UNCHANGED session
  BY <1>6
<1> QED
  BY <1>2, <1>3, <1>4, <1>5, <1>6 DEF Next

\* Counted is an invariant of the session.
LEMMA CountedInvariant == Spec => []Counted(session)
<1>1. Init => Counted(session)
  BY InitCounted
<1>2. Counted(session) /\ [Next]_session => Counted(session)'
  BY NextCounted
<1> QED
  BY <1>1, <1>2, PTL DEF Spec

\* Type correctness: however many end points, requests, references and
\* connections there are, and however authorizations end, no handler of
\* avdtp.c takes the session out of its type.
THEOREM TypeCorrect == Spec => []TypeOK
<1>1. Counted(session) => TypeOK
  BY DEF Counted, TypeOK
<1> QED
  BY <1>1, CountedInvariant, PTL

\* The reference count is exact at every moment, whatever the users, the peer,
\* the links and the timers do: it is what the users hold plus one, less the
\* references that failed authorization requests took, and a session is freed
\* under a user only if such a request took that user's reference (avdtp_ref,
\* avdtp_unref, connection_lost, avdtp_server_cb).
THEOREM RefCountExact == Spec => []RefExact
<1>1. Counted(session) => RefExact
  BY DEF Counted, Session, RefExact, Alive
<1> QED
  BY <1>1, CountedInvariant, PTL

=============================================================================
