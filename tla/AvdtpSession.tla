---------------------------- MODULE AvdtpSession ----------------------------
(***************************************************************************)
(* The AVDTP signalling session of utils/audio/avdtp.c: the life of one    *)
(* struct avdtp (reference count, timers, sockets), its request queues and *)
(* the streams it configures, opens, starts, suspends, closes and aborts.  *)
(*                                                                         *)
(* The daemon is one glib main loop, so every event handler and every API  *)
(* call made from another handler runs to completion: each is one action.  *)
(* A handler that calls back into its user (cfm, ind, stream and discovery *)
(* callbacks) does so in the middle of the action, so handlers are written *)
(* as operators from a session to the SET of sessions they can leave.      *)
(***************************************************************************)
EXTENDS Integers, Sequences, FiniteSets

CONSTANTS
    SEP,          \* local stream end points, one per codec
    NoSep,        \* "no end point": a NULL stream pointer
    Auth,         \* how service_req_auth() may end: "granted" at once (a
                  \* trusted device), "asked" of the user, or an "error"
    MaxHeld,      \* bound: references the users of the session hold
    Requests,     \* the signals the users of the session ask for
    MaxQueue,     \* bound: requests waiting when a user adds one
    MaxConnects,  \* bound: outgoing L2CAP connects in flight
    MaxAuths,     \* bound: authorizations the user has not answered yet
    MaxRemoteSeps \* bound: end points a DISCOVER response lists

ASSUME SepAssumption == NoSep \notin SEP
ASSUME AuthAssumption == Auth \subseteq {"granted", "asked", "error"}
ASSUME RequestsAssumption ==
    Requests \subseteq {"DISCOVER", "GETCONF", "SETCONF", "RECONF", "OPEN", "START",
                       "SUSPEND", "CLOSE", "ABORT"}
ASSUME BoundsAssumption ==
    /\ MaxHeld \in Nat
    /\ MaxQueue \in Nat
    /\ MaxConnects \in Nat
    /\ MaxAuths \in Nat
    /\ MaxRemoteSeps \in Nat

VARIABLE session   \* struct avdtp, with the local end points it uses

-----------------------------------------------------------------------------
(* Data.                                                                   *)

SepState == {"IDLE", "CONFIGURED", "OPEN", "STREAMING", "CLOSING", "ABORTING"}
SessionState == {"DISCONNECTED", "CONNECTING", "CONNECTED"}
StreamSignal == {"GETCONF", "SETCONF", "RECONF", "OPEN", "START", "SUSPEND",
                 "CLOSE", "ABORT"}
Signal == StreamSignal \cup {"DISCOVER", "GETCAP"}

\* struct pending_req.  ptr is the stream pointer it carries: NULL, a stream
\* of the list, or the address of a stream that has been freed since.
Request == [signal : Signal, sep : SEP \cup {NoSep},
            ptr : {"null", "live", "dangling"}]
NoReq == [signal |-> "none", sep |-> NoSep, ptr |-> "null"]

\* struct avdtp_local_sep and the struct avdtp_stream it points to.  sock
\* tells whether its transport socket is open; descriptor numbers are left out,
\* and with them a close() of one that was never opened or is closed already.
LocalSep == [state : SepState, inuse : BOOLEAN, stream : BOOLEAN,
             sock : BOOLEAN, io : BOOLEAN,
             timer : {"none", "open", "close"}, idle_timer : BOOLEAN,
             open_acp : BOOLEAN, close_int : BOOLEAN]

IdleSep == [state |-> "IDLE", inuse |-> FALSE, stream |-> FALSE,
            sock |-> FALSE, io |-> FALSE, timer |-> "none",
            idle_timer |-> FALSE, open_acp |-> FALSE, close_int |-> FALSE]

\* struct avdtp; ref = 0 once it is freed.  stale tells that the descriptor
\* sock names has been closed by somebody else.  held counts the references its
\* users own, robbed those of them that a failed authorization request has
\* given up in their stead, connects and auth the callbacks still due from the
\* L2CAP and authorization helpers.  uaf and halted record what must not happen:
\* a handler going on with a freed session, a failed assertion or a NULL stream.
Session == [ref : 0..(MaxHeld + 1), held : 0..MaxHeld, robbed : 0..MaxHeld,
            free_lock : BOOLEAN, state : SessionState,
            sock : BOOLEAN, stale : BOOLEAN, io : BOOLEAN,
            seps : BOOLEAN, discov_cb : BOOLEAN,
            streams : SUBSET SEP, sep : [SEP -> LocalSep],
            req : Request \cup {NoReq}, timeout : BOOLEAN,
            req_queue : Seq(Request), prio_queue : Seq(Request),
            pending_open : SEP \cup {NoSep},
            dc_timer : BOOLEAN, stream_setup : BOOLEAN, refused : BOOLEAN,
            connects : Nat, auth : Nat, uaf : BOOLEAN,
            halted : {"no", "assert", "null"}]

\* What g_new0() and avdtp_get_internal() give a new session.  Callbacks due
\* for the previous one find it gone, unless the address is used again.
FreshSession(sep) ==
    [ref |-> 1, held |-> 0, robbed |-> 0, free_lock |-> FALSE, state |-> "DISCONNECTED",
     sock |-> FALSE, stale |-> FALSE, io |-> FALSE, seps |-> FALSE, discov_cb |-> FALSE,
     streams |-> {}, sep |-> sep, req |-> NoReq, timeout |-> FALSE,
     req_queue |-> <<>>, prio_queue |-> <<>>, pending_open |-> NoSep,
     dc_timer |-> FALSE, stream_setup |-> FALSE, refused |-> FALSE, connects |-> 0,
     auth |-> 0, uaf |-> FALSE, halted |-> "no"]

avdtp_get_internal(s) ==
    IF s.ref # 0 THEN {s}
    ELSE LET new == [FreshSession(s.sep) EXCEPT !.uaf = s.uaf]
         IN  {new, [new EXCEPT !.connects = s.connects, !.auth = s.auth]}

\* A handler goes on after a callback: the session must still be there.
Touch(s) == [s EXCEPT !.uaf = @ \/ s.ref = 0]

-----------------------------------------------------------------------------
(* Reference count and disconnect timer.                                   *)

remove_disconnect_timer(s) ==
    [s EXCEPT !.dc_timer = FALSE, !.stream_setup = FALSE]

\* A timer that is armed already is removed first, and stream_setup with it.
set_disconnect_timer(s) ==
    [s EXCEPT !.dc_timer = TRUE, !.stream_setup = IF s.dc_timer THEN FALSE ELSE @,
              !.refused = FALSE]

\* Mutant: the disconnect timer outlives the session.
FreeSession_KeepTimer(s) ==
    [s EXCEPT !.ref = 0, !.io = FALSE, !.req = NoReq, !.timeout = FALSE,
              !.req_queue = <<>>, !.prio_queue = <<>>, !.pending_open = NoSep,
              !.seps = FALSE, !.discov_cb = FALSE, !.refused = FALSE]

\* The freeing half of avdtp_unref(): timer, watch, pending request and
\* queues go with the session; a socket that is still open stays open.
FreeSession(s) ==
    [s EXCEPT !.ref = 0, !.sock = @ /\ ~s.stale, !.stale = FALSE,
              !.dc_timer = FALSE, !.stream_setup = FALSE,
              !.io = FALSE, !.req = NoReq, !.timeout = FALSE,
              !.req_queue = <<>>, !.prio_queue = <<>>, !.pending_open = NoSep,
              !.seps = FALSE, !.discov_cb = FALSE, !.refused = FALSE]

\* Mutants: a session that is not connected is freed even under the lock of
\* connection_lost(); a reference to a connected session is not given back.
avdtp_unref_NoLock(s) ==
    IF s.ref = 0 THEN s
    ELSE IF s.ref > 2 THEN [s EXCEPT !.ref = @ - 1]
    ELSE IF s.ref = 2 /\ s.sock THEN set_disconnect_timer([s EXCEPT !.ref = 1])
    ELSE FreeSession(s)
avdtp_unref_Leak(s) ==
    IF s.ref < 2 THEN FreeSession(s) ELSE IF s.sock THEN set_disconnect_timer(s)
    ELSE FreeSession(s)

\* A connect that is not through yet is given up with the last user.
CloseConnecting(s) ==
    IF s.state = "CONNECTING" THEN [s EXCEPT !.sock = FALSE, !.stale = FALSE] ELSE s

avdtp_unref(s) ==
    LET dropped == [s EXCEPT !.ref = @ - 1]
        left == IF dropped.ref = 1 THEN CloseConnecting(dropped) ELSE dropped
    IN  IF s.ref = 0 THEN s
        ELSE IF left.ref = 0 THEN FreeSession(left)
        ELSE IF left.ref > 1 THEN left
        ELSE IF left.sock THEN set_disconnect_timer(left)
        ELSE IF left.free_lock THEN left
        ELSE FreeSession(left)

avdtp_ref(s) ==
    LET t == [s EXCEPT !.ref = @ + 1, !.held = @ + 1, !.refused = FALSE]
    IN  IF t.dc_timer THEN remove_disconnect_timer(t) ELSE t

\* A user gives up references until it has h of them left.  When the count
\* does not cover them all it reaches 0 on the way, and the calls that remain
\* are for a session that is not in the list.
UserUnref(s, h) ==
    LET drop == s.held - h
        user == [s EXCEPT !.held = h]
    IN  IF s.ref = 0 THEN user
        ELSE IF s.ref > drop THEN avdtp_unref([user EXCEPT !.ref = @ - (drop - 1)])
        ELSE FreeSession(IF s.ref > 1 THEN CloseConnecting(user) ELSE user)

\* What the users do in a callback: keep their references or drop some, or
\* take another one for the stream they are told of.
Callback(s) == {s} \cup {UserUnref(s, h) : h \in 0..(s.held - 1)}
UserRef(s) == IF s.held < MaxHeld THEN {s, avdtp_ref(s)} ELSE {s}

-----------------------------------------------------------------------------
(* Streams.                                                                *)

\* stream_free(): the end point forgets the stream and what it owned; the
\* state of the end point and the idle timer are the caller's business.
stream_free(e) ==
    [IdleSep EXCEPT !.state = e.state, !.idle_timer = e.idle_timer]

\* The pointers to streams that leave the list: the pending request's is
\* cleared, those of queued requests are left behind.
ClearReq(r, S) == IF r.sep \in S /\ r.ptr = "live" THEN [r EXCEPT !.ptr = "null"] ELSE r
Dangle(q, S) ==
    [i \in 1..Len(q) |-> IF q[i].sep \in S /\ q[i].ptr = "live"
                         THEN [q[i] EXCEPT !.ptr = "dangling"] ELSE q[i]]

\* Mutants: pending_open still names a freed stream; nothing is armed when
\* the last stream of an unreferenced session goes.
ReleaseStreams_KeepPending(s, S) ==
    [s EXCEPT !.streams = @ \ S,
              !.sep = [p \in SEP |-> IF p \in S THEN IdleSep ELSE s.sep[p]],
              !.req = ClearReq(@, S),
              !.dc_timer = @ \/ (s.ref = 1 /\ s.streams \subseteq S)]
ReleaseStreams_NoTimer(s, S) ==
    [s EXCEPT !.streams = @ \ S,
              !.sep = [p \in SEP |-> IF p \in S THEN IdleSep ELSE s.sep[p]],
              !.pending_open = IF @ \in S THEN NoSep ELSE @,
              !.req = ClearReq(@, S)]

\* The IDLE case of avdtp_sep_set_state(), for the streams S: unlink and free.
ReleaseStreams(s, S) ==
    LET t == [s EXCEPT
                !.streams = @ \ S,
                !.sep = [p \in SEP |->
                    IF p \in S THEN stream_free([s.sep[p] EXCEPT !.idle_timer = FALSE])
                               ELSE s.sep[p]],
                !.pending_open = IF @ \in S THEN NoSep ELSE @,
                !.req = ClearReq(@, S),
                !.req_queue = Dangle(@, S),
                !.prio_queue = Dangle(@, S)]
    IN  IF t.ref = 1 /\ t.streams = {} THEN set_disconnect_timer(t) ELSE t

\* The part of avdtp_sep_set_state() that follows the stream callbacks.
StateEntered(s, p, st) ==
    IF st \in {"STREAMING", "CLOSING", "ABORTING"}
      THEN [s EXCEPT !.sep[p].idle_timer = FALSE]
    ELSE IF st = "IDLE" /\ p \in s.streams THEN ReleaseStreams(s, {p})
    ELSE s

avdtp_sep_set_state(s, p, st) ==
    LET t == [s EXCEPT !.sep[p].state = st]
    IN  {StateEntered(Touch(u), p, st) :
            u \in IF t.sep[p].stream THEN Callback(t) ELSE {t}}

-----------------------------------------------------------------------------
(* Losing the connection.                                                  *)

finalize_discovery(s) ==
    IF s.discov_cb THEN {[Touch(t) EXCEPT !.discov_cb = FALSE] : t \in Callback(s)}
                   ELSE {s}

\* release_stream() for every stream of the list: the abort confirmation and
\* the state callbacks, which only drop references, then all are IDLE and free.
ReleaseAll(s) ==
    {ReleaseStreams([Touch(t) EXCEPT
        !.sep = [p \in SEP |-> IF p \in t.streams
                               THEN [t.sep[p] EXCEPT !.state = "IDLE"]
                               ELSE t.sep[p]]], t.streams) : t \in Callback(s)}

\* Mutants: the reference is dropped whoever holds one; the streams stay.
connection_lost_AlwaysUnref(s) ==
    {avdtp_unref([Touch(t) EXCEPT !.sock = FALSE, !.io = FALSE,
                                  !.state = "DISCONNECTED"]) : t \in ReleaseAll(s)}
connection_lost_KeepStreams(s) ==
    {IF s.ref # 1 THEN [s EXCEPT !.sock = FALSE, !.io = FALSE, !.state = "DISCONNECTED"]
     ELSE FreeSession([s EXCEPT !.sock = FALSE])}

connection_lost(s) ==
    LET locked == [s EXCEPT !.free_lock = TRUE]
        quiet == UNION {IF t.streams = {} THEN {t} ELSE ReleaseAll(t) :
                            t \in finalize_discovery(locked)}
        down(t) == [Touch(t) EXCEPT !.free_lock = FALSE, !.sock = FALSE, !.stale = FALSE,
                                    !.state = "DISCONNECTED", !.io = FALSE]
    IN  {IF t.ref # 1 THEN down(t) ELSE avdtp_unref(down(t)) : t \in quiet}

-----------------------------------------------------------------------------
(* Requests.  send_req() gives the session and whether it returned 0.      *)

\* The signalling socket is there and has not been closed behind its back.
Usable(s) == s.sock /\ ~s.stale

NewReq(sig, p) ==
    [signal |-> sig, sep |-> p, ptr |-> IF p = NoSep THEN "null" ELSE "live"]

queue_request(s, priority, r) ==
    IF priority THEN [s EXCEPT !.prio_queue = Append(@, r)]
                ELSE [s EXCEPT !.req_queue = Append(@, r)]

send_req(s, priority, r) ==
    IF s.state = "DISCONNECTED"
      THEN {[s |-> s, ok |-> FALSE],
            [s |-> queue_request([s EXCEPT !.connects = @ + 1], priority, r),
             ok |-> TRUE]}
    ELSE IF s.state = "CONNECTING" \/ s.req # NoReq
      THEN {[s |-> queue_request(s, priority, r), ok |-> TRUE]}
    ELSE {[s |-> s, ok |-> FALSE]} \cup
         (IF Usable(s) THEN {[s |-> [s EXCEPT !.req = r, !.timeout = TRUE], ok |-> TRUE]}
                       ELSE {})

process_queue(s) ==
    IF s.req # NoReq \/ (s.prio_queue = <<>> /\ s.req_queue = <<>>) THEN {s}
    ELSE IF s.prio_queue # <<>>
      THEN {x.s : x \in send_req([s EXCEPT !.prio_queue = Tail(@)], FALSE,
                                 Head(s.prio_queue))}
    ELSE {x.s : x \in send_req([s EXCEPT !.req_queue = Tail(@)], FALSE,
                               Head(s.req_queue))}

\* Bounds of the model: the users add requests only below them.
Room(s) ==
    /\ Len(s.req_queue) + Len(s.prio_queue) < MaxQueue
    /\ s.connects < MaxConnects
Asks(s, S) == IF Room(s) THEN S ELSE {}

-----------------------------------------------------------------------------
(* The API the users call on a stream of the session.                      *)

StreamRequest(s, p, sig, from) ==
    IF p \in s.streams /\ s.sep[p].state \in from
    THEN send_req(s, FALSE, NewReq(sig, p))
    ELSE {[s |-> s, ok |-> FALSE]}

avdtp_open(s, p) ==
    {x.s : x \in StreamRequest(s, p, "OPEN", {"IDLE", "CONFIGURED"})}

avdtp_start(s, p) == {x.s : x \in StreamRequest(s, p, "START", {"OPEN"})}

avdtp_reconfigure(s, p) == {x.s : x \in StreamRequest(s, p, "RECONF", {"OPEN"})}

avdtp_suspend(s, p) ==
    {x.s : x \in StreamRequest(s, p, "SUSPEND",
                               {"STREAMING", "CLOSING", "ABORTING"})}

avdtp_close(s, p) ==
    {IF x.ok THEN [x.s EXCEPT !.sep[p].close_int = TRUE] ELSE x.s :
        x \in StreamRequest(s, p, "CLOSE",
                            {"OPEN", "STREAMING", "CLOSING", "ABORTING"})}

avdtp_abort(s, p) ==
    UNION {IF x.ok THEN avdtp_sep_set_state(x.s, p, "ABORTING") ELSE {x.s} :
        x \in StreamRequest(s, p, "ABORT", {"STREAMING", "CLOSING", "ABORTING"})}

avdtp_get_configuration(s, p) ==
    IF s.state # "CONNECTED" THEN {s}
    ELSE {x.s : x \in send_req(s, FALSE, NewReq("GETCONF", p))}

\* A failed send frees the new stream, which also clears the end point.
avdtp_set_configuration(s, p) ==
    IF s.state # "CONNECTED" THEN {s}
    ELSE {IF x.ok
          THEN [x.s EXCEPT !.sep[p].inuse = TRUE, !.sep[p].stream = TRUE,
                           !.streams = @ \cup {p}]
          ELSE [x.s EXCEPT !.sep[p] = stream_free(@)] :
            x \in send_req(s, FALSE, NewReq("SETCONF", p))}

\* The end points a user can configure: avdtp_get_seps() skips those in use,
\* a2dp_source_config() those that are not IDLE.
Configurable(s) == {p \in SEP : ~s.sep[p].inuse /\ s.sep[p].state = "IDLE"}

\* discov_cb() of the users: a sink goes on to configure a stream.
DiscoveryCallback(s) ==
    Callback(s) \cup Asks(s, UNION {avdtp_set_configuration(t, p) :
                                       t \in UserRef(s), p \in Configurable(s)})

avdtp_discover(s) ==
    IF s.discov_cb THEN {s}
    ELSE IF s.seps THEN DiscoveryCallback(s)
    ELSE {IF x.ok THEN [x.s EXCEPT !.discov_cb = TRUE] ELSE x.s :
            x \in send_req(s, FALSE, NewReq("DISCOVER", NoSep))}

-----------------------------------------------------------------------------
(* Transport and signalling connections.                                   *)

handle_transport_connect(s) ==
    LET p == s.pending_open
        t == [s EXCEPT !.pending_open = NoSep, !.sep[p].timer = "none",
                       !.sep[p].sock = TRUE]
        cfm == IF t.sep[p].open_acp THEN {t}
               ELSE Callback(t) \cup Asks(t, avdtp_close(t, p))
    IN  IF p \notin s.streams THEN {[s EXCEPT !.pending_open = NoSep]}
        ELSE {[u EXCEPT !.sep[p].io = TRUE] :
                u \in UNION {avdtp_sep_set_state(Touch(v), p, "OPEN") : v \in cfm}}

\* outcome: connected, connect error, or getsockopt() error.
l2cap_connect_cb(s, outcome) ==
    LET done == [s EXCEPT !.connects = @ - 1]
        up == IF done.state = "DISCONNECTED"
              THEN [done EXCEPT !.sock = TRUE, !.stale = FALSE, !.state = "CONNECTING"] ELSE done
        failed(t) ==
            IF t.pending_open # NoSep
            THEN {[Touch(u) EXCEPT !.pending_open = NoSep] :
                     u \in avdtp_sep_set_state(t, t.pending_open, "IDLE")}
            ELSE connection_lost(t)
    IN  IF outcome = "error" THEN failed(done)
        ELSE IF outcome = "sockopt" THEN failed(up)
        ELSE IF up.state = "CONNECTING"
          THEN process_queue([up EXCEPT !.state = "CONNECTED", !.io = TRUE])
        ELSE IF up.pending_open # NoSep
          THEN UNION {process_queue(Touch(t)) : t \in handle_transport_connect(up)}
        ELSE failed(up)

auth_cb(s, granted) ==
    IF ~granted THEN connection_lost([s EXCEPT !.auth = @ - 1])
    ELSE {[set_disconnect_timer([s EXCEPT !.auth = @ - 1, !.stream_setup = TRUE])
              EXCEPT !.state = "CONNECTED", !.io = TRUE]}

\* service_req_auth() fails: the device is gone, the service is not registered
\* or the agent is busy.  A reference is dropped, the session's own if nobody
\* holds it and a user's otherwise, and the new connection is closed; a session
\* that survives keeps the number of its descriptor.
AuthError(new) ==
    LET t == avdtp_unref([new EXCEPT !.robbed = IF new.ref > 1 THEN @ + 1 ELSE @])
    IN  [t EXCEPT !.sock = @ /\ t.ref # 0, !.stale = t.sock /\ t.ref # 0]

\* Asked: the authorization waits for the user, behind any it has not answered.
Incoming(t) ==
    LET new == [t EXCEPT !.sock = TRUE, !.stale = FALSE, !.io = TRUE]
    IN  IF t.pending_open # NoSep /\ t.sep[t.pending_open].open_acp
          THEN handle_transport_connect(t)
        ELSE IF t.sock THEN {t}
        ELSE UNION {CASE a = "granted" -> auth_cb([new EXCEPT !.auth = @ + 1], TRUE)
                      [] a = "error" -> {AuthError(new)}
                      [] a = "asked" /\ new.auth < MaxAuths ->
                            {[new EXCEPT !.auth = @ + 1]}
                      [] OTHER -> {} : a \in Auth}

avdtp_server_cb(s) == UNION {Incoming(t) : t \in avdtp_get_internal(s)}

-----------------------------------------------------------------------------
(* Commands of the remote device.  Each gives the session and whether the  *)
(* handler returned TRUE; sending the reply may fail.                      *)

Replied(S) == {[s |-> t, ok |-> b] : t \in S, b \in BOOLEAN}
Accepted(S) == {[s |-> t, ok |-> TRUE] : t \in S}
Failed(S) == {[s |-> t, ok |-> FALSE] : t \in S}

\* ind->set_configuration() may refuse the capabilities; a refused or unsent
\* stream is freed again.
avdtp_setconf_cmd(s, p) ==
    IF s.sep[p].stream THEN Replied({s})
    ELSE Replied({s})
         \cup Failed({[t EXCEPT !.sep[p] = stream_free(@)] : t \in UserRef(s)})
         \cup Accepted(UNION {avdtp_sep_set_state(
                  [t EXCEPT !.sep[p].stream = TRUE, !.streams = @ \cup {p}],
                  p, "CONFIGURED") : t \in UserRef(s)})

avdtp_open_cmd(s, p) ==
    IF s.sep[p].state # "CONFIGURED" THEN Replied({s})
    ELSE Failed({s})
         \cup Accepted({[s EXCEPT !.sep[p].open_acp = TRUE,
                                  !.sep[p].timer = "open", !.pending_open = p]})

avdtp_start_cmd(s, p) ==
    IF ~s.sep[p].stream \/ s.sep[p].state # "OPEN" THEN Replied({s})
    ELSE Replied(UNION {avdtp_sep_set_state(t, p, "STREAMING") : t \in UserRef(s)})

avdtp_suspend_cmd(s, p) ==
    IF ~s.sep[p].stream \/ s.sep[p].state # "STREAMING" THEN Replied({s})
    ELSE Replied(UNION {avdtp_sep_set_state(Touch(t), p, "OPEN") : t \in Callback(s)})

\* Mutant: nothing watches over the peer closing the transport.
avdtp_close_cmd_NoTimer(s, p) ==
    IF ~s.sep[p].stream \/ s.sep[p].state \notin {"OPEN", "STREAMING"}
    THEN Replied({s}) ELSE Replied(avdtp_sep_set_state(s, p, "CLOSING"))

avdtp_close_cmd(s, p) ==
    IF ~s.sep[p].stream \/ s.sep[p].state \notin {"OPEN", "STREAMING"}
    THEN Replied({s})
    ELSE LET closing == avdtp_sep_set_state(s, p, "CLOSING")
         IN  Failed(closing)
             \cup Accepted({[t EXCEPT !.sep[p].timer = "close"] : t \in closing})

avdtp_abort_cmd(s, p) ==
    IF ~s.sep[p].stream THEN Replied({s})
    ELSE Failed({s}) \cup Accepted(avdtp_sep_set_state(s, p, "ABORTING"))

\* "other" is a command that is answered and changes nothing: DISCOVER, GETCAP,
\* GETCONF, RECONF and unknown ones.
PeerCommand == {"SETCONF", "OPEN", "START", "SUSPEND", "CLOSE", "ABORT", "other"}

avdtp_parse_cmd(s, cmd, p) ==
    CASE cmd = "SETCONF" -> avdtp_setconf_cmd(s, p)
      [] cmd = "OPEN" -> avdtp_open_cmd(s, p)
      [] cmd = "START" -> avdtp_start_cmd(s, p)
      [] cmd = "SUSPEND" -> avdtp_suspend_cmd(s, p)
      [] cmd = "CLOSE" -> avdtp_close_cmd(s, p)
      [] cmd = "ABORT" -> avdtp_abort_cmd(s, p)
      [] OTHER -> Replied({s})

\* The command branch of session_cb().
AfterCommand(s) ==
    IF s.ref = 1 /\ s.streams = {} THEN set_disconnect_timer(s)
    ELSE IF s.streams # {} /\ s.dc_timer THEN remove_disconnect_timer(s)
    ELSE s

HandleCommand(s, cmd, p) ==
    UNION {IF x.ok THEN {AfterCommand(Touch(x.s))} ELSE connection_lost(Touch(x.s)) :
              x \in avdtp_parse_cmd(s, cmd, p)}

-----------------------------------------------------------------------------
(* Responses of the remote device to the pending request.                  *)

\* The stream a request's pointer finds in the list: a dangling pointer finds
\* none, or a stream allocated since at the same address.
Resolve(s, r) ==
    CASE r.ptr = "null" -> {NoSep}
      [] r.ptr = "live" -> {IF r.sep \in s.streams THEN r.sep ELSE NoSep}
      [] OTHER -> s.streams \cup {NoSep}

\* One GET_CAPABILITIES per end point listed; they queue behind the DISCOVER.
avdtp_discover_resp(s) ==
    Accepted({[s EXCEPT !.seps = @ \/ n > 0,
                        !.prio_queue = @ \o [i \in 1..n |-> NewReq("GETCAP", NoSep)]] :
                n \in 0..MaxRemoteSeps})

avdtp_get_capabilities_resp(s) ==
    LET queue == s.prio_queue \o s.req_queue
        more == queue # <<>> /\ Head(queue).signal = "GETCAP"
    IN  Failed({s})
        \cup Accepted(IF more \/ ~s.discov_cb THEN {s}
                      ELSE {[Touch(t) EXCEPT !.discov_cb = FALSE] :
                               t \in DiscoveryCallback(s)})

\* setconf_cfm() takes a reference for a new sink stream and opens it.
avdtp_set_configuration_resp(s, p) ==
    LET cfm == Callback(s) \cup Asks(s, UNION {avdtp_open(t, p) : t \in UserRef(s)})
    IN  Accepted(UNION {avdtp_sep_set_state(Touch(t), p, "CONFIGURED") : t \in cfm})

avdtp_open_resp(s, p) ==
    IF p = NoSep THEN Accepted({[s EXCEPT !.halted = "null"]})
    ELSE Failed(avdtp_sep_set_state(s, p, "IDLE"))
         \cup Accepted({[s EXCEPT !.connects = @ + 1, !.pending_open = p]})

\* start_cfm() closes the stream when the setup was canceled.
avdtp_start_resp(s, p) ==
    Accepted(UNION {avdtp_sep_set_state(Touch(t), p, "STREAMING") :
                        t \in Callback(s) \cup Asks(s, avdtp_close(s, p))})

avdtp_close_resp(s, p) ==
    Accepted({[t EXCEPT !.sep[p].sock = FALSE] :
                t \in avdtp_sep_set_state(s, p, "CLOSING")})

\* suspend_cfm() starts the stream again when a start was asked meanwhile.
avdtp_suspend_resp(s, p) ==
    LET idle == {[t EXCEPT !.sep[p].idle_timer = TRUE] :
                    t \in avdtp_sep_set_state(s, p, "OPEN")}
    IN  Accepted(UNION {Callback(Touch(t)) \cup Asks(t, avdtp_start(Touch(t), p)) : t \in idle})

avdtp_abort_resp(s, p) ==
    Accepted(UNION {avdtp_sep_set_state(Touch(t), p, "IDLE") : t \in Callback(s)})

avdtp_parse_resp(s, sig, p) ==
    CASE sig = "DISCOVER" -> avdtp_discover_resp(s)
      [] sig = "GETCAP" -> avdtp_get_capabilities_resp(s)
      [] sig = "OPEN" -> avdtp_open_resp(s, p)
      [] sig = "SETCONF" /\ p # NoSep -> avdtp_set_configuration_resp(s, p)
      [] sig = "START" /\ p # NoSep -> avdtp_start_resp(s, p)
      [] sig = "CLOSE" /\ p # NoSep -> avdtp_close_resp(s, p)
      [] sig = "SUSPEND" /\ p # NoSep -> avdtp_suspend_resp(s, p)
      [] sig = "ABORT" /\ p # NoSep -> avdtp_abort_resp(s, p)
      [] OTHER -> Accepted({s})   \* RECONF, GETCONF, or no stream

\* A reject too small to hold its error fails; the others are confirmed.
avdtp_parse_rej(s, sig, p) ==
    Failed({s})
    \cup Accepted(IF p # NoSep /\ sig # "GETCONF" THEN Callback(s) ELSE {s})

\* The response branch of session_cb(); a message of any other type only
\* completes the request.  A failed handler leaves req set, with no timer.
HandleResponse(s, type) ==
    LET t == [s EXCEPT !.timeout = FALSE]
        parsed == UNION {CASE type = "ACCEPT" -> avdtp_parse_resp(t, t.req.signal, p)
                           [] type = "REJECT" -> avdtp_parse_rej(t, t.req.signal, p)
                           [] OTHER -> Accepted({t}) : p \in Resolve(t, t.req)}
    IN  UNION {IF x.ok THEN process_queue([Touch(x.s) EXCEPT !.req = NoReq])
                       ELSE connection_lost(Touch(x.s)) : x \in parsed}

\* The request is confirmed with an error and its stream, found again by its
\* remote id, aborted; SETCONF, DISCOVER, GETCAP and ABORT end the connection.
request_timeout(s) ==
    LET p == IF s.req.sep \in s.streams THEN s.req.sep ELSE NoSep
        sig == s.req.signal
        t == [s EXCEPT !.req = NoReq, !.timeout = FALSE]
        cfm == IF p # NoSep /\ sig \notin {"GETCONF", "ABORT"} THEN Callback(t) ELSE {t}
    IN  IF sig \in {"SETCONF", "DISCOVER", "GETCAP", "ABORT"}
        THEN UNION {connection_lost(Touch(u)) : u \in cfm}
        ELSE UNION {IF x.ok THEN {x.s} ELSE connection_lost(x.s) :
                x \in UNION {send_req(Touch(u), TRUE, NewReq("ABORT", p)) : u \in cfm}}

-----------------------------------------------------------------------------
(* Transport events and stream and session timers.                         *)

transport_cb(s, p) ==
    UNION {avdtp_sep_set_state([Touch(t) EXCEPT !.sep[p].io = FALSE], p, "IDLE") :
              t \in IF s.sep[p].close_int THEN Callback(s) ELSE {s}}

stream_open_timeout(s, p) ==
    avdtp_abort([s EXCEPT !.sep[p].timer = "none", !.pending_open = NoSep], p)

stream_close_timeout(s, p) ==
    {[s EXCEPT !.sep[p].timer = "none", !.sep[p].sock = FALSE]}

stream_timeout(s, p) == {[s EXCEPT !.sep[p].idle_timer = FALSE]}

\* sink_setup_stream() does nothing when the sink has a connect or disconnect
\* of its own pending, else it takes a reference and starts a discovery.
sink_setup_stream(s) ==
    {[s EXCEPT !.refused = TRUE]}
    \cup (IF s.held < MaxHeld THEN avdtp_discover(avdtp_ref(s)) ELSE {})

disconnect_timeout(s) ==
    LET t == [s EXCEPT !.dc_timer = FALSE, !.stream_setup = FALSE]
    IN  IF s.ref # 1 THEN {[s EXCEPT !.halted = "assert"]}
        ELSE connection_lost(t) \cup (IF s.stream_setup THEN sink_setup_stream(t) ELSE {})

-----------------------------------------------------------------------------
(* The steps of the main loop.                                             *)

Alive == session.ref > 0

\* Nothing undefined has happened: no failed assertion or NULL stream, no freed
\* session used, none freed that a user or a stream still points to.
Running ==
    /\ session.halted = "no" /\ ~session.uaf
    /\ session.held > 0 \/ session.streams # {} => Alive

Init == session = [FreshSession([p \in SEP |-> IdleSep]) EXCEPT !.ref = 0]

Get ==
    /\ Running /\ session.held < MaxHeld
    /\ session' \in {avdtp_ref(s) : s \in avdtp_get_internal(session)}

\* A user that holds a reference calls the API.
User == Running /\ session.held > 0

Unref == User /\ session' = UserUnref(session, session.held - 1)
UserAsks(sig) == User /\ Room(session) /\ sig \in Requests

Discover == UserAsks("DISCOVER") /\ session' \in avdtp_discover(session)
SetConfiguration(p) ==
    /\ UserAsks("SETCONF") /\ session.seps /\ p \in Configurable(session)
    /\ session' \in avdtp_set_configuration(session, p)
GetConfiguration(p) ==
    /\ UserAsks("GETCONF") /\ p \in session.streams
    /\ session' \in avdtp_get_configuration(session, p)
Open(p) == UserAsks("OPEN") /\ session' \in avdtp_open(session, p)
Start(p) == UserAsks("START") /\ session' \in avdtp_start(session, p)
Reconfigure(p) == UserAsks("RECONF") /\ session' \in avdtp_reconfigure(session, p)
Suspend(p) == UserAsks("SUSPEND") /\ session' \in avdtp_suspend(session, p)
Close(p) == UserAsks("CLOSE") /\ session' \in avdtp_close(session, p)
Abort(p) == UserAsks("ABORT") /\ session' \in avdtp_abort(session, p)

\* A callback for a session that is gone only finds that out.
ConnectDone(outcome) ==
    /\ Running /\ session.connects > 0
    /\ session' \in IF Alive THEN l2cap_connect_cb(session, outcome)
                    ELSE {[session EXCEPT !.connects = @ - 1]}
AuthDone(granted) ==
    /\ Running /\ session.auth > 0
    /\ session' \in IF Alive THEN auth_cb(session, granted)
                    ELSE {[session EXCEPT !.auth = @ - 1]}
ServerConnect == Running /\ session' \in avdtp_server_cb(session)

\* The watch of the signalling socket; it reads once CONNECTED.
Readable == Running /\ session.io /\ Usable(session) /\ session.state = "CONNECTED"

Command(cmd, p) == Readable /\ session' \in HandleCommand(session, cmd, p)
Response(type) ==
    /\ Readable /\ session.req # NoReq /\ session.connects < MaxConnects
    /\ session' \in HandleResponse(session, type)
SessionHup == Running /\ session.io /\ Usable(session) /\ session' \in connection_lost(session)
SessionNval ==
    /\ Running /\ session.io /\ ~Usable(session)
    /\ session' = [session EXCEPT !.io = FALSE]

\* The watch of a transport socket: the peer hangs up, or the descriptor has
\* been closed here and is no longer valid.
TransportHup(p) ==
    /\ Running /\ session.sep[p].io /\ session.sep[p].sock
    /\ session' \in transport_cb(session, p)
TransportNval(p) ==
    /\ Running /\ session.sep[p].io /\ ~session.sep[p].sock
    /\ session' \in transport_cb(session, p)

StreamOpenTimeout(p) ==
    /\ Running /\ session.sep[p].timer = "open" /\ Room(session)
    /\ session' \in stream_open_timeout(session, p)
StreamCloseTimeout(p) ==
    /\ Running /\ session.sep[p].timer = "close"
    /\ session' \in stream_close_timeout(session, p)
StreamTimeout(p) ==
    /\ Running /\ session.sep[p].idle_timer
    /\ session' \in stream_timeout(session, p)
RequestTimeout ==
    /\ Running /\ session.timeout /\ session.connects < MaxConnects
    /\ session' \in request_timeout(session)
DisconnectTimeout ==
    /\ Running /\ session.dc_timer /\ Room(session)
    /\ session' \in disconnect_timeout(session)

UserStep ==
    \/ Get \/ Unref \/ Discover
    \/ \E p \in SEP : \/ SetConfiguration(p) \/ GetConfiguration(p) \/ Open(p)
                      \/ Start(p) \/ Reconfigure(p) \/ Suspend(p) \/ Close(p)
                      \/ Abort(p)
LinkStep ==
    \/ \E outcome \in {"ok", "error", "sockopt"} : ConnectDone(outcome)
    \/ \E granted \in BOOLEAN : AuthDone(granted)
    \/ ServerConnect \/ SessionHup \/ SessionNval
    \/ \E p \in SEP : TransportHup(p) \/ TransportNval(p)
PeerStep ==
    \/ \E cmd \in PeerCommand, p \in SEP : Command(cmd, p)
    \/ \E type \in {"ACCEPT", "REJECT", "OTHER"} : Response(type)
TimerStep ==
    \/ \E p \in SEP : StreamOpenTimeout(p) \/ StreamCloseTimeout(p) \/ StreamTimeout(p)
    \/ RequestTimeout \/ DisconnectTimeout

Next == UserStep \/ LinkStep \/ PeerStep \/ TimerStep
Spec == Init /\ [][Next]_session

\* The main loop dispatches an invalid descriptor and an elapsed timer.
Fairness ==
    \A p \in SEP : /\ WF_session(TransportNval(p))
                   /\ WF_session(StreamCloseTimeout(p))
FairSpec == Spec /\ Fairness

-----------------------------------------------------------------------------
(* Properties.                                                             *)

\* Every field of the session stays in its range; the reference count never
\* exceeds what the users hold plus the session's own reference (avdtp_ref and
\* avdtp_unref calls balance over any number of reconnects).
TypeOK == session \in Session

\* The reference count is exact: one reference of the session's own plus those
\* the users hold, whichever handlers, timeouts and lost connections have run,
\* less one for every authorization request that failed on a session in use;
\* and a session is never freed while a user holds it, unless such a failure
\* took that user's reference (avdtp_unref, connection_lost, avdtp_server_cb).
RefExact ==
    IF Alive THEN session.ref + session.robbed = session.held + 1
             ELSE session.held <= session.robbed

\* No handler goes on using a session that a callback it made has freed: the
\* users may drop every reference in any confirmation, stream-state or
\* discovery callback (free_lock and the socket keep the session).
NoUseAfterFree == ~session.uaf

\* The session's list of streams, the local end points and the pointers into
\* the list agree: an end point has a stream iff it is listed, one without has
\* no timer, watch, socket or state left, and pending_open and the pending
\* request only point to listed streams (avdtp_sep_set_state, stream_free).
StreamTable ==
    /\ \A p \in SEP : /\ p \in session.streams <=> session.sep[p].stream
                      /\ p \notin session.streams => session.sep[p] = IdleSep
    /\ session.pending_open \in session.streams \cup {NoSep}
    /\ session.req.ptr = "live" => session.req.sep \in session.streams

\* A freed session leaves nothing behind that fires or points to it: no
\* stream, watch, socket, disconnect or request timer (avdtp_unref).
ReclaimedClean ==
    ~Alive => /\ session.streams = {}
              /\ ~session.io /\ ~session.sock /\ ~session.dc_timer /\ ~session.timeout

\* A session nobody holds is never forgotten: its disconnect timer runs, a
\* stream or an authorization keeps it, or a busy sink has just refused it
\* (avdtp_unref, session_cb, avdtp_sep_set_state, disconnect_timeout).
Unreferenced ==
    Alive /\ session.held = 0 /\ Running =>
        session.dc_timer \/ session.streams # {} \/ session.auth > 0 \/ session.refused

\* No stream outlives the signalling connection it was set up over
\* (connection_lost releases them all; a new one needs a connected session).
StreamsLinked == session.streams # {} => session.sock

\* A stream with a transport that starts closing leaves CLOSING: its peer
\* closes the transport, or the close timer does, and the dead descriptor is
\* noticed (avdtp_close_cmd, avdtp_close_resp, stream_close_timeout,
\* transport_cb).
CloseEnds ==
    \A p \in SEP : (session.sep[p].state = "CLOSING" /\ session.sep[p].io)
                   ~> (session.sep[p].state # "CLOSING" \/ ~Running)

\* What disconnect_timeout() asserts: the disconnect timer only runs on a
\* session that no user holds.
RefAssertion == session.halted # "assert"
=============================================================================
