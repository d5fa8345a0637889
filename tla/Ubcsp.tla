-------------------------------- MODULE Ubcsp -------------------------------
(***************************************************************************)
(* The reliable serial link of utils/tools/ubcsp.c (MicroBCSP), with an    *)
(* engine at each end of a line that corrupts and loses frames.  The code  *)
(* is polled: ubcsp_poll() puts out one octet and takes in all that have   *)
(* arrived.  Here a frame starts (its header is built), is clocked out,    *)
(* and arrives as a whole; host calls and arrivals come between.  The      *)
(* delay between frames decides when the next one starts and nothing else: *)
(* it is left to the scheduler.                                            *)
(***************************************************************************)
EXTENDS Integers, Sequences

CONSTANTS
    End,                \* the two ends
    Data,               \* payloads
    None,               \* no packet, no frame, no payload
    SEQ,                \* sequence numbers; 8 in the code (three bits)
    ReliableSenders,    \* ends whose host sends reliable packets
    UnreliableSenders,  \* ends whose host sends unreliable packets
    Patient,            \* ends whose host waits for UBCSP_PACKET_SENT before it
                        \* sends; do_command() of csr_bcsp.c does not
    Noise,              \* what the line does to frames: "damaged", "lost"
    MaxLine,            \* bound: frames on the line in each direction; one
                        \* that finds it full waits or is lost
    MaxRestarts         \* restarts of a host, together

ASSUME EndAssumption == \E a \in End, b \in End : a # b /\ End = {a, b}
ASSUME SeqAssumption == SEQ \in Nat /\ SEQ >= 2
ASSUME NoneAssumption == None \notin Data
ASSUME BoundsAssumption == MaxLine \in Nat /\ MaxRestarts \in Nat
ASSUME NoiseAssumption == Noise \subseteq {"damaged", "lost"}

VARIABLES
    ends,      \* struct ubcsp_configuration of each end, and its host
    line,      \* line[e]: frames on their way to e
    restarts,  \* number of restarts so far
    taken      \* history: the ends whose host's reliable packet, the one it
               \* is sending, the other host has been handed
vars == <<ends, line, restarts, taken>>

uninitialized == 0
initialized == 1
active == 2
LePacket == {"sync", "sync_resp", "conf", "conf_resp"}

Packet == [reliable : BOOLEAN, data : Data]

\* A frame: its header, and the link establishment message or payload in it.
\* An acknowledgement has neither.  "bad" fails a checksum or is cut short.
Frame == [le : LePacket \cup {"none", "bad"}, ack : 0..(SEQ - 1), seq : 0..(SEQ - 1),
          packet : Packet \cup {None}]

\* frame is what is being clocked out (send_ptr, send_size); got is the packet
\* in the buffer the host has back, None while the engine has the buffer
\* (receive_packet); ready tells that the host was told UBCSP_PACKET_SENT and
\* has sent nothing since.
Engine == [state : {uninitialized, initialized, active}, resp : 0..2,
           packet : LePacket \cup {"none"}, seq : 0..(SEQ - 1), ack : 0..(SEQ - 1),
           send_ack : BOOLEAN, send : Packet \cup {None}, got : Packet \cup {None},
           frame : Frame \cup {None}, ready : BOOLEAN]

Other(e) == CHOOSE o \in End : o # e
\* Mutant: the field is wider than three bits.
Succ_NoWrap(n) == n + 1
Succ(n) == (n + 1) % SEQ

Bad == [le |-> "bad", ack |-> 0, seq |-> 0, packet |-> None]

-----------------------------------------------------------------------------
(* The engine.                                                             *)

\* The state of a new process: static data is zero, ubcsp_initialize() follows.
Fresh ==
    [state |-> uninitialized, resp |-> 0, packet |-> "sync", seq |-> 0, ack |-> 0,
     send_ack |-> FALSE, send |-> None, got |-> None, frame |-> None, ready |-> FALSE]

ubcsp_initialize(s) ==
    [s EXCEPT !.ack = 0, !.seq = 0, !.frame = None,
              !.state = uninitialized, !.packet = "sync"]

\* Mutant: an initialized end does not answer a CONF.
next_le_packet_NoConfResp(state, resp) ==
    LET none == <<"sync", "conf", "none">>
        sync_resp == <<"sync_resp", "sync_resp", "none">>
        conf_resp == <<"none", "conf", "conf_resp">>
    IN  <<none, sync_resp, conf_resp>>[resp + 1][state + 1]
\* The table next_le_packet, at state + 4 * resp.
next_le_packet(state, resp) ==
    LET none == <<"sync", "conf", "none">>
        sync_resp == <<"sync_resp", "sync_resp", "none">>
        conf_resp == <<"none", "conf_resp", "conf_resp">>
    IN  <<none, sync_resp, conf_resp>>[resp + 1][state + 1]

\* The link establishment header is constant: it acknowledges 0.
LeFrame(p) == [le |-> p, ack |-> 0, seq |-> 0, packet |-> None]

\* An acknowledgement of the packet we sent, on any frame.
\* Mutant: whatever number the frame acknowledges.
TakeAck_Any(s, f) ==
    IF s.send # None /\ s.send.reliable
      THEN [s EXCEPT !.send = None, !.seq = Succ(s.seq), !.ready = TRUE]
      ELSE s
TakeAck(s, f) ==
    IF f.ack # s.seq /\ s.send # None /\ s.send.reliable
      THEN [s EXCEPT !.send = None, !.seq = Succ(s.seq), !.ready = TRUE]
      ELSE s

\* A link establishment message.  The PEER RESET that a SYNC means to an active
\* end replaces what the acknowledgement in it reported to the host.
ReceiveLe(s, p, ready) ==
    CASE p = "sync" ->
            IF s.state < active THEN [s EXCEPT !.resp = 1]
            ELSE [ubcsp_initialize(s) EXCEPT !.ready = ready]
      [] p = "sync_resp" ->
            [s EXCEPT !.state = IF s.state < initialized THEN initialized ELSE s.state]
      [] p = "conf" ->
            [s EXCEPT !.resp = IF s.state >= initialized THEN 2 ELSE s.resp]
      [] p = "conf_resp" ->
            IF s.state < active
              THEN [s EXCEPT !.state = active, !.frame = None, !.ready = TRUE]
              ELSE s

\* A packet with a payload.
\* Mutant: a retransmitted packet is not acknowledged again.
ReceivePacket_Silent(s, f) ==
    IF s.state # active THEN s
    ELSE IF ~f.packet.reliable THEN [s EXCEPT !.got = f.packet]
    ELSE IF f.seq # s.ack THEN s
    ELSE [s EXCEPT !.send_ack = TRUE, !.got = f.packet, !.ack = Succ(s.ack)]
ReceivePacket(s, f) ==
    IF s.state # active THEN s
    ELSE IF ~f.packet.reliable THEN [s EXCEPT !.got = f.packet]
    ELSE IF f.seq # s.ack THEN [s EXCEPT !.send_ack = TRUE]
    ELSE [s EXCEPT !.send_ack = TRUE, !.got = f.packet, !.ack = Succ(s.ack)]

ubcsp_recevied_packet(s, f) ==
    CASE f.le = "bad" -> [s EXCEPT !.send_ack = TRUE]
      [] f.le \in LePacket -> ReceiveLe(TakeAck(s, f), f.le, s.ready)
      [] f.le = "none" ->
            IF f.packet = None THEN TakeAck(s, f) ELSE ReceivePacket(TakeAck(s, f), f)

\* The end of a frame, whichever it was.
ubcsp_sent_packet(s) ==
    IF s.send # None /\ ~s.send.reliable THEN [s EXCEPT !.send = None, !.ready = TRUE] ELSE s

-----------------------------------------------------------------------------
(* Steps of ubcsp_poll() and calls of the host.                            *)

Step(e, s) == ends' = [ends EXCEPT ![e] = s] /\ UNCHANGED <<line, restarts, taken>>

\* Link establishment goes before everything else.
StartLe(e) ==
    LET s == ends[e] IN
    /\ s.frame = None /\ s.packet # "none"
    /\ Step(e, [s EXCEPT !.frame = LeFrame(s.packet),
                         !.packet = next_le_packet(s.state, s.resp), !.resp = 0])

StartConfResp(e) ==
    LET s == ends[e] IN
    /\ s.frame = None /\ s.packet = "none" /\ s.resp = 2
    /\ Step(e, [s EXCEPT !.frame = LeFrame("conf_resp"), !.resp = 0])

StartPacket(e) ==
    LET s == ends[e] IN
    /\ s.frame = None /\ s.packet = "none" /\ s.resp # 2 /\ s.send # None
    /\ Step(e, [s EXCEPT !.frame = [le |-> "none", ack |-> s.ack, seq |-> s.seq,
                                    packet |-> s.send],
                         !.send_ack = FALSE])

StartAck(e) ==
    LET s == ends[e] IN
    /\ s.frame = None /\ s.packet = "none" /\ s.resp # 2 /\ s.send = None /\ s.send_ack
    /\ Step(e, [s EXCEPT !.frame = [le |-> "none", ack |-> s.ack, seq |-> 0, packet |-> None],
                         !.send_ack = FALSE])

\* The last octet is out.  On the line the frame arrives, is damaged or is lost.
Finish(e, frames) ==
    LET s == ends[e] IN
    /\ s.frame # None
    /\ Len(line[Other(e)]) + Len(frames) <= MaxLine
    /\ ends' = [ends EXCEPT ![e] = [ubcsp_sent_packet(s) EXCEPT !.frame = None]]
    /\ line' = [line EXCEPT ![Other(e)] = @ \o frames]
    /\ UNCHANGED <<restarts, taken>>
Arrive(e) == Finish(e, <<ends[e].frame>>)
Damage(e) ==
    \/ "damaged" \in Noise /\ Finish(e, <<Bad>>)
    \/ "lost" \in Noise /\ Finish(e, <<>>)

\* A new state of e that drops the frame being clocked out cuts it off: what
\* the other end sees of it is damaged, or too short to be noticed.
CutOff(e, s, l) ==
    {l} \cup IF ends[e].frame # None /\ s.frame = None /\ Len(l[Other(e)]) < MaxLine
              THEN {[l EXCEPT ![Other(e)] = Append(@, Bad)]} ELSE {}

\* History: what e receives may be the packet the other host is sending.
Handed(e, s) ==
    IF s.got # None /\ s.got.reliable /\ s.got = ends[Other(e)].send
    THEN taken \cup {Other(e)} ELSE taken

Receive(e) ==
    /\ ends[e].got = None /\ line[e] # <<>>
    /\ LET s == ubcsp_recevied_packet(ends[e], Head(line[e])) IN
       /\ ends' = [ends EXCEPT ![e] = s]
       /\ line' \in CutOff(e, s, [line EXCEPT ![e] = Tail(@)])
       /\ taken' = Handed(e, s) \ (IF s.send = None THEN {e} ELSE {})
    /\ UNCHANGED restarts

\* Mutant: the frame being clocked out goes on.
ubcsp_send_packet_NoCut(e, p) ==
    /\ e \in Patient => ends[e].ready
    /\ e \in IF p.reliable THEN ReliableSenders ELSE UnreliableSenders
    /\ ends' = [ends EXCEPT ![e] = [@ EXCEPT !.send = p, !.ready = FALSE]]
    /\ taken' = taken \ {e}
    /\ UNCHANGED <<line, restarts>>
ubcsp_send_packet(e, p) ==
    /\ e \in Patient => ends[e].ready
    /\ e \in IF p.reliable THEN ReliableSenders ELSE UnreliableSenders
    /\ LET s == [ends[e] EXCEPT !.send = p, !.frame = None, !.ready = FALSE] IN
       /\ ends' = [ends EXCEPT ![e] = s]
       /\ line' \in CutOff(e, s, line)
    /\ taken' = taken \ {e}
    /\ UNCHANGED restarts

ubcsp_receive_packet(e) == ends[e].got # None /\ Step(e, [ends[e] EXCEPT !.got = None])

\* What a flush leaves of the frames to read: those that have not arrived yet.
Unread(l) ==
    {SubSeq(l, n + 1, Len(l)) : n \in 0..Len(l)}
    \cup {<<Bad>> \o SubSeq(l, n + 1, Len(l)) : n \in 1..Len(l)}

\* And of the frames written, the last of which may be cut off by the restart:
\* those that are out already.
Written(l, cut) ==
    {SubSeq(l, 1, n) : n \in 0..Len(l)}
    \cup {Append(SubSeq(l, 1, n), Bad) :
            n \in 0..(IF cut /\ Len(l) < MaxLine THEN Len(l) ELSE Len(l) - 1)}

\* The host's process starts again and flushes its port (csr_open_bcsp).
Restart(e) ==
    /\ restarts < MaxRestarts
    /\ ends' = [ends EXCEPT ![e] = Fresh]
    /\ \E i \in Unread(line[e]), o \in Written(line[Other(e)], ends[e].frame # None) :
          line' = [line EXCEPT ![e] = i, ![Other(e)] = o]
    /\ restarts' = restarts + 1
    /\ taken' = taken \ {e}

-----------------------------------------------------------------------------
(* The specification.                                                      *)

Init ==
    /\ ends = [e \in End |-> Fresh]
    /\ line = [e \in End |-> <<>>]
    /\ restarts = 0
    /\ taken = {}

Start(e) == StartLe(e) \/ StartConfResp(e) \/ StartPacket(e) \/ StartAck(e)
Next == \E e \in End :
    \/ Start(e) \/ Arrive(e) \/ Damage(e) \/ Receive(e)
    \/ \E p \in Packet : ubcsp_send_packet(e, p)
    \/ ubcsp_receive_packet(e) \/ Restart(e)

Spec == Init /\ [][Next]_vars

\* The host polls and takes its packets, and some day the line is quiet.
FairSpec ==
    /\ Spec
    /\ \A e \in End :
        /\ WF_vars(Start(e))
        /\ WF_vars(Arrive(e) \/ Damage(e))
        /\ WF_vars(Receive(e))
        /\ WF_vars(ubcsp_receive_packet(e))
    /\ <>[][\A e \in End : ~Damage(e)]_vars

-----------------------------------------------------------------------------
(* Properties.                                                             *)

\* Engines and lines keep their types (struct ubcsp_configuration).
TypeOK ==
    /\ ends \in [End -> Engine]
    /\ line \in [End -> Seq(Frame)]
    /\ restarts \in 0..MaxRestarts
    /\ taken \in SUBSET End

BothActive == \A e \in End : ends[e].state = active

\* What is clocked out is the host's current packet: no acknowledgement, reset
\* or restart lets a frame go on from a buffer that the host has replaced
\* (send_ptr against send_packet).
FrameCurrent == \A e \in End :
    LET s == ends[e] IN
    s.frame # None /\ s.frame.packet # None /\ s.send # None =>
        s.frame.packet = s.send /\ s.frame.seq = s.seq

\* What ubcsp_recevied_packet() takes for granted ("Since we only have a window
\* size of 1, if the ACK is not equal to SEQ then the packet was sent"): when an
\* acknowledgement makes it report a packet as sent while both ends are active,
\* the other end has handed that packet to its host.
AckMeansSent == [][BothActive => \A e \in End :
    (/\ ends[e].send # None /\ ends[e].send.reliable
     /\ ends'[e].send = None /\ ends'[e].state = active) => e \in taken]_vars

\* The link implements ReliableLink: each reliable packet is handed over
\* exactly once, in order, before its sender is told UBCSP_PACKET_SENT.
LinkChan == [e \in End |->
    IF ~BothActive THEN [st |-> "down", data |-> None]
    ELSE IF ends[e].send = None \/ ~ends[e].send.reliable THEN [st |-> "empty", data |-> None]
    ELSE [st |-> IF ends[Other(e)].ack = ends[e].seq THEN "accepted" ELSE "delivered",
          data |-> ends[e].send.data]]
Link == INSTANCE ReliableLink WITH chan <- LinkChan, got <- [e \in End |-> ends[e].got]
ReliableDelivery == Link!Spec

\* Both ends become active, however the messages of link establishment cross
\* and whichever of them are lost (next_le_packet).
Established == <>[]BothActive

\* A reliable packet is acknowledged in the end: the engine repeats it, and the
\* acknowledgement, until they get through.
Confirmed == \A e \in End :
    (ends[e].send # None /\ ends[e].send.reliable) ~> (ends[e].send = None)
=============================================================================
