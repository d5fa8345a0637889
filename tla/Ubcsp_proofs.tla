---------------------------- MODULE Ubcsp_proofs ----------------------------
(***************************************************************************)
(* Proofs about Ubcsp: for every number of sequence numbers, every set of  *)
(* payloads and any number of restarts.                                    *)
(***************************************************************************)
EXTENDS Ubcsp, TLAPS

\* What is clocked out of one engine is its host's current packet.
Current(s) ==
    s.frame # None /\ s.frame.packet # None /\ s.send # None =>
        s.frame.packet = s.send /\ s.frame.seq = s.seq

\* An engine with its types and a current frame: what every operation keeps.
Sound(s) == s \in Engine /\ Current(s)

\* Sequence numbers are numbers, and the next one is one too.
LEMMA SeqType == 0 \in 0..(SEQ - 1) /\ \A n \in 0..(SEQ - 1) : Succ(n) \in 0..(SEQ - 1)
BY SeqAssumption DEF Succ

\* The other end is an end.
LEMMA OtherEnd == \A e \in End : Other(e) \in End /\ Other(e) # e
BY EndAssumption DEF Other

\* The frames that link establishment and damage produce.
LEMMA FrameType ==
    /\ Bad \in Frame
    /\ \A p \in LePacket : LeFrame(p) \in Frame /\ LeFrame(p).packet = None
BY SeqType DEF Bad, LeFrame, Frame, LePacket

\* A new process starts sound.
LEMMA FreshSound == Sound(Fresh)
BY SeqType DEF Sound, Current, Fresh, Engine, LePacket, uninitialized

\* Taking an acknowledgement ends the packet it is for.
LEMMA TakeAckSound ==
    ASSUME NEW s, Sound(s), NEW f \in Frame PROVE Sound(TakeAck(s, f))
BY SeqType, ZenonT(30) DEF Sound, Current, TakeAck, Engine

\* A peer reset drops the frame.
LEMMA InitializeSound ==
    ASSUME NEW s, Sound(s), NEW r \in BOOLEAN
    PROVE  Sound([ubcsp_initialize(s) EXCEPT !.ready = r])
BY SeqType, Zenon DEF Sound, Current, ubcsp_initialize, Engine, LePacket, uninitialized

\* No link establishment message disturbs a frame, except by dropping it.
LEMMA ReceiveLeSound ==
    ASSUME NEW s, Sound(s), NEW p \in LePacket, NEW r \in BOOLEAN
    PROVE  Sound(ReceiveLe(s, p, r))
<1>1. CASE p = "sync"
  <2>1. CASE s.state < active
    <3>1. ReceiveLe(s, p, r) = [s EXCEPT !.resp = 1]
      BY <1>1, <2>1 DEF ReceiveLe
    <3> QED
      BY <3>1 DEF Sound, Current, Engine
  <2>2. CASE ~(s.state < active)
    <3>1. ReceiveLe(s, p, r) = [ubcsp_initialize(s) EXCEPT !.ready = r]
      BY <1>1, <2>2 DEF ReceiveLe
    <3> QED
      BY <3>1, InitializeSound
  <2> QED
    BY <2>1, <2>2
<1>2. CASE p = "sync_resp"
  <2>1. ReceiveLe(s, p, r) =
          [s EXCEPT !.state = IF s.state < initialized THEN initialized ELSE s.state]
    BY <1>2 DEF ReceiveLe
  <2> QED
    BY <2>1 DEF Sound, Current, Engine, initialized
<1>3. CASE p = "conf"
  <2>1. ReceiveLe(s, p, r) = [s EXCEPT !.resp = IF s.state >= initialized THEN 2 ELSE s.resp]
    BY <1>3 DEF ReceiveLe
  <2> QED
    BY <2>1 DEF Sound, Current, Engine
<1>4. CASE p = "conf_resp"
  <2>1. CASE s.state < active
    <3>1. ReceiveLe(s, p, r) = [s EXCEPT !.state = active, !.frame = None, !.ready = TRUE]
      BY <1>4, <2>1 DEF ReceiveLe
    <3> QED
      BY <3>1, Zenon DEF Sound, Current, Engine, active
  <2>2. CASE ~(s.state < active)
    <3>1. ReceiveLe(s, p, r) = s
      BY <1>4, <2>2 DEF ReceiveLe
    <3> QED
      BY <3>1
  <2> QED
    BY <2>1, <2>2
<1> QED
  BY <1>1, <1>2, <1>3, <1>4 DEF LePacket

\* A payload does not disturb a frame.
LEMMA ReceivePacketSound ==
    ASSUME NEW s, Sound(s), NEW f \in Frame, f.packet # None
    PROVE  Sound(ReceivePacket(s, f))
<1>1. f.packet \in Packet /\ f.seq \in 0..(SEQ - 1)
  BY DEF Frame
<1>2. CASE s.state # active
  BY <1>2 DEF ReceivePacket
<1>3. CASE s.state = active /\ ~f.packet.reliable
  <2>1. ReceivePacket(s, f) = [s EXCEPT !.got = f.packet]
    BY <1>3 DEF ReceivePacket
  <2> QED
    BY <1>1, <2>1 DEF Sound, Current, Engine
<1>4. CASE s.state = active /\ f.packet.reliable /\ f.seq # s.ack
  <2>1. ReceivePacket(s, f) = [s EXCEPT !.send_ack = TRUE]
    BY <1>4 DEF ReceivePacket
  <2> QED
    BY <2>1, Zenon DEF Sound, Current, Engine
<1>5. CASE s.state = active /\ f.packet.reliable /\ f.seq = s.ack
  <2>1. ReceivePacket(s, f) =
          [s EXCEPT !.send_ack = TRUE, !.got = f.packet, !.ack = Succ(s.ack)]
    BY <1>5 DEF ReceivePacket
  <2>2. Succ(s.ack) \in 0..(SEQ - 1)
    BY SeqType DEF Sound, Engine
  <2> QED
    BY <1>1, <2>1, <2>2, ZenonT(30) DEF Sound, Current, Engine
<1> QED
  BY <1>2, <1>3, <1>4, <1>5

\* No received frame disturbs the one being sent, except by dropping it.
LEMMA ReceivedSound ==
    ASSUME NEW s, Sound(s), NEW f \in Frame
    PROVE  Sound(ubcsp_recevied_packet(s, f))
<1>1. Sound(TakeAck(s, f))
  BY TakeAckSound
<1>2. s.ready \in BOOLEAN
  BY DEF Sound, Engine
<1>3. CASE f.le = "bad"
  <2>1. f.le \notin LePacket
    BY <1>3 DEF LePacket
  <2>2. ubcsp_recevied_packet(s, f) = [s EXCEPT !.send_ack = TRUE]
    BY <1>3, <2>1 DEF ubcsp_recevied_packet
  <2> QED
    BY <2>2, Zenon DEF Sound, Current, Engine
<1>4. CASE f.le \in LePacket
  <2>1. f.le # "bad" /\ f.le # "none"
    BY <1>4 DEF LePacket
  <2>2. ubcsp_recevied_packet(s, f) = ReceiveLe(TakeAck(s, f), f.le, s.ready)
    BY <1>4, <2>1 DEF ubcsp_recevied_packet
  <2> QED
    BY <1>1, <1>2, <1>4, <2>2, ReceiveLeSound
<1>5. CASE f.le = "none"
  <2>1. f.le \notin LePacket
    BY <1>5 DEF LePacket
  <2>2. ubcsp_recevied_packet(s, f) =
          IF f.packet = None THEN TakeAck(s, f) ELSE ReceivePacket(TakeAck(s, f), f)
    BY <1>5, <2>1 DEF ubcsp_recevied_packet
  <2> QED
    BY <1>1, <2>2, ReceivePacketSound
<1> QED
  BY <1>3, <1>4, <1>5 DEF Frame

\* After its last octet there is no frame.
LEMMA SentSound ==
    ASSUME NEW s, Sound(s) PROVE Sound([ubcsp_sent_packet(s) EXCEPT !.frame = None])
<1>1. CASE s.send # None /\ ~s.send.reliable
  <2>1. ubcsp_sent_packet(s) = [s EXCEPT !.send = None, !.ready = TRUE]
    BY <1>1 DEF ubcsp_sent_packet
  <2> QED
    BY <2>1, Zenon DEF Sound, Current, Engine
<1>2. CASE ~(s.send # None /\ ~s.send.reliable)
  <2>1. ubcsp_sent_packet(s) = s
    BY <1>2 DEF ubcsp_sent_packet
  <2> QED
    BY <2>1 DEF Sound, Current, Engine
<1> QED
  BY <1>1, <1>2

\* The next link establishment message is one, or none.
LEMMA NextLeType ==
    ASSUME NEW st \in {uninitialized, initialized, active}, NEW r \in 0..2
    PROVE  next_le_packet(st, r) \in LePacket \cup {"none"}
<1>1. r = 0 \/ r = 1 \/ r = 2
  OBVIOUS
<1>2. CASE st = 0
  BY <1>1, <1>2 DEF next_le_packet, LePacket
<1>3. CASE st = 1
  BY <1>1, <1>3 DEF next_le_packet, LePacket
<1>4. CASE st = 2
  BY <1>1, <1>4 DEF next_le_packet, LePacket
<1> QED
  BY <1>2, <1>3, <1>4 DEF uninitialized, initialized, active

\* The start of a link establishment frame.
LEMMA StartLeSound ==
    ASSUME NEW s, Sound(s), NEW f \in Frame, f.packet = None,
           NEW p \in LePacket \cup {"none"}
    PROVE  Sound([s EXCEPT !.frame = f, !.packet = p, !.resp = 0])
<1> DEFINE t == [s EXCEPT !.frame = f]
           u == [t EXCEPT !.packet = p]
           v == [u EXCEPT !.resp = 0]
<1>1. t \in Engine /\ t.frame = f
  BY DEF Sound, Engine
<1>2. u \in Engine /\ u.frame = f
  <2> HIDE DEF t
  <2> QED
    BY <1>1 DEF Engine
<1>3. v \in Engine /\ v.frame = f
  <2> HIDE DEF u
  <2> QED
    BY <1>2 DEF Engine
<1> QED
  BY <1>3, Zenon DEF Sound, Current

-----------------------------------------------------------------------------
(* Steps.                                                                  *)

\* The inductive invariant: sound engines and frames on the lines.
Inv == TypeOK /\ FrameCurrent

\* A step of one engine to a sound state.
LEMMA StepSound ==
    ASSUME Inv, NEW e \in End, NEW s, Sound(s), ends' = [ends EXCEPT ![e] = s]
    PROVE  ends' \in [End -> Engine] /\ FrameCurrent'
<1>1. s \in Engine /\ Current(s)
  BY DEF Sound
<1>2. ends' \in [End -> Engine]
  BY <1>1 DEF Inv, TypeOK
<1>3. \A o \in End : ends'[o] = IF o = e THEN s ELSE ends[o]
  BY DEF Inv, TypeOK
<1>4. \A o \in End : Current(ends[o])
  BY DEF Inv, FrameCurrent, Current
<1>5. \A o \in End : Current(ends'[o])
  BY <1>1, <1>3, <1>4
<1> QED
  BY <1>2, <1>5 DEF FrameCurrent, Current

\* Cutting a frame off leaves frames on the lines.
LEMMA CutOffType ==
    ASSUME NEW e \in End, NEW s, NEW l \in [End -> Seq(Frame)], NEW m \in CutOff(e, s, l)
    PROVE  m \in [End -> Seq(Frame)]
<1>1. Other(e) \in End
  BY OtherEnd
<1>2. Append(l[Other(e)], Bad) \in Seq(Frame)
  BY <1>1, FrameType
<1>3. m = l \/ m = [l EXCEPT ![Other(e)] = Append(l[Other(e)], Bad)]
  BY DEF CutOff
<1> QED
  BY <1>1, <1>2, <1>3, Zenon

\* So does flushing a port, on either line.
LEMMA FlushType ==
    ASSUME NEW l \in Seq(Frame), NEW cut \in BOOLEAN
    PROVE  Unread(l) \subseteq Seq(Frame) /\ Written(l, cut) \subseteq Seq(Frame)
<1>1. ASSUME NEW m \in 1..(Len(l) + 1), NEW n \in 0..Len(l)
      PROVE  SubSeq(l, m, n) \in Seq(Frame)
  OBVIOUS
<1>2. Bad \in Frame /\ <<Bad>> \in Seq(Frame) /\ Len(l) \in Nat
  BY FrameType
<1>3. ASSUME NEW n \in 0..Len(l)
      PROVE  /\ SubSeq(l, n + 1, Len(l)) \in Seq(Frame)
             /\ <<Bad>> \o SubSeq(l, n + 1, Len(l)) \in Seq(Frame)
             /\ SubSeq(l, 1, n) \in Seq(Frame)
             /\ Append(SubSeq(l, 1, n), Bad) \in Seq(Frame)
  <2>1. n + 1 \in 1..(Len(l) + 1) /\ Len(l) \in 0..Len(l) /\ 1 \in 1..(Len(l) + 1)
    BY <1>2
  <2> DEFINE b == SubSeq(l, n + 1, Len(l))
             h == SubSeq(l, 1, n)
  <2>2. b \in Seq(Frame) /\ h \in Seq(Frame)
    BY <1>1, <2>1
  <2> HIDE DEF b, h
  <2>3. <<Bad>> \o b \in Seq(Frame) /\ Append(h, Bad) \in Seq(Frame)
    BY <1>2, <2>2
  <2> QED
    BY <2>2, <2>3 DEF b, h
<1>4. Unread(l) \subseteq Seq(Frame)
  <2>1. 1..Len(l) \subseteq 0..Len(l)
    BY <1>2
  <2> QED
    BY <1>3, <2>1, Zenon DEF Unread
<1>5. Written(l, cut) \subseteq Seq(Frame)
  <2> DEFINE last == IF cut /\ Len(l) < MaxLine THEN Len(l) ELSE Len(l) - 1
  <2>1. 0..last \subseteq 0..Len(l)
    BY <1>2
  <2>2. Written(l, cut) = {SubSeq(l, 1, n) : n \in 0..Len(l)}
                          \cup {Append(SubSeq(l, 1, n), Bad) : n \in 0..last}
    BY Zenon DEF Written
  <2> HIDE DEF last
  <2> QED
    BY <1>3, <2>1, <2>2, Zenon
<1> QED
  BY <1>4, <1>5

\* So does the end of a frame, whatever the line makes of it.
LEMMA FinishInv ==
    ASSUME Inv, NEW e \in End, NEW fs \in Seq(Frame), Finish(e, fs) PROVE Inv'
<1>1. Sound(ends[e]) /\ Other(e) \in End
  BY OtherEnd DEF Inv, TypeOK, FrameCurrent, Sound, Current
<1>2. ends' \in [End -> Engine] /\ FrameCurrent'
  <2>1. Sound([ubcsp_sent_packet(ends[e]) EXCEPT !.frame = None])
    BY <1>1, SentSound
  <2> QED
    BY <2>1, StepSound, Zenon DEF Finish
<1>3. line' \in [End -> Seq(Frame)]
  <2>1. line[Other(e)] \o fs \in Seq(Frame)
    BY <1>1 DEF Inv, TypeOK
  <2> QED
    BY <1>1, <2>1 DEF Inv, TypeOK, Finish
<1> QED
  BY <1>2, <1>3, Zenon DEF Inv, TypeOK, Finish

\* Every step keeps the invariant: one case per action.
LEMMA NextInv == ASSUME Inv, [Next]_vars PROVE Inv'
<1>1. SUFFICES ASSUME Next PROVE Inv'
  BY DEF vars, Inv, TypeOK, FrameCurrent
<1>2. PICK e \in End :
        \/ Start(e) \/ Arrive(e) \/ Damage(e) \/ Receive(e)
        \/ \E p \in Packet : ubcsp_send_packet(e, p)
        \/ ubcsp_receive_packet(e) \/ Restart(e)
  BY <1>1 DEF Next
<1>3. Sound(ends[e]) /\ ends[e] \in Engine
  BY DEF Inv, TypeOK, FrameCurrent, Sound, Current
<1>15. Other(e) \in End
  BY OtherEnd
<1>4. ASSUME NEW s, Sound(s), Step(e, s) PROVE Inv'
  <2>1. ends' \in [End -> Engine] /\ FrameCurrent'
    BY <1>4, StepSound, Zenon DEF Step
  <2> QED
    BY <1>4, <2>1, Zenon DEF Step, Inv, TypeOK
<1>5. CASE StartLe(e)
  <2> DEFINE p == next_le_packet(ends[e].state, ends[e].resp)
             fr == LeFrame(ends[e].packet)
  <2>1. p \in LePacket \cup {"none"}
    BY <1>3, NextLeType DEF Engine
  <2>2. fr \in Frame /\ fr.packet = None
    BY <1>3, <1>5, FrameType DEF Engine, StartLe
  <2>3. Step(e, [ends[e] EXCEPT !.frame = fr, !.packet = p, !.resp = 0])
    BY <1>5 DEF StartLe
  <2> HIDE DEF p, fr
  <2>4. Sound([ends[e] EXCEPT !.frame = fr, !.packet = p, !.resp = 0])
    BY <1>3, <2>1, <2>2, StartLeSound, Zenon
  <2> QED
    BY <1>4, <2>3, <2>4
<1>6. CASE StartConfResp(e)
  <2> DEFINE fr == LeFrame("conf_resp")
  <2>1. fr \in Frame /\ fr.packet = None
    BY FrameType DEF LePacket
  <2>2. Step(e, [ends[e] EXCEPT !.frame = fr, !.resp = 0])
    BY <1>6 DEF StartConfResp
  <2> HIDE DEF fr
  <2>3. Sound([ends[e] EXCEPT !.frame = fr, !.resp = 0])
    <3>1. ends[e].packet \in LePacket \cup {"none"}
      BY <1>3, Zenon DEF Engine
    <3>2. Sound([ends[e] EXCEPT !.frame = fr, !.packet = ends[e].packet, !.resp = 0])
      BY <1>3, <2>1, <3>1, StartLeSound, Zenon
    <3>3. [ends[e] EXCEPT !.frame = fr, !.packet = ends[e].packet, !.resp = 0] =
            [ends[e] EXCEPT !.frame = fr, !.resp = 0]
      BY <1>3, Zenon DEF Engine
    <3> QED
      BY <3>2, <3>3
  <2> QED
    BY <1>4, <2>2, <2>3
<1>7. CASE StartPacket(e)
  <2> DEFINE fr == [le |-> "none", ack |-> ends[e].ack, seq |-> ends[e].seq,
                    packet |-> ends[e].send]
  <2>1. fr \in Frame /\ fr.packet = ends[e].send /\ fr.seq = ends[e].seq
    BY <1>3 DEF Engine, Frame
  <2>2. Step(e, [ends[e] EXCEPT !.frame = fr, !.send_ack = FALSE])
    BY <1>7, Zenon DEF StartPacket
  <2> HIDE DEF fr
  <2>3. Sound([ends[e] EXCEPT !.frame = fr, !.send_ack = FALSE])
    BY <1>3, <2>1, Zenon DEF Sound, Current, Engine
  <2> QED
    BY <1>4, <2>2, <2>3
<1>8. CASE StartAck(e)
  <2> DEFINE fr == [le |-> "none", ack |-> ends[e].ack, seq |-> 0, packet |-> None]
  <2>1. fr \in Frame /\ fr.packet = None
    BY <1>3, SeqType DEF Engine, Frame
  <2>2. Step(e, [ends[e] EXCEPT !.frame = fr, !.send_ack = FALSE])
    BY <1>8, Zenon DEF StartAck
  <2> HIDE DEF fr
  <2>3. Sound([ends[e] EXCEPT !.frame = fr, !.send_ack = FALSE])
    BY <1>3, <2>1, ZenonT(30) DEF Sound, Current, Engine
  <2> QED
    BY <1>4, <2>2, <2>3
<1>9. CASE Arrive(e)
  <2>1. <<ends[e].frame>> \in Seq(Frame)
    <3>1. ends[e].frame \in Frame
      BY <1>3, <1>9 DEF Arrive, Finish, Engine
    <3> QED
      BY <3>1
  <2> QED
    BY <1>9, <2>1, FinishInv, Zenon DEF Arrive
<1>10. CASE Damage(e)
  <2>1. <<Bad>> \in Seq(Frame) /\ <<>> \in Seq(Frame)
    BY FrameType
  <2> QED
    BY <1>10, <2>1, FinishInv, Zenon DEF Damage
<1>11. CASE Receive(e)
  <2> DEFINE f == Head(line[e])
             s == ubcsp_recevied_packet(ends[e], f)
             l == [line EXCEPT ![e] = Tail(line[e])]
  <2>1. line[e] \in Seq(Frame) /\ line[e] # <<>>
    BY <1>11 DEF Receive, Inv, TypeOK
  <2>2. f \in Frame /\ Tail(line[e]) \in Seq(Frame)
    BY <2>1
  <2>3. Sound(s)
    BY <1>3, <2>2, ReceivedSound
  <2>4. l \in [End -> Seq(Frame)]
    BY <2>2 DEF Inv, TypeOK
  <2>5. ends' = [ends EXCEPT ![e] = s] /\ line' \in CutOff(e, s, l) /\ restarts' = restarts
    BY <1>11 DEF Receive
  <2>7. taken' \in SUBSET End
    <3>1. taken' \subseteq taken \cup {Other(e)}
      BY <1>11, Zenon DEF Receive, Handed
    <3> QED
      BY <1>15, <3>1 DEF Inv, TypeOK
  <2> HIDE DEF s, l
  <2>6. line' \in [End -> Seq(Frame)]
    BY <2>4, <2>5, CutOffType
  <2>8. ends' \in [End -> Engine] /\ FrameCurrent'
    BY <2>3, <2>5, StepSound, Zenon
  <2> QED
    BY <2>5, <2>6, <2>7, <2>8, Zenon DEF Inv, TypeOK
<1>12. ASSUME NEW p \in Packet, ubcsp_send_packet(e, p) PROVE Inv'
  <2> DEFINE s == [ends[e] EXCEPT !.send = p, !.frame = None, !.ready = FALSE]
  <2>1. Sound(s)
    BY <1>3, Zenon DEF Sound, Current, Engine
  <2>2. ends' = [ends EXCEPT ![e] = s] /\ line' \in CutOff(e, s, line)
        /\ restarts' = restarts /\ taken' = taken \ {e}
    BY <1>12 DEF ubcsp_send_packet
  <2> HIDE DEF s
  <2>3. line' \in [End -> Seq(Frame)]
    BY <2>2, CutOffType DEF Inv, TypeOK
  <2>4. ends' \in [End -> Engine] /\ FrameCurrent'
    BY <2>1, <2>2, StepSound, Zenon
  <2> QED
    BY <2>2, <2>3, <2>4 DEF Inv, TypeOK
<1>13. CASE ubcsp_receive_packet(e)
  <2>1. Sound([ends[e] EXCEPT !.got = None])
    BY <1>3 DEF Sound, Current, Engine
  <2> QED
    BY <1>4, <1>13, <2>1 DEF ubcsp_receive_packet
<1>14. CASE Restart(e)
  <2>1. ends' \in [End -> Engine] /\ FrameCurrent'
    BY <1>14, FreshSound, StepSound, Zenon DEF Restart
  <2>2. PICK i \in Unread(line[e]), o \in Written(line[Other(e)], ends[e].frame # None) :
          line' = [line EXCEPT ![e] = i, ![Other(e)] = o]
    BY <1>14, Zenon DEF Restart
  <2>3. i \in Seq(Frame) /\ o \in Seq(Frame)
    <3>1. line[e] \in Seq(Frame) /\ line[Other(e)] \in Seq(Frame)
      BY <1>15 DEF Inv, TypeOK
    <3> QED
      BY <2>2, <3>1, FlushType, Zenon
  <2>4. line' \in [End -> Seq(Frame)]
    BY <1>15, <2>2, <2>3, Zenon DEF Inv, TypeOK
  <2>5. restarts' \in 0..MaxRestarts
    BY <1>14, BoundsAssumption DEF Restart, Inv, TypeOK
  <2>6. taken' \in SUBSET End
    BY <1>14 DEF Restart, Inv, TypeOK
  <2> QED
    BY <2>1, <2>4, <2>5, <2>6, Zenon DEF Inv, TypeOK
<1> QED
  BY <1>2, <1>5, <1>6, <1>7, <1>8, <1>9, <1>10, <1>11, <1>12, <1>13, <1>14 DEF Start

\* The invariant holds in every reachable state.
LEMMA AlwaysInv == Spec => []Inv
<1>1. Init => Inv
  BY FreshSound, BoundsAssumption DEF Init, Inv, TypeOK, FrameCurrent, Sound, Current
<1>2. Inv /\ [Next]_vars => Inv'
  BY NextInv
<1> QED
  BY <1>1, <1>2, PTL DEF Spec

\* Engines and lines keep their types (struct ubcsp_configuration), whatever is
\* lost, damaged or left over from before a restart.
THEOREM LinkTypes == Spec => []TypeOK
<1>1. Inv => TypeOK
  BY DEF Inv
<1> QED
  BY <1>1, AlwaysInv, PTL

\* No acknowledgement, reset or restart lets a frame go on from a packet that
\* its host has replaced (send_ptr against send_packet).
THEOREM FramesAreCurrent == Spec => []FrameCurrent
<1>1. Inv => FrameCurrent
  BY DEF Inv
<1> QED
  BY <1>1, AlwaysInv, PTL
=============================================================================
