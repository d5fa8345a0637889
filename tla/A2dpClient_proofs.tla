------------------------- MODULE A2dpClient_proofs --------------------------
(***************************************************************************)
(* Proofs about A2dpClient: for every set of sinks and every clock, the    *)
(* descriptors follow the state and no stream starts on a configuration in *)
(* doubt.                                                                  *)
(***************************************************************************)
EXTENDS A2dpClient, TLAPS

USE AddressAssumption, ClockAssumption, SpuriousAssumption

\* Where the thread is decides which transient state the data is in.
PcState ==
    /\ thread.pc \in {"getcaps", "setconf"} <=> data.state = "CONFIGURING"
    /\ thread.pc = "start" <=> data.state = "STARTING"
    /\ thread.pc = "stop" <=> data.state = "STOPPING"
    /\ data.freed => thread.pc = "done"

\* The address a2dp_set_sink() is copying is a sink's.
SinkKnown == client.pc = "sink" => client.sink \in Sinks

\* The inductive invariant: the two properties hold of the transient states
\* too, and only the thread that is in the middle of an exchange leaves them.
Inv == TypeOK /\ PcState /\ SinkKnown /\ DescriptorsOwned /\ StartedConfigured

\* Waking a waiting thread keeps its type.
LEMMA SignalType ==
    /\ thread \in Thread =>
          /\ signal(thread) \in Thread
          /\ \/ signal(thread).pc = thread.pc
             \/ thread.pc = "wait" /\ signal(thread).pc = "woken"
    /\ client \in Client =>
          /\ signal(client) \in Client
          /\ SinkKnown => (signal(client).pc = "sink" => signal(client).sink \in Sinks)
BY DEF signal, Thread, Client, SinkKnown

\* Init establishes the invariant.
LEMMA InitInv == Init => Inv
<1> SUFFICES ASSUME Init PROVE Inv
  OBVIOUS
<1>1. data \in Data
  BY DEF Init, Data, State, Command, Address
<1>2. thread \in Thread
  BY DEF Init, Thread, Command
<1>3. client \in Client
  BY DEF Init, Client, State
<1> QED
  BY <1>1, <1>2, <1>3
     DEF Init, Inv, TypeOK, PcState, SinkKnown, DescriptorsOwned, StartedConfigured

\* Every step of the client keeps it: the client touches only the address and
\* the command.
LEMMA ClientInv == Inv /\ ClientStep => Inv'
<1> SUFFICES ASSUME Inv, ClientStep PROVE Inv'
  OBVIOUS
<1> USE DEF Inv, TypeOK, PcState, SinkKnown, DescriptorsOwned, StartedConfigured
<1>1. ASSUME NEW cmd \in Command, set_command(cmd)
      PROVE  /\ data' \in Data /\ thread' \in Thread
             /\ PcState' /\ DescriptorsOwned' /\ StartedConfigured'
  BY <1>1, SignalType DEF set_command, Data, Thread, State
<1>2. {"CONFIGURE", "START", "STOP", "QUIT"} \subseteq Command
  BY DEF Command
<1>3. ASSUME NEW a \in Sinks, SetSink(a) PROVE Inv'
  <2>1. data' \in Data
    BY <1>3 DEF SetSink, Data, Address
  <2>2. client' \in Client /\ SinkKnown'
    BY <1>3 DEF SetSink, Client
  <2>3. /\ data'.state = data.state /\ data'.stream = data.stream
        /\ data'.server = data.server /\ data'.freed = data.freed
        /\ data'.conf = data.conf /\ thread' = thread
    BY <1>3 DEF SetSink, Data
  <2> QED
    BY <2>1, <2>2, <2>3
<1>4. CASE SinkCopied
  <2>1. data' \in Data
    BY <1>4 DEF SinkCopied, Data, Address
  <2>2. client' \in Client /\ SinkKnown'
    BY <1>4 DEF SinkCopied, Client
  <2>3. /\ data'.state = data.state /\ data'.stream = data.stream
        /\ data'.server = data.server /\ data'.freed = data.freed
        /\ data'.conf = data.conf /\ thread' = thread
    BY <1>4 DEF SinkCopied, Data
  <2> QED
    BY <2>1, <2>2, <2>3
<1>5. CASE SinkCommand
  <2>1. client' \in Client /\ SinkKnown'
    BY <1>5 DEF SinkCommand, Client
  <2> QED
    BY <1>1, <1>2, <1>5, <2>1 DEF SinkCommand
<1>6. CASE Stop
  BY <1>1, <1>2, <1>6 DEF Stop
<1>7. CASE Cleanup
  <2>1. client' \in Client /\ SinkKnown'
    BY <1>7 DEF Cleanup, Client
  <2> QED
    BY <1>1, <1>2, <1>7, <2>1 DEF Cleanup
<1>8. ASSUME NEW usec \in Usecs, Write(usec) PROVE Inv'
  <2>1. (usec + (WRITE_TIMEOUT % 1000) * 1000) * 1000 \in Nat
    <3>1. usec \in Nat
      BY ClockAssumption
    <3>2. WRITE_TIMEOUT % 1000 \in Nat
      BY DEF WRITE_TIMEOUT
    <3> QED
      BY <3>1, <3>2
  <2> DEFINE n == (usec + (WRITE_TIMEOUT % 1000) * 1000) * 1000
             c == [client EXCEPT !.pc = "loop", !.state = data.state, !.expired = FALSE,
                                 !.err = "", !.nsec = n]
  <2>2. n \in Nat
    BY <2>1
  <2> HIDE DEF n
  <2>3. data.state \in State
    BY DEF Data
  <2>4. c \in Client
    BY <2>2, <2>3 DEF Client
  <2>5. client' \in Client /\ SinkKnown'
    BY <1>8, <2>4 DEF Write, n
  <2> QED
    BY <1>8, <2>5 DEF Write
<1>9. CASE WaitLoop
  <2>1. client' \in Client /\ SinkKnown'
    BY <1>9 DEF WaitLoop, Client
  <2>2. CASE UNCHANGED <<data, thread>>
    BY <2>1, <2>2
  <2>3. CASE set_command("CONFIGURE") \/ set_command("START")
    BY <1>1, <1>2, <2>1, <2>3
  <2> QED
    BY <1>9, <2>2, <2>3 DEF WaitLoop
<1>10. CASE TimedWait \/ Deadline \/ TimedOut \/ Woken \/ Encode
  <2>1. client' \in Client /\ SinkKnown'
    <3>1. CASE TimedWait
      BY <3>1 DEF TimedWait, Client
    <3>2. CASE Deadline
      BY <3>2 DEF Deadline, Client
    <3>3. CASE TimedOut
      BY <3>3 DEF TimedOut, Client
    <3>4. CASE Woken
      <4>1. data.state \in State
        BY DEF Data
      <4> QED
        BY <3>4, <4>1 DEF Woken, Client
    <3>5. CASE Encode
      BY <3>5 DEF Encode, Client
    <3> QED
      BY <1>10, <3>1, <3>2, <3>3, <3>4, <3>5
  <2> QED
    BY <1>10, <2>1 DEF TimedWait, Deadline, TimedOut, Woken, Encode
<1> QED
  BY <1>3, <1>4, <1>5, <1>6, <1>7, <1>8, <1>9, <1>10 DEF ClientStep, WriteStep

\* Every step of the library's thread keeps it.
LEMMA ThreadInv == Inv /\ ThreadStep => Inv'
<1> SUFFICES ASSUME Inv, ThreadStep PROVE Inv'
  OBVIOUS
<1> USE DEF Inv, TypeOK, PcState, SinkKnown, DescriptorsOwned, StartedConfigured
<1>1. CASE ThreadWait
  BY <1>1 DEF ThreadWait, Thread
<1>2. CASE ThreadWoken
  BY <1>2 DEF ThreadWoken, Thread, Data
<1>3. ASSUME NEW pc, pc \in {"top", "switch", "getcaps", "setconf", "start", "stop", "done"},
             thread' = [thread EXCEPT !.pc = pc]
      PROVE  thread' \in Thread /\ thread'.pc = pc
  BY <1>3 DEF Thread
<1>4. CASE Dispatch
  <2>1. thread' \in Thread /\ thread'.pc = "switch"
    BY <1>3, <1>4 DEF Dispatch
  <2>2. CASE UNCHANGED data
    BY <1>4, <2>1, <2>2 DEF Dispatch
  <2>3. CASE data.state = "NONE" /\ data' = [data EXCEPT !.server = TRUE, !.state = "INITIALIZED"]
    <3>1. data' \in Data
      BY <2>3, Zenon DEF Data, State
    <3>2. /\ data'.state = "INITIALIZED" /\ data'.server = TRUE
          /\ data'.stream = data.stream /\ data'.freed = data.freed
      BY <2>3 DEF Data
    <3> QED
      BY <1>4, <2>1, <2>3, <3>1, <3>2 DEF Dispatch
  <2> QED
    BY <1>4, <2>2, <2>3 DEF Dispatch
<1>5. CASE SwitchStop \/ SwitchConfigure \/ SwitchStart
  <2>1. data' \in Data /\ data'.server = data.server /\ data'.conf = data.conf
            /\ data'.freed = data.freed
    BY <1>5, ZenonT(120) DEF SwitchStop, SwitchConfigure, SwitchStart, Data, State
  <2>2. CASE SwitchStop
    <3>1. data'.state = "STOPPING" /\ data'.stream = FALSE /\ client' = client
      BY <2>2 DEF SwitchStop, Data
    <3>2. thread' \in Thread /\ thread'.pc = "stop"
      BY <1>3, <2>2 DEF SwitchStop
    <3> QED
      BY <2>1, <2>2, <3>1, <3>2 DEF SwitchStop
  <2>3. CASE SwitchConfigure
    <3>1. data'.state = "CONFIGURING" /\ data'.stream = data.stream /\ client' = client
      BY <2>3 DEF SwitchConfigure, Data
    <3>2. thread' \in Thread /\ thread'.pc = "getcaps"
      BY <1>3, <2>3 DEF SwitchConfigure
    <3> QED
      BY <2>1, <2>3, <3>1, <3>2 DEF SwitchConfigure
  <2>4. CASE SwitchStart
    <3>1. data'.state = "STARTING" /\ data'.stream = data.stream /\ client' = client
      BY <2>4 DEF SwitchStart, Data
    <3>2. thread' \in Thread /\ thread'.pc = "start"
      BY <1>3, <2>4 DEF SwitchStart
    <3> QED
      BY <2>1, <2>4, <3>1, <3>2 DEF SwitchStart
  <2> QED
    BY <1>5, <2>2, <2>3, <2>4
<1>6. CASE SwitchQuit
  <2>1. /\ data' \in Data /\ data'.state = "NONE" /\ data'.server = FALSE
        /\ data'.stream = FALSE
    BY <1>6, Zenon DEF SwitchQuit, bluetooth_close, Data, State
  <2>2. thread' \in Thread /\ thread'.pc = "done"
    BY <1>3, <1>6 DEF SwitchQuit
  <2> QED
    BY <1>6, <2>1, <2>2 DEF SwitchQuit
<1>7. CASE SwitchBreak
  <2>1. thread' \in Thread /\ thread'.pc = "top"
    BY <1>3, <1>7 DEF SwitchBreak
  <2> QED
    BY <1>7, <2>1 DEF SwitchBreak
<1>8. ASSUME NEW pc \in {"getcaps", "setconf", "start", "stop"}, Broken(pc) PROVE Inv'
  <2>1. /\ data' \in Data /\ data'.state = "NONE" /\ data'.server = FALSE
        /\ data'.stream = FALSE /\ data'.freed = data.freed
    BY <1>8, Zenon DEF Broken, bluetooth_close, Data, State
  <2>2. thread' \in Thread /\ thread'.pc = "top"
    BY <1>3, <1>8 DEF Broken
  <2> QED
    BY <1>8, <2>1, <2>2 DEF Broken
\* An exchange that ends with a new state: what the state must agree with.
<1>9. ASSUME NEW d \in Data, NEW st \in {"INITIALIZED", "CONFIGURED", "STARTED"},
             set_state(d, st), thread' = [thread EXCEPT !.pc = "top"],
             d.server, ~d.freed, d.stream <=> st = "STARTED",
             st # "INITIALIZED" => d.conf # None
      PROVE  Inv'
  <2>1. /\ data' \in Data /\ data'.state = st /\ data'.server = d.server
        /\ data'.stream = d.stream /\ data'.freed = d.freed /\ data'.conf = d.conf
    BY <1>9, Zenon DEF set_state, Data, State
  <2>2. thread' \in Thread /\ thread'.pc = "top"
    BY <1>3, <1>9
  <2>3. client' \in Client /\ SinkKnown'
    BY <1>9, SignalType DEF set_state
  <2> QED
    BY <1>9, <2>1, <2>2, <2>3
<1>10. thread.pc \in {"getcaps", "setconf", "start", "stop"} =>
          data.server /\ ~data.freed /\ ~data.stream
  BY DEF Data
<1>11. CASE GetCapabilities
  <2>1. ASSUME NEW caps \in {data.address, data.caps}, thread.pc = "getcaps",
               data' = [data EXCEPT !.caps = caps],
               thread' = [thread EXCEPT !.pc = "setconf"], UNCHANGED client
        PROVE  Inv'
    <3>1. /\ data' \in Data /\ data'.state = data.state /\ data'.server = data.server
          /\ data'.stream = data.stream /\ data'.freed = data.freed
          /\ data'.conf = data.conf
      BY <2>1 DEF Data
    <3>2. thread' \in Thread /\ thread'.pc = "setconf"
      BY <1>3, <2>1
    <3> QED
      BY <2>1, <3>1, <3>2
  <2>2. CASE /\ thread.pc = "getcaps" /\ set_state(data, "INITIALIZED")
             /\ thread' = [thread EXCEPT !.pc = "top"]
    BY <1>9, <1>10, <2>2
  <2> QED
    BY <1>8, <1>11, <2>1, <2>2 DEF GetCapabilities
<1>12. CASE SetConfiguration
  <2>1. CASE /\ thread.pc = "setconf"
             /\ set_state([data EXCEPT !.conf = data.address], "CONFIGURED")
             /\ thread' = [thread EXCEPT !.pc = "top"]
    <3> DEFINE d == [data EXCEPT !.conf = data.address]
    <3>1. /\ d \in Data /\ d.server = data.server /\ d.stream = data.stream
          /\ d.freed = data.freed /\ d.conf = data.address
      BY DEF Data
    <3>2. data.address # None
      BY DEF Data, Address
    <3>3. set_state(d, "CONFIGURED")
      BY <2>1
    <3> HIDE DEF d
    <3> QED
      BY <1>9, <1>10, <2>1, <3>1, <3>2, <3>3
  <2>2. CASE /\ thread.pc = "setconf" /\ set_state(data, "INITIALIZED")
             /\ thread' = [thread EXCEPT !.pc = "top"]
    BY <1>9, <1>10, <2>2
  <2> QED
    BY <1>8, <1>12, <2>1, <2>2 DEF SetConfiguration
<1>13. CASE StartStream
  <2>1. CASE /\ thread.pc = "start" /\ set_state([data EXCEPT !.stream = TRUE], "STARTED")
             /\ thread' = [thread EXCEPT !.pc = "top"]
    <3> DEFINE d == [data EXCEPT !.stream = TRUE]
    <3>1. /\ d \in Data /\ d.server = data.server /\ d.stream = TRUE
          /\ d.freed = data.freed /\ d.conf = data.conf
      BY Zenon DEF Data
    <3>2. set_state(d, "STARTED")
      BY <2>1
    <3>3. data.conf # None
      BY <2>1
    <3> HIDE DEF d
    <3> QED
      BY <1>9, <1>10, <2>1, <3>1, <3>2, <3>3
  <2>2. CASE /\ thread.pc = "start" /\ set_state([data EXCEPT !.conf = None], "INITIALIZED")
             /\ thread' = [thread EXCEPT !.pc = "top"]
    <3> DEFINE d == [data EXCEPT !.conf = None]
    <3>1. /\ d \in Data /\ d.server = data.server /\ d.stream = data.stream
          /\ d.freed = data.freed
      BY DEF Data
    <3>2. set_state(d, "INITIALIZED")
      BY <2>2
    <3> HIDE DEF d
    <3> QED
      BY <1>9, <1>10, <2>2, <3>1, <3>2
  <2> QED
    BY <1>8, <1>13, <2>1, <2>2 DEF StartStream
<1>14. CASE StopStream
  <2>1. CASE /\ thread.pc = "stop" /\ set_state(data, "CONFIGURED")
             /\ thread' = [thread EXCEPT !.pc = "top"]
    BY <1>9, <1>10, <2>1
  <2> QED
    BY <1>8, <1>14, <2>1 DEF StopStream
<1> QED
  BY <1>1, <1>2, <1>4, <1>5, <1>6, <1>7, <1>11, <1>12, <1>13, <1>14 DEF ThreadStep

\* The invariant is inductive.
LEMMA Inductive == Spec => []Inv
<1>1. Init => Inv
  BY InitInv
<1>2. Inv /\ [Next]_vars => Inv'
  <2> SUFFICES ASSUME Inv, [Next]_vars PROVE Inv'
    OBVIOUS
  <2>1. CASE SpuriousWakeup
    BY <2>1, SignalType DEF SpuriousWakeup, Inv, TypeOK, PcState, SinkKnown, DescriptorsOwned,
                            StartedConfigured
  <2>2. CASE UNCHANGED vars
    BY <2>2 DEF vars, Inv, TypeOK, PcState, SinkKnown, DescriptorsOwned, StartedConfigured
  <2> QED
    BY <2>1, <2>2, ClientInv, ThreadInv DEF Next
<1> QED
  BY <1>1, <1>2, PTL DEF Spec

\* For any sinks, whatever the daemon and the scheduler do: the stream is open
\* exactly when STARTED and the daemon's socket exactly when not NONE
\* (bluetooth_close, bluetooth_start, bluetooth_stop, bluetooth_init).
THEOREM DescriptorsFollowState == Spec => []DescriptorsOwned
<1>1. Inv => DescriptorsOwned
  BY DEF Inv
<1> QED
  BY <1>1, Inductive, PTL

\* For any sinks: a stream only starts on a configuration accepted after the
\* last failed start (bluetooth_start's error path).
THEOREM FailedStartReconfigures == Spec => []StartedConfigured
<1>1. Inv => StartedConfigured
  BY DEF Inv
<1> QED
  BY <1>1, Inductive, PTL
=============================================================================
