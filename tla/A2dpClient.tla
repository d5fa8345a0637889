----------------------------- MODULE A2dpClient -----------------------------
(***************************************************************************)
(* The A2DP client library, utils/audio/liba2dp.c: an audio client calls   *)
(* a2dp_set_sink(), a2dp_write(), a2dp_stop() and a2dp_cleanup(); a thread *)
(* of the library's own carries out the commands these leave in a single   *)
(* slot, talking to the audio daemon.  The two share one mutex and two     *)
(* condition variables.  A step is what happens between two points where   *)
(* the other thread can look: a locked section, or one exchange with the   *)
(* daemon.                                                                 *)
(***************************************************************************)
EXTENDS Integers

CONSTANTS
    Sinks,    \* addresses of headsets
    AnySink,  \* the all-zero address a2dp_init() starts with
    Torn,     \* an address read while strncpy() is writing it
    None,     \* no address
    Usecs,    \* tv_usec values a write can find the clock at
    Spurious  \* whether a condition variable may wake a thread unasked

ASSUME AddressAssumption ==
    /\ {AnySink, Torn, None} \cap Sinks = {}
    /\ AnySink # Torn /\ AnySink # None /\ Torn # None
\* Microseconds and nanoseconds in a second.
Million == 1000 * 1000
Billion == 1000 * Million

ASSUME ClockAssumption == Usecs \subseteq {u \in Nat : u < Million}
ASSUME SpuriousAssumption == Spurious \in BOOLEAN

VARIABLES
    data,    \* struct bluetooth_data
    thread,  \* a2dp_thread(): where it is, and its local command
    client   \* the calling thread: where it is, and the locals of wait_for_start()
vars == <<data, thread, client>>

State == {"NONE", "INITIALIZED", "CONFIGURING", "CONFIGURED", "STARTING",
          "STARTED", "STOPPING"}
Command == {"NONE", "CONFIGURE", "START", "STOP", "QUIT"}
Address == Sinks \cup {AnySink, Torn}

\* server and stream tell whether the descriptors are open.  caps and conf are
\* the devices the SBC capabilities came from and the daemon was configured
\* for; the latter is unknown after a failed start.
Data == [state : State, command : Command, address : Address,
         server : BOOLEAN, stream : BOOLEAN, caps : Address \cup {None},
         conf : Address \cup {None}, freed : BOOLEAN]
Thread == [pc : {"top", "wait", "woken", "dispatch", "switch", "getcaps", "setconf",
                 "start", "stop", "done"}, command : Command]
Client == [pc : {"idle", "sink", "command", "loop", "lock", "wait", "woken", "encode",
                 "gone"}, sink : Sinks \cup {None}, state : State, nsec : Nat,
           expired : BOOLEAN, err : {"", "ENODEV", "ETIMEDOUT", "EINVAL"}]

\* a2dp_init(): the thread is created and has yet to run.
Init ==
    /\ data = [state |-> "NONE", command |-> "NONE", address |-> AnySink,
               server |-> FALSE, stream |-> FALSE, caps |-> None, conf |-> None,
               freed |-> FALSE]
    /\ thread = [pc |-> "top", command |-> "NONE"]
    /\ client = [pc |-> "idle", sink |-> None, state |-> "NONE", nsec |-> 0,
                 expired |-> FALSE, err |-> ""]

-----------------------------------------------------------------------------
(* Shared operations.  A signal wakes a thread that waits and is otherwise *)
(* lost.                                                                   *)

bluetooth_close(d) == [d EXCEPT !.server = FALSE, !.stream = FALSE, !.state = "NONE",
                                !.conf = None]

signal(t) == IF t.pc = "wait" THEN [t EXCEPT !.pc = "woken"] ELSE t

set_command(cmd) ==
    /\ data' = [data EXCEPT !.command = cmd]
    /\ thread' = signal(thread)

set_state(d, st) ==
    /\ data' = [d EXCEPT !.state = st]
    /\ client' = signal(client)

-----------------------------------------------------------------------------
(* The client.                                                             *)

\* a2dp_set_sink(): nothing to do for the same address; else it is copied and
\* the command follows.
SetSink(a) ==
    /\ client.pc = "idle" /\ a # data.address
    /\ data' = [data EXCEPT !.address = Torn]
    /\ client' = [client EXCEPT !.pc = "sink", !.sink = a]
    /\ UNCHANGED thread
\* Mutant: the address is copied from where it no longer is.
SinkCopied_Cleared ==
    /\ client.pc = "sink"
    /\ data' = [data EXCEPT !.address = None]
    /\ client' = [client EXCEPT !.pc = "command", !.sink = None]
    /\ UNCHANGED thread
SinkCopied ==
    /\ client.pc = "sink"
    /\ data' = [data EXCEPT !.address = client.sink]
    /\ client' = [client EXCEPT !.pc = "command", !.sink = None]
    /\ UNCHANGED thread
SinkCommand ==
    /\ client.pc = "command"
    /\ set_command("CONFIGURE")
    /\ client' = [client EXCEPT !.pc = "idle"]

Stop == client.pc = "idle" /\ set_command("STOP") /\ UNCHANGED client

Cleanup ==
    /\ client.pc = "idle" /\ set_command("QUIT")
    /\ client' = [client EXCEPT !.pc = "gone"]

\* a2dp_write() enters wait_for_start(): the deadline is WRITE_TIMEOUT away.
WRITE_TIMEOUT == 500
Write(usec) ==
    /\ client.pc = "idle"
    /\ client' = [client EXCEPT
            !.pc = "loop", !.state = data.state, !.expired = FALSE, !.err = "",
            !.nsec = (usec + (WRITE_TIMEOUT % 1000) * 1000) * 1000]
    /\ UNCHANGED <<data, thread>>

\* The head of the loop of wait_for_start(), on the state read last.
WaitLoop ==
    /\ client.pc = "loop"
    /\ \/ /\ client.state = "STARTED"
          /\ client' = [client EXCEPT !.pc = "encode"] /\ UNCHANGED <<data, thread>>
       \/ /\ client.state = "NONE"
          /\ client' = [client EXCEPT !.pc = "idle", !.err = "ENODEV"]
          /\ UNCHANGED <<data, thread>>
       \/ /\ client.state = "INITIALIZED" /\ set_command("CONFIGURE")
          /\ client' = [client EXCEPT !.pc = "lock"]
       \/ /\ client.state = "CONFIGURED" /\ set_command("START")
          /\ client' = [client EXCEPT !.pc = "lock"]
       \/ /\ client.state \in {"CONFIGURING", "STARTING", "STOPPING"}
          /\ client' = [client EXCEPT !.pc = "lock"] /\ UNCHANGED <<data, thread>>

\* Mutant: the deadline starts again with every wait.
TimedWait_Relative ==
    /\ client.pc = "lock"
    /\ client' = [client EXCEPT !.pc = "wait", !.expired = FALSE]
    /\ UNCHANGED <<data, thread>>

\* pthread_cond_timedwait(): a malformed deadline is refused, and one that
\* has passed ends the wait before it begins.
TimedWait ==
    /\ client.pc = "lock"
    /\ client' = IF client.nsec >= Billion
                   THEN [client EXCEPT !.pc = "idle", !.err = "EINVAL"]
                 ELSE IF client.expired
                   THEN [client EXCEPT !.pc = "idle", !.err = "ETIMEDOUT"]
                 ELSE [client EXCEPT !.pc = "wait"]
    /\ UNCHANGED <<data, thread>>
Deadline ==
    /\ client.pc \in {"loop", "lock", "wait", "woken"} /\ ~client.expired
    /\ client' = [client EXCEPT !.expired = TRUE]
    /\ UNCHANGED <<data, thread>>
TimedOut ==
    /\ client.pc = "wait" /\ client.expired
    /\ client' = [client EXCEPT !.pc = "idle", !.err = "ETIMEDOUT"]
    /\ UNCHANGED <<data, thread>>
Woken ==
    /\ client.pc = "woken"
    /\ client' = [client EXCEPT !.pc = "loop", !.state = data.state]
    /\ UNCHANGED <<data, thread>>

\* The rest of a2dp_write(): frames are encoded and sent; errors are ignored.
Encode ==
    /\ client.pc = "encode"
    /\ client' = [client EXCEPT !.pc = "idle"]
    /\ UNCHANGED <<data, thread>>

-----------------------------------------------------------------------------
(* a2dp_thread().  An exchange with the daemon succeeds, fails, or finds   *)
(* the daemon gone (EPIPE), which closes everything.                       *)

ThreadWait ==
    /\ thread.pc = "top"
    /\ thread' = [thread EXCEPT !.pc = "wait"]
    /\ UNCHANGED <<data, client>>
\* Mutant: the command is the one read before the wait.
ThreadWoken_Stale ==
    /\ thread.pc = "woken"
    /\ thread' = [thread EXCEPT !.pc = "dispatch"]
    /\ UNCHANGED <<data, client>>
ThreadWoken ==
    /\ thread.pc = "woken"
    /\ thread' = [pc |-> "dispatch", command |-> data.command]
    /\ UNCHANGED <<data, client>>

\* bluetooth_init(), which may fail to reach the daemon.
Dispatch ==
    /\ thread.pc = "dispatch"
    /\ thread' = [thread EXCEPT !.pc = "switch"]
    /\ \/ UNCHANGED data
       \/ /\ data.state = "NONE" /\ thread.command # "QUIT"
          /\ data' = [data EXCEPT !.server = TRUE, !.state = "INITIALIZED"]
    /\ UNCHANGED client

\* Mutant: bluetooth_stop() keeps the stream.
SwitchStop_KeepStream ==
    /\ thread.pc = "switch" /\ thread.command = "STOP" /\ data.state = "STARTED"
    /\ data' = [data EXCEPT !.state = "STOPPING"]
    /\ thread' = [thread EXCEPT !.pc = "stop"] /\ UNCHANGED client

SwitchStop ==
    /\ thread.pc = "switch" /\ thread.command = "STOP" /\ data.state = "STARTED"
    /\ data' = [data EXCEPT !.state = "STOPPING", !.stream = FALSE]
    /\ thread' = [thread EXCEPT !.pc = "stop"] /\ UNCHANGED client
\* Mutant: a new sink is configured whatever the stream is doing.
SwitchConfigure_AnyState ==
    /\ thread.pc = "switch" /\ thread.command = "CONFIGURE"
    /\ data' = [data EXCEPT !.state = "CONFIGURING"]
    /\ thread' = [thread EXCEPT !.pc = "getcaps"] /\ UNCHANGED client
SwitchConfigure ==
    /\ thread.pc = "switch" /\ thread.command = "CONFIGURE" /\ data.state = "INITIALIZED"
    /\ data' = [data EXCEPT !.state = "CONFIGURING"]
    /\ thread' = [thread EXCEPT !.pc = "getcaps"] /\ UNCHANGED client
SwitchStart ==
    /\ thread.pc = "switch" /\ thread.command = "START" /\ data.state = "CONFIGURED"
    /\ data' = [data EXCEPT !.state = "STARTING"]
    /\ thread' = [thread EXCEPT !.pc = "start"] /\ UNCHANGED client
SwitchQuit ==
    /\ thread.pc = "switch" /\ thread.command = "QUIT"
    /\ data' = [bluetooth_close(data) EXCEPT !.freed = TRUE]
    /\ thread' = [thread EXCEPT !.pc = "done"] /\ UNCHANGED client

\* A command that does not fit the state is dropped.
SwitchBreak ==
    /\ thread.pc = "switch"
    /\ <<thread.command, data.state>> \notin
          {<<"CONFIGURE", "INITIALIZED">>, <<"START", "CONFIGURED">>, <<"STOP", "STARTED">>}
    /\ thread.command # "QUIT"
    /\ thread' = [thread EXCEPT !.pc = "top"] /\ UNCHANGED <<data, client>>

\* The daemon is gone: the state is NONE, and nobody is told.
Broken(pc) ==
    /\ thread.pc = pc
    /\ data' = bluetooth_close(data)
    /\ thread' = [thread EXCEPT !.pc = "top"] /\ UNCHANGED client

\* bluetooth_configure(), first exchange: the capabilities of the device, kept
\* as they were when the answer is for another transport than A2DP.
GetCapabilities ==
    \/ /\ thread.pc = "getcaps" /\ data.address # Torn
       /\ \E caps \in {data.address, data.caps} : data' = [data EXCEPT !.caps = caps]
       /\ thread' = [thread EXCEPT !.pc = "setconf"] /\ UNCHANGED client
    \/ /\ thread.pc = "getcaps"
       /\ set_state(data, "INITIALIZED")
       /\ thread' = [thread EXCEPT !.pc = "top"]
    \/ Broken("getcaps")

\* bluetooth_a2dp_hw_params(): the second exchange, with the address as it is.
SetConfiguration ==
    \/ /\ thread.pc = "setconf" /\ data.address # Torn
       /\ set_state([data EXCEPT !.conf = data.address], "CONFIGURED")
       /\ thread' = [thread EXCEPT !.pc = "top"]
    \/ /\ thread.pc = "setconf"
       /\ set_state(data, "INITIALIZED")
       /\ thread' = [thread EXCEPT !.pc = "top"]
    \/ Broken("setconf")

\* Mutant: a failed start leaves the stream configured.
StartStream_KeepConfigured ==
    \/ /\ thread.pc = "start"
       /\ set_state([data EXCEPT !.stream = TRUE], "STARTED")
       /\ thread' = [thread EXCEPT !.pc = "top"]
    \/ /\ thread.pc = "start"
       /\ set_state([data EXCEPT !.conf = None], "CONFIGURED")
       /\ thread' = [thread EXCEPT !.pc = "top"]
    \/ Broken("start")

\* bluetooth_start() after its request.
StartStream ==
    \/ /\ thread.pc = "start"
       /\ set_state([data EXCEPT !.stream = TRUE], "STARTED")
       /\ thread' = [thread EXCEPT !.pc = "top"]
    \/ /\ thread.pc = "start"
       /\ set_state([data EXCEPT !.conf = None], "INITIALIZED")
       /\ thread' = [thread EXCEPT !.pc = "top"]
    \/ Broken("start")

\* bluetooth_stop() after its request: CONFIGURED whatever the answer is.
StopStream ==
    \/ /\ thread.pc = "stop"
       /\ set_state(data, "CONFIGURED")
       /\ thread' = [thread EXCEPT !.pc = "top"]
    \/ Broken("stop")

SpuriousWakeup ==
    /\ Spurious
    /\ \/ /\ thread.pc = "wait" /\ thread' = signal(thread)
          /\ UNCHANGED <<data, client>>
       \/ /\ client.pc = "wait" /\ client' = signal(client)
          /\ UNCHANGED <<data, thread>>

-----------------------------------------------------------------------------
(* The specification.                                                      *)

WriteStep == WaitLoop \/ TimedWait \/ Deadline \/ TimedOut \/ Woken \/ Encode
ClientStep ==
    \/ \E a \in Sinks : SetSink(a)
    \/ SinkCopied \/ SinkCommand \/ Stop \/ Cleanup
    \/ \E usec \in Usecs : Write(usec)
    \/ WriteStep
ThreadStep ==
    \/ ThreadWait \/ ThreadWoken \/ Dispatch \/ SwitchStop \/ SwitchConfigure
    \/ SwitchStart \/ SwitchQuit \/ SwitchBreak \/ GetCapabilities
    \/ SetConfiguration \/ StartStream \/ StopStream
Next == ClientStep \/ ThreadStep \/ SpuriousWakeup

Spec == Init /\ [][Next]_vars

\* Both threads are scheduled, the clock runs and the daemon answers.
FairSpec == Spec /\ WF_vars(ThreadStep) /\ WF_vars(Deadline)
                 /\ WF_vars(WaitLoop \/ TimedWait \/ TimedOut \/ Woken \/ Encode)

-----------------------------------------------------------------------------
(* Properties.                                                             *)

\* The shared data and both threads keep their types (liba2dp.c).
TypeOK == data \in Data /\ thread \in Thread /\ client \in Client

\* Descriptors and state agree, whatever the daemon answers and whenever it
\* disappears: the stream is open exactly when STARTED, the connection to the
\* daemon exactly when not NONE, so bluetooth_init() and bluetooth_start()
\* never overwrite an open descriptor and cleanup leaves none open.
DescriptorsOwned ==
    /\ data.stream <=> data.state = "STARTED"
    /\ data.server <=> data.state # "NONE"
    /\ data.freed => data.state = "NONE"

\* What a failed start says it forces ("set state to A2DP_STATE_INITIALIZED to
\* force reconfiguration"): no stream starts unless the daemon has accepted a
\* configuration since the last failed start or lost connection.
StartedConfigured ==
    data.state \in {"CONFIGURED", "STARTING", "STARTED", "STOPPING"} => data.conf # None

\* The encoder belongs to one thread at a time: while a write encodes, the
\* library's thread does not set the encoder up again (bluetooth_a2dp_setup
\* against sbc_encode, which share no lock).
EncoderExclusive == client.pc = "encode" => thread.pc \notin {"getcaps", "setconf"}

\* a2dp_write() returns, also when the daemon never starts the stream or its
\* wake-up is lost: the deadline of wait_for_start() is absolute.
WriteReturns == client.pc = "loop" ~> client.pc = "idle"

\* A cleanup whose signal finds the thread waiting frees the data.
CleanupFrees == (client.pc = "gone" /\ thread.pc = "woken") ~> data.freed

\* What the comment on WRITE_TIMEOUT says: a write gives up waiting because
\* its timeout has passed.
WaitsOut == client.err # "EINVAL"
=============================================================================
