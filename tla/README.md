# A TLA+ model of BlueZ

This directory is a verification development kept beside the BlueZ sources in
`src/` (the Android tree: `utils/`, `libs/`, `hcidump/`). It holds TLA+ modules
translated from the C code, TLC configurations that check them on small
instances, and proofs checked by TLAPS.

## The system and its parts

BlueZ is a set of single-threaded daemons around a glib (or `eglib`) main loop,
plus client libraries and tools.

* **hcid** (`utils/hcid`) owns the adapters: it reads HCI events, keeps the
  state of adapters and remote devices, runs pairing through *agents* on D-Bus,
  queues authorization requests and contains the SDP server (`utils/sdpd`).
* **audio** (`utils/audio`) implements A2DP (`avdtp.c`, `a2dp.c`, `sink.c`),
  the headset profiles (`headset.c`), AVRCP (`control.c`) and a local socket
  through which media players reach it (`unix.c`); `liba2dp.c` is the Android
  client of that socket and runs in another process, with two threads.
* **input, network, serial** keep one connection state machine per device.
* **tools, hcidump, libs** are command-line programs, a packet printer and the
  libraries; `tools/ubcsp.c` is a self-contained reliable link layer.

Everything inside one daemon runs on one thread. What makes it hard is not
preemption but *re-entrancy and order*: handlers call user callbacks in the
middle of their work, those callbacks drop references or send requests, and
timers, sockets, D-Bus replies and authorizations arrive in any order. So each
handler or API call is one atomic action here, the callbacks it makes are part
of it, and all interleavings of handlers are explored.

`PROJECT.json` lists every part with what is modelled of it, the hazards with
the source line where each bites, and the map from definitions to lines.

## Modules

| module | models | source |
|---|---|---|
| `AvdtpSession` | one AVDTP session and its streams | `utils/audio/avdtp.c`, parts of `sink.c`, `a2dp.c` |
| `MCAvdtpSession` | instances of it for TLC | |
| `AvdtpSession_proofs` | theorems about it | |
| `A2dpClient` | the client library: its API, its thread, the daemon it talks to | `utils/audio/liba2dp.c` |
| `MCA2dpClient`, `A2dpClient_proofs` | instances, theorems | |
| `ReliableLink` | what a reliable link promises (abstract) | |
| `Ubcsp` | the BCSP engine at both ends of a line, with its hosts | `utils/tools/ubcsp.c`, `csr_bcsp.c` |
| `MCUbcsp`, `Ubcsp_proofs` | instances, theorems | |
| `Pairing` | pairing in hcid: one adapter, its devices, agents and bonding | `utils/hcid/adapter.c`, `agent.c`, `dbus-hci.c`, `security.c`, parts of `dbus-service.c` |
| `MCPairing` | an instance of it | |

### AvdtpSession

`session` is the `struct avdtp` (`ref = 0` once freed) together with the local
end points it uses. Some fields are ghosts for what the C code cannot name:
`held` counts the references the session's users own, `robbed` those of them
that a failed authorization request has given up in their stead, `uaf` records
a handler that goes on with a freed session, `stale` that somebody else has
closed the session's descriptor. `connects` and `auth` count the callbacks
the L2CAP and authorization helpers still owe. `halted` records a failed
`assert` or a dereferenced NULL stream. The system stops there, and where a
freed session is used or one is freed that a user or a stream still points to.

A handler is an operator from a session to the *set* of sessions it can leave:
`connection_lost(s)`, `avdtp_open_cmd(s, p)`, `auth_cb(s, granted)`. The names
are those of the C functions. A call to a user (`cfm->open`, `ind->start`,
stream and discovery callbacks) is `Callback(s)`: the user keeps its references
or drops any number of them, as `a2dp.c` and `sink.c` do; where those files
take a reference or send a further request from the callback (`setconf_cfm`
opens the stream, `discovery_complete` configures one, a cancelled setup closes
it), the action includes that too. Returning from a callback into the handler
is `Touch(s)`.

Commands and responses are abstracted to their signal and the stream they are
for; sending may fail whenever the code checks for failure. The stream pointer
of a request is `live`, `null` or `dangling`; a dangling pointer may match any
stream (the allocator may reuse the address), and a session created after a
free may inherit the callbacks still due for the old address.

Sockets are open or closed; descriptor numbers are left out. So the model does
not show that `stream_close_timeout()` keeps the number of the socket it closes
and `stream_free()` closes it again, nor that a stream fresh from `g_new0()` has
descriptor 0 until its transport connects.

Bounds, all CONSTANTS: `MaxHeld` (user references), `MaxQueue` and
`MaxConnects` (a user adds a request only below them), `MaxAuths` (prompts the
user has not answered), `MaxRemoteSeps` (length of a DISCOVER response). One end
point and bounds of one reach every handler branch. The two-end-point instance
adds the competition for `pending_open`; `avdtp_auth` has two connects and two
authorizations outstanding.

| run | instance | shows |
|---|---|---|
| `avdtp_requests` | one end point, all nine requests | `NoUseAfterFree`, `StreamTable`, `ReclaimedClean`, `Unreferenced` |
| `avdtp_acceptor` | two end points (symmetric), peer-driven | `TypeOK`, `StreamTable`, `StreamsLinked` |
| `avdtp_auth` | authorization granted, failed or asked, streams configured from both sides, fair timers | `RefExact`, `CloseEnds` |
| `avdtp_assert` | | violates `RefAssertion` (an `assert` of the code) |

`avdtp_requests` and `avdtp_acceptor` take authorizations as granted at once (a
trusted device). With a prompt to the user, an answer that comes after the peer
has hung up makes `auth_cb()` leave a CONNECTED session without a socket (the
socket is not looked at), and from there the invariants about streams do fail;
the reference count and `CloseEnds` do not depend on it. An authorization
request that fails at once (the agent is busy, the service is gone) makes
`avdtp_server_cb()` drop a reference it never took: on a session somebody uses
that is a user's, which later frees the session under another user or gives up
one that is gone. `RefExact` says that this is the only way the count goes
wrong; the invariants about streams and freed sessions are checked without it.

`CHECK_DEADLOCK FALSE` is set because a halted session takes no step.

Fairness: `CloseEnds` assumes weak fairness of the close timer and of the main
loop noticing an invalid descriptor. glib dispatches an elapsed timer and a
ready descriptor at the next iteration, so an armed timer that nobody removes
does fire.

### A2dpClient

`liba2dp.c` runs in the media player: `a2dp_set_sink`, `a2dp_write`,
`a2dp_stop` and `a2dp_cleanup` on the player's thread, and a thread of the
library's own (`a2dp_thread`) that carries out the commands they leave in a
single slot and talks to the audio daemon. One mutex and two condition
variables lie between them. `data` is the `struct bluetooth_data`, `thread` and
`client` are the two threads with their program counters and locals. A step is
what happens between two points where the other thread can look: a locked
section, or one exchange with the daemon, which accepts, refuses or is gone.
A signal is lost on a thread that does not wait, and with `Spurious` a wait may
end unasked. `a2dp_set_sink()` copies the address without the lock, so a
reader may see it `Torn`. An answer for another transport than A2DP leaves the
capabilities as they were. `conf` is a ghost: the device the daemon was last
configured for, unknown after a failed start. The deadline of a write is kept
in nanoseconds as the code computes it; `Usecs` are the clock readings it may
start from.

| run | instance | shows |
|---|---|---|
| `client_calls` | two sinks, spurious wake-ups, fair threads | `TypeOK`, `DescriptorsOwned`, `StartedConfigured`, `WriteReturns`, `CleanupFrees` |
| `client_encoder` | two sinks (symmetric), no spurious wake-ups | `EncoderExclusive` |
| `client_deadline` | clock readings around half a second | violates `WaitsOut` (a comment of the code) |

There is no property that a new sink address takes effect: the thread drops
CONFIGURE once the stream is configured, and such a stream keeps its device.

Nothing but the sets above is bounded: the state is finite. Two sinks are
needed to tell a stream's device from the current one. `CHECK_DEADLOCK FALSE`
is set because the client may be gone and the thread done or asleep for good.
Fairness: both threads are scheduled, the clock goes on, and an exchange with
the daemon ends (its answer may be an error).

### Ubcsp and ReliableLink

`ubcsp_poll()` moves single octets. Here a frame *starts* (its header is built
from the engine's state), is clocked out, and *finishes*: it arrives whole, is
damaged (the receiver sees a bad checksum) or is lost. Host calls and arrivals
come between start and finish, which is where the code is exposed: the frame is
read from the host's buffer while it is sent. `ends[e]` is the
`struct ubcsp_configuration` and the host of end `e`; `line[e]` the frames on
their way to it. `Restart` is a new process that opens the port again. It
flushes the port: of the frames on their way to it any number of the oldest is
gone, the next perhaps cut; of its own the newest, and the one it was clocking
out may be cut. A host in `Patient` waits for UBCSP_PACKET_SENT before it sends
again, as the interface asks; `do_command()` of `csr_bcsp.c` does not wait.
`taken` is a ghost: the ends whose host's current reliable packet the other host
has been handed.

`ReliableLink` has no frames, numbers or losses: a channel holds one packet that
was accepted, delivered or confirmed. `ReliableDelivery` says that `Ubcsp`
implements it when `LinkChan` reads the channel off the two engines; while an
end is not active the channel is down and promises nothing.

| run | instance | shows |
|---|---|---|
| `ubcsp_link` | four numbers, reliable packets both ways, unreliable ones mixed in, frames damaged and lost | `ReliableDelivery` |
| `ubcsp_restart` | a restart at any moment, hosts that do not wait | `TypeOK`, `FrameCurrent` |
| `ubcsp_liveness` | both hosts send, frames are lost until some day | `Established`, `Confirmed` |
| `ubcsp_window` | one restart, no noise | violates `AckMeansSent` (a comment of the code) |

The trace of `ubcsp_window`: an end restarts while its packet 0 is on the line.
The peer sends the CONF RESP it had due, then receives that packet and answers
ACK 1. The CONF RESP makes the restarted end active at once, its host submits a
new packet, number 0 again, and the late ACK 1 reports it as sent before it has
been put on the line.

Bounds: `MaxLine` frames on the line each way (a window of one never has more
than a repeated packet and an acknowledgement outstanding), `MaxRestarts`. The
code's `put_uart()` never waits: a frame that finds the line full is one that is
lost, or one that is still being clocked out.
The code has eight numbers; two are the hardest case for a window of one,
`ubcsp_link` takes four, and the proofs hold for any number. `ubcsp_restart`
sets `CHECK_DEADLOCK FALSE` because the link really can stop: a peer reset that
comes while a CONF RESP is due leaves an engine that is not active and has no
link establishment message to send. For the same reason `Established` is checked
from the first start on and not after a restart. Fairness: the host polls and takes its
packets; the line damages and loses only finitely many frames.

### Pairing

`adapter` is the `struct adapter` as far as pairing is concerned: the agents
(the adapter's own, `Default`, and those that came with a CreatePairedDevice(),
named for their device), the device objects, `auth_reqs`, and the one bonding
with its two main-loop sources, `watch` on its socket and `listener` on its
client. An agent has one request at a time. The controller's side is `ask` (the
question it has asked for a device and how it was answered) and
`authenticating`. The ghost `wrong` collects answers that should not have been
given or were not, `halted` a use of freed memory or of an argument that was
never passed, where the system stops.

Each D-Bus method, HCI event, agent reply, agent or client exit and socket
event is one action and includes everything the handler does: destroying an
agent calls its pending callback with an error, which answers the controller,
and only then is the bonding forgotten. PIN code and confirmation requests
differ in the HCI command only and are one type, `ASK`. A `PASSKEY` request is
answered like them, but not when its agent is destroyed: `agent_free()` calls
`passkey_cb()` with three arguments of its four, and the model halts. A
displayed passkey, `NOTIFY`, needs no answer and does not occupy the agent.
`hci_open_dev()` may fail in every handler that calls it; the callback or the
cancellation then returns without an answer. Within one handler it either works
or fails.

| run | instance | shows |
|---|---|---|
| `pairing` | one device that clients use, one that only calls in | `TypeOK`, `NoStray`, `AnswerOnce`, `Answered`, `Withdrawable`, `BondingEnds` |

Bounds: `MaxAuth` pending entries (two devices, or a device that asked twice).
`Wanted`, `Keyboard`, `Display` and `Retrying` say which devices clients deal
with, which make hcid display a passkey or ask for one, and which try again
after a refusal. Link keys are kept for the devices in `Wanted`, the only ones
whose key is looked up. Two devices are
needed because a failure of one is noted in the bonding of the other, and
because both may share the adapter's agent.

Fairness: the kernel reports what became of a connection attempt and that a
descriptor is closed, the controller ends each authentication it was told to
start (a key, a failure or a lost link). `auth_complete()` does nothing for
status 0 and when `get_bdaddr()` fails: the assumption is that status 0 comes
with a key, none being stored when the bonding began, and that a link without
an address is reported as disconnected. It is stated on states (`SocketDue`
and `AuthDue` do not stay true for ever). For these events that is weak
fairness, since each of them ends the condition that makes it due.
`CHECK_DEADLOCK FALSE` is set because a halted adapter takes no step.

There is no property that the model never halts, for it does: `RemoveDevice()`
frees a device the adapter's agent may be asking about, an agent that goes away
is cleared from one pending entry only, and one that goes away with a passkey
request pending calls its callback wrongly. The other properties hold up to
there. `AnswerOnce` leaves out a device that asks again while an entry of its
earlier question is pending, until both entries are gone: the code takes the one
for the other. Left out: the old passkey agents (their fallback counts
as a refusal), discovery, taking the adapter down, and the browsing that
answers a CreatePairedDevice() client after success (it counts as the answer).

## Proofs

`AvdtpSession_proofs` proves, for every set of end points, every set of
requests, every outcome of authorization requests and every bound,
`Spec => []TypeOK` and `Spec => []RefExact`. A failed authorization request may
drop a user's reference; the ghost `robbed` counts these, and the theorem says
that nothing else makes the count differ from the references held.

`RefExact` is not inductive: a timer or watch that fires on a freed session
would count from zero. The inductive invariant `Counted` adds that a freed
session has no watch and no disconnect timer. The proof has
one lemma per handler, in the order of the model (`TouchCounted`, ...,
`DisconnectCounted`), each taking a counted session to counted ones, one lemma
for a step (`NextCounted`, one case per action), and the temporal theorems.
The constants' assumptions are `SepAssumption` and `BoundsAssumption`.

`A2dpClient_proofs` proves `DescriptorsOwned` and `StartedConfigured` for every
set of sinks and every clock, from `AddressAssumption`, `ClockAssumption` and
`SpuriousAssumption`. Its inductive invariant `Inv` adds `PcState` (a transient
state such as CONFIGURING belongs to the thread at one point of an exchange,
and freed data to a thread that is done) and `SinkKnown`: without them a thread
in the middle of an exchange could find any state at all.

`Ubcsp_proofs` proves `TypeOK` and `FrameCurrent` for every number of sequence
numbers and any number of restarts. `Sound(s)` is the invariant of one engine;
there is a lemma for each operation of the engine and a case for each action.
`FrameCurrent` is inductive together with `TypeOK`.

Only model-checked: the refinement of `ReliableLink`; the invariants about
streams, `NoUseAfterFree`, `ReclaimedClean`, `Unreferenced`, `EncoderExclusive`;
everything about `Pairing`; and all liveness (`CloseEnds`, `WriteReturns`,
`CleanupFrees`, `Established`, `Confirmed`, `BondingEnds`), which is beyond
TLAPS.

## Plan

1. *Client side*: AVDTP fragmentation and reassembly as an algorithm against
   its reference (the two threads of `liba2dp.c` are done).
2. *Links*: octet-level SLIP resynchronisation, command retry in `csr_bcsp.c`
   (the link itself is done).
3. *Audio*: `a2dp.c` setups and `sink.c` composed with `AvdtpSession`,
   `unix.c`, `headset.c`, `control.c`.
4. *hcid*: discovery and mode changes in `adapter.c`, starting and stopping
   the adapter, record ownership in `dbus-service.c` (pairing is done).
5. *SDP*: `sdpd` continuation state and record database; `textfile.c`.
6. *Infrastructure*: `gdbus/watch.c`, `eglib/gmain.c`, `input`, `network`,
   `serial`.
7. *Proofs*: `NoUseAfterFree`, `StreamTable` and `StreamsLinked` for every
   instance with granted authorizations; `NoStray` of `Pairing` (with: a
   device's agent exists only for the bonding's own device); the window invariant of `Ubcsp` and
   from it the refinement of `ReliableLink`.

## Not modelled

Generated parsers, the SBC codec (numeric), command-line tools and the packet
printer (sequential, about formatting), test programs. `PROJECT.json` gives
the reason for each part.
