------------------------------ MODULE Pairing ------------------------------
(* Pairing in hcid: one adapter, its remote devices, the agents on D-Bus   *)
(* that ask the user, and at most one bonding that a client has requested. *)
(*                                                                         *)
(* The controller asks for a PIN code, a confirmation or a passkey; hcid   *)
(* hands the question to an agent, which has room for one request, and     *)
(* sends the answer back.  Meanwhile clients cancel or leave, agents exit, *)
(* links come and go and the bonding's own socket reports what it sees.    *)
EXTENDS Integers, Sequences

CONSTANTS
    Device,      \* remote addresses
    Default,     \* the adapter's agent; a device's own agent is named for it
    Wanted,      \* those that clients create, remove and bond with
    Keyboard,    \* keyboards: their user types a passkey that hcid displays
    Display,     \* peers that display a passkey for hcid's user to type
    Retrying,    \* peers that try again on a link where they were refused
    MaxAuth      \* bound on the pending authentication requests

ASSUME DeviceAssumption == Default \notin Device
ASSUME PeersAssumption ==
    /\ Wanted \subseteq Device /\ Keyboard \subseteq Device
    /\ Display \subseteq Device /\ Retrying \subseteq Device
ASSUME BoundAssumption == MaxAuth \in Nat

VARIABLE adapter

Agent == Device \cup {Default}

\* AUTH_TYPE_PINCODE and CONFIRM, which differ in the HCI command only, are
\* "ASK"; like PASSKEY they want an answer, NOTIFY does not.
AuthType == {"ASK", "PASSKEY", "NOTIFY"}

\* A request an agent is busy with.  "gone": the device object it was made for
\* has been freed.
Request == [type : AuthType \cup {"AUTHORIZE"}, dev : Device, gone : BOOLEAN]
NoRequest == [type |-> "none"]

Absent == [on |-> FALSE, request |-> NoRequest]
AgentSlot == [on : {TRUE}, request : Request \cup {NoRequest}] \cup {Absent}

AuthInfo == [dev : Device, type : AuthType, replied : BOOLEAN,
             agent : [ptr : {"null", "live", "freed"}, id : Agent]]
NoPtr == [ptr |-> "null", id |-> Default]
Ptr(a) == [ptr |-> "live", id |-> a]

\* owed: the client waits for its answer; removed: RemoveDevice() took the
\* device object away meanwhile.
Bonding == [dev : Device, paired : BOOLEAN, cancel : BOOLEAN, hci_status : BOOLEAN,
            open : BOOLEAN, owed : BOOLEAN, removed : BOOLEAN]
NoBonding == [dev |-> "none"]

\* linkkeys: the stored keys, as far as a client's request looks them up.
\* watch and listener are the main loop's sources for the bonding: the socket
\* and the client's presence on the bus.  ask, authenticating and retried are
\* the controller's side: the question it has asked, the authentications it was
\* told to start, the devices with an entry from before they asked again.  hci
\* is TRUE but within a step in which hci_open_dev() fails.  wrong collects what must not happen,
\* halted a use of freed memory or of a pointer that was never passed.
Adapter ==
    [agent : [Agent -> AgentSlot],
     dev : [Device -> [on : BOOLEAN, temporary : BOOLEAN]],
     auth_reqs : Seq(AuthInfo),
     bonding : Bonding \cup {NoBonding},
     watch : {"none", "connect", "hup"},
     listener : BOOLEAN,
     active_conn : SUBSET Device,
     linkkeys : SUBSET Wanted,
     ask : [Device -> {"none", "open", "yes", "no"}],
     authenticating : SUBSET Device,
     retried : SUBSET Device,
     hci : BOOLEAN,
     wrong : SUBSET {"controller", "unanswered", "twice"},
     halted : BOOLEAN]

Init ==
    adapter = [agent |-> [a \in Agent |-> Absent],
               dev |-> [d \in Device |-> [on |-> FALSE, temporary |-> FALSE]],
               auth_reqs |-> <<>>, bonding |-> NoBonding, watch |-> "none",
               listener |-> FALSE, active_conn |-> {}, linkkeys |-> {},
               ask |-> [d \in Device |-> "none"], authenticating |-> {},
               retried |-> {}, hci |-> TRUE, wrong |-> {}, halted |-> FALSE]

-----------------------------------------------------------------------------
(* Answers, to the controller and to the client.                           *)

Answer(s, d, ok) ==
    IF s.ask[d] = "open" THEN [s EXCEPT !.ask[d] = IF ok THEN "yes" ELSE "no"]
    ELSE IF d \in s.retried THEN s
    ELSE [s EXCEPT !.wrong = @ \cup {"controller"}]

Reply(s) ==
    IF s.bonding.owed THEN [s EXCEPT !.bonding.owed = FALSE]
    ELSE [s EXCEPT !.wrong = @ \cup {"twice"}]

-----------------------------------------------------------------------------
(* The list of pending authentication requests; the first match counts.    *)

FirstWhere(q, Test(_)) ==
    LET I == {i \in DOMAIN q : Test(q[i])}
    IN  IF I = {} THEN 0 ELSE CHOOSE i \in I : \A j \in I : i <= j

adapter_find_auth_request(s, d) ==
    LET ForDevice(info) == info.dev = d IN FirstWhere(s.auth_reqs, ForDevice)

adapter_remove_auth_request(s, d) ==
    LET i == adapter_find_auth_request(s, d)
        q == s.auth_reqs
    IN  IF i = 0 THEN s
        ELSE LET t == [s EXCEPT !.auth_reqs = SubSeq(q, 1, i - 1) \o SubSeq(q, i + 1, Len(q))]
             IN  IF adapter_find_auth_request(t, d) = 0
                 THEN [t EXCEPT !.retried = @ \ {d}] ELSE t

HasBonding(s, d) == s.bonding # NoBonding /\ s.bonding.dev = d

adapter_new_auth_request(s, d, type, a) ==
    [s EXCEPT !.auth_reqs = Append(@, [dev |-> d, type |-> type, replied |-> FALSE,
                                       agent |-> Ptr(a)])]

-----------------------------------------------------------------------------
(* Agents.                                                                 *)

agent_cancel(s, p) ==
    CASE p.ptr = "null" -> s
      [] p.ptr = "freed" -> [s EXCEPT !.halted = TRUE]
      [] OTHER -> [s EXCEPT !.agent[p.id].request = NoRequest]

\* The callbacks return early, without an answer, when the bonding has noted a
\* failure and when hci_open_dev() fails.
Mute(s) == (s.bonding # NoBonding /\ s.bonding.hci_status) \/ ~s.hci

\* Mutant: the answer is not noted in the pending entry.
Callback_Unmarked(s, r, ok) ==
    IF r.type = "AUTHORIZE" \/ r.gone \/ Mute(s) THEN s ELSE Answer(s, r.dev, ok)

\* pincode_cb(), confirm_cb(), passkey_cb(); the callback of an authorization
\* belongs to the service that asked for it.
Callback(s, r, ok) ==
    IF r.type = "AUTHORIZE" THEN s
    ELSE IF r.gone THEN [s EXCEPT !.halted = TRUE]
    ELSE IF Mute(s) THEN s
    ELSE LET i == adapter_find_auth_request(s, r.dev)
             t == Answer(s, r.dev, ok)
         IN  IF i = 0 THEN t
             ELSE [t EXCEPT !.auth_reqs[i].replied = TRUE, !.auth_reqs[i].agent = NoPtr]

\* device_agent_removed() and agent_removed() clear one pointer to the agent;
\* any other is left to point to freed memory.
AgentRemoved(s, a) ==
    LET Mine(info) == info.agent = Ptr(a)
        i == FirstWhere(s.auth_reqs, Mine)
    IN  IF i = 0 THEN s ELSE [s EXCEPT !.auth_reqs[i].agent = NoPtr]

\* Mutant: the agent's request outlives it, unanswered.
agent_destroy_KeepRequest(s, a) == [AgentRemoved(s, a) EXCEPT !.agent[a].on = FALSE]

\* agent_free(): the answer the agent owes is "Canceled".  passkey_cb() takes
\* four arguments and is called with three, so that what it takes for the device
\* is whatever the fourth happens to be.
agent_destroy(s, a) ==
    LET r == s.agent[a].request
        t == AgentRemoved(s, a)
        u == IF r = NoRequest THEN t
             ELSE IF r.type = "PASSKEY" THEN [t EXCEPT !.halted = TRUE]
             ELSE Callback(t, r, FALSE)
    IN  [u EXCEPT !.agent[a] = Absent,
                  !.auth_reqs = [i \in DOMAIN @ |->
                      IF @[i].agent = Ptr(a) THEN [@[i] EXCEPT !.agent.ptr = "freed"] ELSE @[i]]]

\* agent_request_pincode(), agent_request_confirmation(), agent_request_passkey(),
\* agent_authorize() once the agent is known to be free.
AgentAsk(s, a, type, d) ==
    [s EXCEPT !.agent[a].request = [type |-> type, dev |-> d, gone |-> FALSE]]

ChosenAgent(s, d) == IF s.dev[d].on /\ s.agent[d].on THEN d ELSE Default

-----------------------------------------------------------------------------
(* Devices.                                                                *)

adapter_create_device(s, d) == [s EXCEPT !.dev[d] = [on |-> TRUE, temporary |-> TRUE]]
adapter_get_device(s, d) == IF s.dev[d].on THEN s ELSE adapter_create_device(s, d)

\* A request that the adapter's agent still has for the device keeps pointing
\* to it; the link key goes with the device.
adapter_remove_device(s, d) ==
    LET t == IF s.agent[d].on THEN agent_destroy(s, d) ELSE s
    IN  [t EXCEPT !.dev[d] = [on |-> FALSE, temporary |-> FALSE],
                  !.linkkeys = @ \ {d},
                  !.agent = [a \in Agent |->
                      IF @[a].request.type \in AuthType /\ @[a].request.dev = d
                      THEN [@[a] EXCEPT !.request.gone = TRUE] ELSE @[a]]]

-----------------------------------------------------------------------------
(* The bonding.                                                            *)

remove_pending_device(s) ==
    LET d == s.bonding.dev
    IN  IF s.dev[d].on /\ s.dev[d].temporary THEN adapter_remove_device(s, d) ELSE s

\* bonding_request_free(): the agent that came with the request goes too.  The
\* callback it makes still finds the bonding.
bonding_request_free(s) ==
    LET d == s.bonding.dev
        t == IF s.dev[d].on /\ s.agent[d].on THEN agent_destroy(s, d) ELSE s
    IN  [t EXCEPT !.bonding = NoBonding,
                  !.wrong = IF s.bonding.owed /\ ~s.bonding.removed
                            THEN @ \cup {"unanswered"} ELSE @]

\* Mutant: the source on the socket is not removed.
EndBonding_KeepSource(s) == bonding_request_free([s EXCEPT !.listener = FALSE])

\* How a bonding ends outside its socket's own callback.
EndBonding(s) ==
    bonding_request_free([s EXCEPT !.watch = "none", !.listener = FALSE])

\* Mutant: the agent is not told.
DropAuthRequest_KeepAsking(s, d) == adapter_remove_auth_request(s, d)

\* The device's pending request is dropped and the agent told so.
DropAuthRequest(s, d) ==
    LET i == adapter_find_auth_request(s, d)
    IN  IF i = 0 THEN s
        ELSE adapter_remove_auth_request(agent_cancel(s, s.auth_reqs[i].agent), d)

\* NOTIFY needs no answer.
cancel_auth_request(s, i) ==
    LET info == s.auth_reqs[i]
        t == IF info.type = "NOTIFY" THEN s ELSE Answer(s, info.dev, FALSE)
    IN  IF info.replied \/ ~s.hci THEN s ELSE [t EXCEPT !.auth_reqs[i].replied = TRUE]

\* own: the client brought an agent along (and is not the adapter's agent).
create_bonding(s, d, paired, own) ==
    LET t == IF paired THEN adapter_get_device(s, d) ELSE s
        u == IF own THEN [t EXCEPT !.agent[d] = [on |-> TRUE, request |-> NoRequest]] ELSE t
    IN  [u EXCEPT !.bonding = [dev |-> d, paired |-> paired, cancel |-> FALSE, hci_status |-> FALSE,
                               open |-> TRUE, owed |-> TRUE, removed |-> FALSE],
                  !.watch = "connect", !.listener = TRUE]

\* create_bonding_conn_complete(), by what the socket reports.  The source
\* that called it is removed on return.
BondingClosed(s) == EndBonding(Reply(s))
BondingFailed(s) == EndBonding(remove_pending_device(Reply([s EXCEPT !.watch = "none"])))
BondingConnected(s) ==
    [s EXCEPT !.watch = "hup", !.authenticating = @ \cup {s.bonding.dev}]

\* The client left the bus; its agent's watch is called first.
create_bond_req_exit(s) ==
    LET d == s.bonding.dev
        t == [(IF s.agent[d].on THEN agent_destroy(s, d) ELSE s) EXCEPT !.bonding.owed = FALSE]
        i == adapter_find_auth_request(t, d)
        u == IF i = 0 THEN t ELSE DropAuthRequest(cancel_auth_request(t, i), d)
    IN  EndBonding(remove_pending_device(u))

\* The socket is closed in any case; what is left of the bonding ends when the
\* main loop notices.
adapter_cancel_bonding(s) ==
    LET d == s.bonding.dev
        t == [s EXCEPT !.bonding.cancel = TRUE, !.bonding.open = FALSE]
        i == adapter_find_auth_request(t, d)
    IN  IF i = 0 THEN t
        ELSE IF t.auth_reqs[i].replied THEN t
        ELSE DropAuthRequest(cancel_auth_request(t, i), d)

-----------------------------------------------------------------------------
(* What the controller reports.                                            *)

\* A failure is noted in the bonding, whichever device it is about.
NoteFailure(s) == IF s.bonding = NoBonding THEN s ELSE [s EXCEPT !.bonding.hci_status = TRUE]

\* Mutant: without a pending entry the bonding is not looked at.
process_complete_OnlyKnown(s, d, ok) ==
    IF adapter_find_auth_request(s, d) = 0 THEN (IF ok THEN s ELSE NoteFailure(s))
    ELSE LET u == DropAuthRequest(s, d)
         IN  IF HasBonding(u, d) THEN EndBonding(Reply(u)) ELSE u

hcid_dbus_bonding_process_complete(s, d, ok) ==
    LET t == IF ok THEN s ELSE NoteFailure(s)
        known == adapter_find_auth_request(t, d) # 0
        u == DropAuthRequest(t, d)
        v == IF known /\ ok
             THEN [adapter_get_device(u, d) EXCEPT !.dev[d].temporary = FALSE] ELSE u
        \* a CreatePairedDevice() client is answered once the device is browsed
        w == IF v.bonding.cancel \/ ~v.bonding.paired THEN Reply(v)
             ELSE IF v.dev[d].on
             THEN IF ok THEN [Reply(v) EXCEPT !.dev[d].temporary = FALSE] ELSE Reply(v)
             ELSE v
    IN  IF HasBonding(v, d) THEN EndBonding(w) ELSE v

\* Mutant: the client is not answered when the link is lost.
disconn_complete_Silent(s, d) ==
    LET t == DropAuthRequest(s, d)
    IN  [(IF HasBonding(t, d) THEN EndBonding(t) ELSE t) EXCEPT !.active_conn = @ \ {d}]

hcid_dbus_disconn_complete(s, d) ==
    LET t == DropAuthRequest(s, d)
        u == IF HasBonding(t, d) THEN EndBonding(Reply(t)) ELSE t
        v == [u EXCEPT !.active_conn = @ \ {d}]
    IN  IF v.dev[d].on /\ v.dev[d].temporary THEN adapter_remove_device(v, d) ELSE v

\* A question for the user: the device's agent or the adapter's gets it if it
\* is free, otherwise the controller is told no.
AskAgent(s, d, type) ==
    LET a == ChosenAgent(s, d)
    IN  IF ~s.agent[a].on THEN Answer(s, d, FALSE)
        ELSE LET t == adapter_get_device(s, d)
             IN  IF t.agent[a].request # NoRequest THEN Answer(t, d, FALSE)
                 ELSE adapter_new_auth_request(AgentAsk(t, a, type, d), d, type, a)

pin_code_request(s, d) ==
    {Answer(s, d, TRUE), Answer(s, d, FALSE), AskAgent(s, d, "ASK")}
\* The device may be there or not when hci_open_dev() fails.
user_confirm_request(s, d) ==
    LET t == adapter_get_device(s, d)
    IN  {Answer(s, d, FALSE), Answer(t, d, FALSE), Answer(t, d, TRUE), AskAgent(t, d, "ASK")}
user_passkey_request(s, d) == {AskAgent(adapter_get_device(s, d), d, "PASSKEY")}
user_passkey_notify(s, d) ==
    LET t == adapter_get_device(s, d)
        a == ChosenAgent(t, d)
    IN  {IF t.agent[a].on THEN adapter_new_auth_request(t, d, "NOTIFY", a) ELSE t}

-----------------------------------------------------------------------------
(* The steps of the main loop.                                             *)

Running == ~adapter.halted

\* A handler that opens the HCI device does so with success or without.
Handle(F(_)) ==
    \E opened \in BOOLEAN :
        adapter' = [F([adapter EXCEPT !.hci = opened]) EXCEPT !.hci = TRUE]

\* The controller has done with the device's question and authentication before
\* it reports their end.
Settled(s, d) == [s EXCEPT !.ask[d] = "none", !.authenticating = @ \ {d}]

RegisterAgent ==
    /\ Running /\ ~adapter.agent[Default].on
    /\ adapter' = [adapter EXCEPT !.agent[Default].on = TRUE]
\* Unregistered, or its process has left the bus.
AgentGone ==
    /\ Running /\ adapter.agent[Default].on
    /\ Handle(LAMBDA s : agent_destroy(s, Default))
AgentReply(a, ok) ==
    /\ Running /\ adapter.agent[a].request # NoRequest
    /\ Handle(LAMBDA s : [Callback(s, s.agent[a].request, ok)
                              EXCEPT !.agent[a].request = NoRequest])

CreateDevice(d) ==
    /\ Running /\ ~adapter.dev[d].on
    /\ adapter' = [adapter EXCEPT !.dev[d] = [on |-> TRUE, temporary |-> FALSE]]
RemoveDevice(d) ==
    /\ Running /\ adapter.dev[d].on /\ ~adapter.dev[d].temporary
    /\ Handle(LAMBDA s :
          LET t == adapter_remove_device(s, d)
          IN  IF HasBonding(t, d) THEN [t EXCEPT !.bonding.removed = TRUE] ELSE t)
RemoveBonding(d) ==
    /\ Running /\ d \in adapter.linkkeys
    /\ adapter' = [adapter EXCEPT !.linkkeys = @ \ {d}]

CreateBonding(d, paired, own) ==
    /\ Running /\ adapter.bonding = NoBonding
    /\ adapter_find_auth_request(adapter, d) = 0 /\ d \notin adapter.linkkeys
    /\ own => paired
    /\ adapter' = create_bonding(adapter, d, paired, own)
CancelBonding ==
    /\ Running /\ adapter.bonding # NoBonding
    /\ Handle(adapter_cancel_bonding)
ClientExit ==
    /\ Running /\ adapter.listener /\ adapter.bonding # NoBonding
    /\ Handle(create_bond_req_exit)

\* The bonding's socket: connected or not, hung up, or closed by hcid itself.
Watched == Running /\ adapter.watch # "none" /\ adapter.bonding # NoBonding
SocketClosed == Watched /\ ~adapter.bonding.open /\ Handle(BondingClosed)
SocketFailed == Watched /\ adapter.bonding.open /\ Handle(BondingFailed)
SocketConnected ==
    /\ Watched /\ adapter.watch = "connect" /\ adapter.bonding.open
    /\ adapter' = BondingConnected(adapter)

ConnComplete(d) ==
    /\ Running /\ d \notin adapter.active_conn
    /\ adapter' = [adapter EXCEPT !.active_conn = @ \cup {d}]
ConnFailed(d) ==
    /\ Running /\ d \notin adapter.active_conn \cup adapter.authenticating
    /\ adapter' = NoteFailure(DropAuthRequest(adapter, d))
DisconnComplete(d) ==
    /\ Running /\ d \in adapter.active_conn
    /\ Handle(LAMBDA s : hcid_dbus_disconn_complete(Settled(s, d), d))

\* A refused peer may try again, unless it is hcid that authenticates.
MayAsk(d) ==
    /\ Running /\ d \in adapter.active_conn /\ Len(adapter.auth_reqs) < MaxAuth
    /\ \/ adapter.ask[d] = "none"
       \/ d \in Retrying /\ adapter.ask[d] = "no" /\ d \notin adapter.authenticating
Asked(d, answer) ==
    [adapter EXCEPT !.ask[d] = answer,
                    !.retried = IF adapter_find_auth_request(adapter, d) = 0
                                THEN @ ELSE @ \cup {d}]

PinCodeRequest(d) ==
    MayAsk(d) /\ adapter' \in pin_code_request(Asked(d, "open"), d)
UserConfirmRequest(d) ==
    MayAsk(d) /\ adapter' \in user_confirm_request(Asked(d, "open"), d)
UserPasskeyRequest(d) ==
    d \in Display /\ MayAsk(d) /\ adapter' \in user_passkey_request(Asked(d, "open"), d)
UserPasskeyNotify(d) ==
    d \in Keyboard /\ MayAsk(d) /\ adapter' \in user_passkey_notify(Asked(d, "yes"), d)

\* The end of an authentication: a link key, stored or not, or a failure.
LinkKeyNotify(d, stored) ==
    /\ Running /\ adapter.ask[d] = "yes"
    /\ Handle(LAMBDA s : hcid_dbus_bonding_process_complete(
           [Settled(s, d) EXCEPT !.linkkeys = IF stored THEN @ \cup ({d} \cap Wanted) ELSE @],
           d, stored))
AuthFailed(d) ==
    /\ Running /\ d \in adapter.active_conn
    /\ d \in adapter.authenticating \/ adapter.ask[d] # "none"
    /\ Handle(LAMBDA s : hcid_dbus_bonding_process_complete(Settled(s, d), d, FALSE))

\* service_req_auth() for a device that is not trusted, service_cancel_auth().
Authorize(d) ==
    /\ Running /\ d \in adapter.active_conn /\ adapter.dev[d].on
    /\ LET a == ChosenAgent(adapter, d)
       IN  /\ adapter.agent[a].on /\ adapter.agent[a].request = NoRequest
           /\ adapter' = AgentAsk(adapter, a, "AUTHORIZE", d)
CancelAuthorize(d) ==
    /\ Running /\ adapter.dev[d].on /\ adapter.agent[ChosenAgent(adapter, d)].on
    /\ adapter' = agent_cancel(adapter, Ptr(ChosenAgent(adapter, d)))

ClientStep ==
    \/ RegisterAgent \/ AgentGone \/ CancelBonding \/ ClientExit
    \/ \E a \in Agent, ok \in BOOLEAN : AgentReply(a, ok)
    \/ \E d \in Wanted :
          \/ CreateDevice(d) \/ RemoveDevice(d) \/ RemoveBonding(d)
          \/ \E paired, own \in BOOLEAN : CreateBonding(d, paired, own)
          \/ Authorize(d) \/ CancelAuthorize(d)
LinkStep ==
    \/ SocketClosed \/ SocketFailed \/ SocketConnected
    \/ \E d \in Device :
          \/ ConnComplete(d) \/ ConnFailed(d) \/ DisconnComplete(d)
          \/ PinCodeRequest(d) \/ UserConfirmRequest(d) \/ UserPasskeyRequest(d)
          \/ UserPasskeyNotify(d) \/ AuthFailed(d)
          \/ \E stored \in BOOLEAN : LinkKeyNotify(d, stored)

Next == ClientStep \/ LinkStep
Spec == Init /\ [][Next]_adapter

-----------------------------------------------------------------------------
(* Fairness: what the kernel and the controller have due is reported: a     *)
(* connection attempt and a closed descriptor on the bonding's socket, and  *)
(* the end of an authentication (a key, a failure or a lost link).  This    *)
(* relies on auth_complete() with status 0, which does nothing, having a    *)
(* link key notification before it, as no key was stored when the bonding   *)
(* began, and on a failure of get_bdaddr() there meaning that the link is   *)
(* gone and its disconnection reported.  Stated on states: an event that is *)
(* due is not due for ever.                                                 *)

SocketDue == Watched /\ (adapter.bonding.open => adapter.watch = "connect")
AuthDue(d) == Running /\ d \in adapter.authenticating
FairSpec == Spec /\ []<>~SocketDue /\ \A d \in Device : []<>~AuthDue(d)

-----------------------------------------------------------------------------
(* Properties.                                                             *)

\* The adapter keeps its type: an agent that is gone has no request, a pending
\* authentication names a device and an agent.
TypeOK == adapter \in Adapter

\* Nothing of a bonding outlives it: no source on its socket, no watch on its
\* client, no agent of a device.  create_bonding_conn_complete() relies on it
\* ("If we come here it implies a bug somewhere") and uses the bonding.
NoStray ==
    adapter.bonding = NoBonding =>
        /\ adapter.watch = "none" /\ ~adapter.listener
        /\ \A d \in Device : ~adapter.agent[d].on

\* The controller gets an answer only to a question it still waits with,
\* whichever of the agent's reply, its exit, a cancelled bonding, a client that
\* leaves or a removed device comes first.  A device that asks again while an
\* entry of its earlier question is pending is not counted until both entries
\* are dropped: adapter_find_auth_request() takes the one for the other.
AnswerOnce == "controller" \notin adapter.wrong

\* CreateBonding() and CreatePairedDevice() are answered exactly once however
\* the bonding ends, unless the client has left or RemoveDevice() took the
\* device away under it.
Answered == adapter.wrong \cap {"unanswered", "twice"} = {}

\* A question an agent is busy with is one hcid can withdraw: some pending entry
\* of the device points to that agent.  Otherwise a lost link would leave the
\* agent asking, and busy for everyone else.
Withdrawable ==
    \A a \in Agent :
        LET r == adapter.agent[a].request
        IN  r.type \in AuthType /\ Running =>
                \E i \in DOMAIN adapter.auth_reqs :
                    /\ adapter.auth_reqs[i].dev = r.dev
                    /\ adapter.auth_reqs[i].agent = Ptr(a)

\* A bonding ends: the adapter has room for one, and every later request is
\* refused ("Bonding in progress") while it lasts.
BondingEnds == adapter.bonding # NoBonding ~> adapter.bonding = NoBonding \/ adapter.halted
=============================================================================
