----------------------------- MODULE LspBridge -----------------------------
(***************************************************************************)
(* The bridge to the language server: managers with their accept loop, the *)
(* one relay each of them may have, restarts, relaunches that replace the  *)
(* manager, the status events, and the client in the webview that follows  *)
(* them.  A socket is one connection from the dial to the end of its       *)
(* relay.  Loads, stores and publications of a step that the code does not *)
(* lock together are steps of their own.                                   *)
(***************************************************************************)
EXTENDS Integers, Sequences, FiniteSets

CONSTANTS
    Managers,   \* 1..n, in the order in which they are made
    Sockets,    \* 1..n, in the order in which they are dialled
    Jump,       \* RELAUNCH_GENERATION_JUMP
    Backoff,    \* length of LSP_RESTART_BACKOFF
    MaxFaults   \* bound on restarts, relaunches, crashes and errors together

ASSUME LspAssumption ==
    /\ IsFiniteSet(Managers) /\ Managers = 1..Cardinality(Managers) /\ 1 \in Managers
    /\ IsFiniteSet(Sockets) /\ Sockets = 1..Cardinality(Sockets)
    /\ Jump \in Nat /\ Backoff \in Nat /\ MaxFaults \in Nat

\* Fewer connections and restarts meet one relaunch than a generation jumps.
ASSUME JumpAssumption == Jump > Cardinality(Sockets) + MaxFaults

VARIABLES
    mgr,        \* every manager: its flags and where its accept loop is
    slot,       \* the manager in the service, or 0
    reserved,   \* next_generation
    restart,    \* request_restart under way, which holds the service's lock: its step
    relaunches, \* managers that a relaunch is starting
    socket,     \* every connection: how far it got, its manager, the generation of its path
    signalled,  \* sockets whose oneshot was sent or dropped
    events,     \* lsp_status events under way, oldest first
    store,      \* lspStore: manager and generation of the wsUrl (0: none), kind, gate
    client,     \* appLanguageClient: state, socket, endpoint, generation, everReady
    starts,     \* start() calls queued for the newest endpoint
    faults,
    lost        \* history: endpoints <<manager, generation>> whose client is not called back

lspVars == <<mgr, slot, reserved, restart, relaunches, socket, signalled, events, store, client, starts, faults, lost>>

Fresh == [gen |-> 0, loop |-> "unborn", at |-> 0, sender |-> 0, running |-> FALSE, stop |-> FALSE,
          restarting |-> FALSE, reconnecting |-> FALSE, failures |-> 0, exhausted |-> FALSE]

Started(m, gen, available) ==
    [m EXCEPT !.gen = gen, !.loop = IF available THEN "accept" ELSE "degraded"]

Available(m) == mgr[m].loop # "degraded"

\* status_kind_for
StatusKind(r) ==
    CASE r.loop = "degraded"             -> "unavailable"
      [] r.exhausted                     -> "failed"
      [] r.restarting \/ r.reconnecting  -> "restarting"
      [] r.running                       -> "running"
      [] OTHER                           -> "awaitingClient"

\* An endpoint is published unless there is none, or the loop gave up.
Event(m, r, kind) == [m |-> m, gen |-> r.gen, kind |-> kind, url |-> Available(m) /\ kind # "failed"]
Send(e) == events' = Append(events, e)

\* Mutant: a relay that does not look at its oneshot.
SignalIgnored(s) == signalled' = signalled

\* A oneshot that is sent or dropped ends its relay.
Signal(s) == signalled' = signalled \union (s \ {0})

LspInit ==
    \E ok \in BOOLEAN :
        /\ mgr = [m \in Managers |-> IF m = 1 THEN Started(Fresh, 1, ok) ELSE Fresh]
        /\ slot = 1 /\ reserved = 1 + Jump /\ restart = "no" /\ relaunches = {}
        /\ socket = [s \in Sockets |-> [step |-> "none", m |-> 0, gen |-> 0]] /\ signalled = {} /\ events = <<>>
        /\ store = [m |-> IF ok THEN 1 ELSE 0, gen |-> 1, gate |-> 1,
                    kind |-> IF ok THEN "awaitingClient" ELSE "unavailable"]
        /\ client = [state |-> "off", socket |-> 0, m |-> 0, gen |-> 0, generation |-> 0, ready |-> FALSE]
        /\ starts = IF ok THEN 1 ELSE 0
        /\ faults = 0 /\ lost = {}

Fault == faults < MaxFaults /\ faults' = faults + 1

-----------------------------------------------------------------------------
(* The accept loop.                                                        *)

SetManager(m, r) == mgr' = [mgr EXCEPT ![m] = r]
Loop(m, step, s) == SetManager(m, [mgr[m] EXCEPT !.loop = step, !.at = s])

\* listener.accept() returns a stream: the failures are forgotten.
Accept(m, s) ==
    /\ mgr[m].loop = "accept" /\ ~mgr[m].stop /\ socket[s].step = "dialled" /\ socket[s].m = m
    /\ SetManager(m, [mgr[m] EXCEPT !.loop = "handshake", !.at = s, !.failures = 0, !.exhausted = FALSE, !.reconnecting = FALSE])
    /\ socket' = [socket EXCEPT ![s].step = "handshake"]
    /\ UNCHANGED <<slot, reserved, restart, relaunches, signalled, events, store, client, starts, faults, lost>>

\* The connection at hand ends, and the loop goes on.
Refuse(m) ==
    /\ socket' = [socket EXCEPT ![mgr[m].at].step = "gone"]
    /\ Loop(m, "accept", 0)

\* validate_handshake: the generation of the path is the current one, or the
\* upgrade is refused.
Handshake(m) ==
    /\ mgr[m].loop = "handshake"
    /\ IF socket[mgr[m].at].gen = mgr[m].gen
       THEN socket' = [socket EXCEPT ![mgr[m].at].step = "upgraded"] /\ Loop(m, "upgraded", mgr[m].at)
       ELSE Refuse(m)
    /\ UNCHANGED <<slot, reserved, restart, relaunches, signalled, events, store, client, starts, faults, lost>>

\* One connection per generation; a spawn that fails drops this one only.  Nobody
\* is told: an endpoint that turns its client away while the relay before it is
\* still ending is lost.
Spawn(m) ==
    /\ mgr[m].loop = "upgraded"
    /\ \/ /\ Refuse(m)
          /\ IF mgr[m].sender # 0 THEN UNCHANGED faults ELSE Fault
          /\ lost' = IF mgr[m].sender # 0 /\ socket[mgr[m].sender].step = "gone" THEN lost
                     ELSE lost \union {<<m, socket[mgr[m].at].gen>>}
       \/ /\ mgr[m].sender = 0
          /\ SetManager(m, [mgr[m] EXCEPT !.loop = "running", !.running = TRUE, !.restarting = FALSE])
          /\ UNCHANGED <<socket, faults, lost>>
    /\ UNCHANGED <<slot, reserved, restart, relaunches, signalled, events, store, client, starts>>

PublishRunning(m) ==
    /\ mgr[m].loop = "running"
    /\ Send(Event(m, mgr[m], "running"))
    /\ Loop(m, "register", mgr[m].at)
    /\ UNCHANGED <<slot, reserved, restart, relaunches, socket, signalled, store, client, starts, faults, lost>>

\* conn_shutdown.replace, and the task of the relay.
Register(m) ==
    /\ mgr[m].loop = "register"
    /\ SetManager(m, [mgr[m] EXCEPT !.loop = "accept", !.at = 0, !.sender = mgr[m].at])
    /\ Signal({mgr[m].sender})
    /\ socket' = [socket EXCEPT ![mgr[m].at].step = "live"]
    /\ UNCHANGED <<slot, reserved, restart, relaunches, events, store, client, starts, faults, lost>>

\* accept() fails: wait and try again, or give up.
AcceptFails(m) ==
    /\ mgr[m].loop = "accept" /\ ~mgr[m].stop /\ Fault
    /\ LET out == mgr[m].failures >= Backoff
           r   == [mgr[m] EXCEPT !.running = FALSE, !.failures = @ + 1, !.exhausted = @ \/ out,
                                 !.reconnecting = ~out, !.loop = IF out THEN "giveUp" ELSE "backoff"]
       IN  /\ SetManager(m, r)
           /\ IF out THEN UNCHANGED events ELSE Send(Event(m, r, "restarting"))
    /\ UNCHANGED <<slot, reserved, restart, relaunches, socket, signalled, store, client, starts, lost>>

\* A restart may have come first: the loop goes on, and the webview is told
\* under the new generation that it does not.
GiveUp(m) ==
    /\ mgr[m].loop = "giveUp"
    /\ Send(Event(m, mgr[m], "failed"))
    /\ Loop(m, "parked", 0)
    /\ lost' = IF mgr[m].exhausted THEN lost ELSE lost \union {<<m, mgr[m].gen>>}
    /\ UNCHANGED <<slot, reserved, restart, relaunches, socket, signalled, store, client, starts, faults>>

\* The backoff is over, or a restart has bumped the wake channel.
Retry(m) ==
    /\ \/ mgr[m].loop = "backoff"
       \/ mgr[m].loop = "parked" /\ ~mgr[m].exhausted
    /\ Loop(m, "accept", 0)
    /\ UNCHANGED <<slot, reserved, restart, relaunches, socket, signalled, events, store, client, starts, faults, lost>>

\* The shutdown watch is looked at between two connections; the listener goes,
\* and with it the streams it has not accepted.
Stop(m) ==
    /\ mgr[m].stop /\ mgr[m].loop \in {"accept", "backoff", "parked"}
    /\ Loop(m, "stopped", 0)
    /\ socket' = [s \in Sockets |-> IF socket[s].m = m /\ socket[s].step = "dialled"
                                    THEN [socket[s] EXCEPT !.step = "gone"] ELSE socket[s]]
    /\ UNCHANGED <<slot, reserved, restart, relaunches, signalled, events, store, client, starts, faults, lost>>

-----------------------------------------------------------------------------
(* The task of a relay.                                                    *)

Closed(s) == client.socket # s
Step(s, from, to) == socket[s].step = from /\ socket' = [socket EXCEPT ![s].step = to]

\* The oneshot is looked at first; the end is quiet.  When the path of this
\* connection names the newest generation, nothing calls the client back.
Superseded(s) ==
    /\ s \in signalled /\ Step(s, "live", "gone")
    /\ lost' = lost \union {<<socket[s].m, socket[s].gen>>}
    /\ UNCHANGED <<mgr, slot, reserved, restart, relaunches, signalled, events, store, client, starts, faults>>

\* The child crashes, or the webview has closed the socket.
RelayEnds(s) ==
    /\ s \notin signalled /\ Step(s, "live", "ended")
    /\ IF Closed(s) THEN UNCHANGED faults ELSE Fault
    /\ UNCHANGED <<mgr, slot, reserved, restart, relaunches, signalled, events, store, client, starts, lost>>

EndBumps(s) ==
    /\ Step(s, "ended", "bumped")
    /\ SetManager(socket[s].m, [mgr[socket[s].m] EXCEPT !.gen = @ + 1])
    /\ UNCHANGED <<slot, reserved, restart, relaunches, signalled, events, store, client, starts, faults, lost>>

\* Mutant: the sender stays in the slot.
EndKeepsSender(s) ==
    /\ Step(s, "bumped", "cleared")
    /\ UNCHANGED <<mgr, slot, reserved, restart, relaunches, signalled, events, store, client, starts, faults, lost>>

\* The slot is emptied, whoever's sender is in it.
EndClears(s) ==
    /\ Step(s, "bumped", "cleared")
    /\ SetManager(socket[s].m, [mgr[socket[s].m] EXCEPT !.sender = 0])
    /\ Signal({mgr[socket[s].m].sender})
    /\ UNCHANGED <<slot, reserved, restart, relaunches, events, store, client, starts, faults, lost>>

EndPublishes(s) ==
    /\ Step(s, "cleared", "gone")
    /\ LET m == socket[s].m
           r == [mgr[m] EXCEPT !.running = FALSE]
       IN  SetManager(m, r) /\ Send(Event(m, r, "restarting"))
    /\ UNCHANGED <<slot, reserved, restart, relaunches, signalled, store, client, starts, faults, lost>>

-----------------------------------------------------------------------------
(* The service: restarts and relaunches.                                   *)

RestartBegins ==
    /\ restart = "no" /\ slot # 0 /\ Fault
    /\ SetManager(slot, [mgr[slot] EXCEPT !.restarting = TRUE, !.failures = IF mgr[slot].exhausted THEN 0 ELSE @,
                                   !.reconnecting = @ /\ ~mgr[slot].exhausted, !.exhausted = FALSE])
    /\ restart' = "flagged"
    /\ UNCHANGED <<slot, reserved, relaunches, socket, signalled, events, store, client, starts, lost>>

RestartBumps ==
    /\ restart = "flagged" /\ restart' = "bumped"
    /\ SetManager(slot, [mgr[slot] EXCEPT !.gen = @ + 1])
    /\ UNCHANGED <<slot, reserved, relaunches, socket, signalled, events, store, client, starts, faults, lost>>

RestartSupersedes ==
    /\ restart = "bumped" /\ restart' = "superseded"
    /\ SetManager(slot, [mgr[slot] EXCEPT !.sender = 0])
    /\ Signal({mgr[slot].sender})
    /\ UNCHANGED <<slot, reserved, relaunches, socket, events, store, client, starts, faults, lost>>

RestartPublishes ==
    /\ restart = "superseded" /\ restart' = "no"
    /\ Send(Event(slot, mgr[slot], StatusKind(mgr[slot])))
    /\ UNCHANGED <<mgr, slot, reserved, relaunches, socket, signalled, store, client, starts, faults, lost>>

Largest(S) == CHOOSE n \in S : \A k \in S : k <= n
Unborn == {m \in Managers : mgr[m].loop = "unborn"}

\* reserve_generation
Reserve == Largest({reserved, IF slot = 0 THEN 1 ELSE mgr[slot].gen + Jump})

\* Phase 1, under the service's lock: the old manager goes quietly.
RelaunchBegins ==
    /\ restart = "no" /\ Unborn # {} /\ Fault
    /\ LET m    == CHOOSE n \in Unborn : \A k \in Unborn : n <= k
           made == [mgr EXCEPT ![m] = [Fresh EXCEPT !.gen = Reserve, !.loop = "starting"]]
           old  == [mgr[slot] EXCEPT !.sender = 0, !.stop = TRUE, !.running = FALSE]
       IN  /\ mgr' = IF slot = 0 THEN made ELSE [made EXCEPT ![slot] = old]
           /\ relaunches' = relaunches \union {m}
    /\ reserved' = Reserve + Jump
    /\ Signal(IF slot = 0 THEN {} ELSE {mgr[slot].sender})
    /\ slot' = 0
    /\ UNCHANGED <<restart, socket, events, store, client, starts, lost>>

\* Phase 2, outside it.  Only a manager without a binary announces itself.
RelaunchStarts(m) ==
    /\ mgr[m].loop = "starting"
    /\ \/ SetManager(m, Started(mgr[m], mgr[m].gen, TRUE)) /\ lost' = lost \union {<<m, mgr[m].gen>>} /\ UNCHANGED events
       \/ /\ SetManager(m, Started(mgr[m], mgr[m].gen, FALSE))
          /\ Send([m |-> m, gen |-> mgr[m].gen, kind |-> "unavailable", url |-> FALSE])
          /\ UNCHANGED lost
    /\ UNCHANGED <<slot, reserved, restart, relaunches, socket, signalled, store, client, starts, faults>>

\* Installed, unless a newer one is there already.  A manager that is replaced
\* here is dropped: its listener stops, its relay is left alone.
RelaunchInstalls(m) ==
    /\ restart = "no" /\ m \in relaunches /\ mgr[m].loop # "starting"
    /\ LET overtaken == slot # 0 /\ mgr[slot].gen >= mgr[m].gen
           loser == IF overtaken THEN m ELSE slot
       IN  /\ slot' = IF overtaken THEN slot ELSE m
           /\ mgr' = IF loser = 0 THEN mgr
                     ELSE [mgr EXCEPT ![loser].stop = TRUE, ![loser].sender = IF overtaken THEN 0 ELSE @]
           /\ Signal(IF overtaken THEN {mgr[m].sender} ELSE {})
    /\ relaunches' = relaunches \ {m}
    /\ UNCHANGED <<reserved, restart, socket, events, store, client, starts, faults, lost>>

-----------------------------------------------------------------------------
(* The webview.                                                            *)

\* applyPayload: an older generation than the gate's is dropped.  A new
\* endpoint starts the client: once for the effect of the editor, and once for
\* useLspWorkspaceReconnect, which waits for the first client to be ready.
Receive ==
    /\ events # <<>> /\ events' = Tail(events)
    /\ LET e == Head(events) IN
       IF e.gen < store.gate
       THEN /\ lost' = IF e.gen > store.gen THEN lost \union {<<e.m, e.gen>>} ELSE lost
            /\ UNCHANGED <<store, starts>>
       ELSE /\ store' = [m |-> IF e.url THEN e.m ELSE 0, gen |-> e.gen, kind |-> e.kind, gate |-> e.gen]
            /\ starts' = IF e.url
                         THEN (IF store.m # e.m \/ store.gen # e.gen THEN 1 ELSE starts)
                              + (IF client.ready /\ e.gen > store.gen THEN 1 ELSE 0)
                         ELSE 0
            /\ UNCHANGED lost
    /\ UNCHANGED <<mgr, slot, reserved, restart, relaunches, socket, signalled, client, faults>>

Unused == {s \in Sockets : socket[s].step = "none"}

\* startImpl: nothing to do, or the old socket is closed and a new one dialled.
StartClient ==
    /\ starts > 0 /\ client.state # "dialling" /\ starts' = starts - 1
    /\ IF client.state = "ready" /\ client.m = store.m /\ client.gen = store.gen
       THEN UNCHANGED <<client, socket, store>>
       ELSE /\ Unused # {}
            /\ LET s == CHOOSE n \in Unused : \A k \in Unused : n <= k
                   dead == mgr[store.m].loop = "stopped"
               IN  /\ socket' = [socket EXCEPT ![s] = [step |-> IF dead THEN "gone" ELSE "dialled", m |-> store.m, gen |-> store.gen]]
                   /\ client' = [client EXCEPT !.state = "dialling", !.socket = s, !.m = store.m,
                                               !.gen = store.gen, !.generation = @ + 1]
            /\ store' = [store EXCEPT !.gate = Largest({@, client.generation + 1})]
    /\ UNCHANGED <<mgr, slot, reserved, restart, relaunches, signalled, events, faults, lost>>

\* initialize is answered.
ClientReady ==
    /\ client.state = "dialling" /\ socket[client.socket].step = "live"
    /\ client' = [client EXCEPT !.state = "ready", !.ready = TRUE]
    /\ UNCHANGED <<mgr, slot, reserved, restart, relaunches, socket, signalled, events, store, starts, faults, lost>>

\* The upgrade is refused, or the connection is lost.
ClientFails ==
    /\ client.state \in {"dialling", "ready"} /\ socket[client.socket].step \in {"gone", "ended", "bumped", "cleared"}
    /\ client' = [client EXCEPT !.state = "failed", !.socket = 0]
    /\ UNCHANGED <<mgr, slot, reserved, restart, relaunches, socket, signalled, events, store, starts, faults, lost>>

LspNext ==
    \/ \E m \in Managers :
          \/ Handshake(m) \/ Spawn(m) \/ PublishRunning(m) \/ Register(m)
          \/ AcceptFails(m) \/ GiveUp(m) \/ Retry(m) \/ Stop(m)
          \/ RelaunchStarts(m) \/ RelaunchInstalls(m)
          \/ \E s \in Sockets : Accept(m, s)
    \/ \E s \in Sockets : Superseded(s) \/ RelayEnds(s) \/ EndBumps(s) \/ EndClears(s) \/ EndPublishes(s)
    \/ RestartBegins \/ RestartBumps \/ RestartSupersedes \/ RestartPublishes \/ RelaunchBegins
    \/ Receive \/ StartClient \/ ClientReady \/ ClientFails

LspSpec == LspInit /\ [][LspNext]_lspVars

-----------------------------------------------------------------------------

Resting(m) == mgr[m].loop \in {"unborn", "accept", "degraded", "parked", "stopped"} /\ (mgr[m].stop => mgr[m].loop = "stopped")
LspAtRest ==
    /\ \A m \in Managers : Resting(m)
    /\ \A s \in Sockets : socket[s].step \in {"none", "gone"} \/ (socket[s].step = "live" /\ s \notin signalled /\ ~Closed(s))
    /\ restart = "no" /\ relaunches = {} /\ events = <<>> /\ starts = 0
    /\ client.state # "dialling"

\* One live relay per manager, whatever restarts and crashes meet.
OneRelay ==
    \A m \in Managers :
        Cardinality({s \in Sockets : socket[s].step = "live" /\ socket[s].m = m /\ s \notin signalled}) <= 1

\* At rest the webview knows the generation of the manager in the service, and
\* its client is connected to it, if there is a server and its loop accepts.
ClientFollows ==
    LspAtRest /\ slot # 0 /\ <<slot, mgr[slot].gen>> \notin lost =>
        /\ store.gen = mgr[slot].gen
        /\ Available(slot) /\ ~mgr[slot].exhausted =>
              client.state = "ready" /\ client.m = slot /\ client.gen = mgr[slot].gen

\* A webview that is at rest with a loop that accepts does not say that a manual
\* restart is required ("the frontend should clear its 'manual restart required'
\* state", restart).
RestartClearsFailure ==
    LspAtRest /\ slot # 0 /\ mgr[slot].loop = "accept" /\ store.gen = mgr[slot].gen => store.kind # "failed"

\* An event of a manager that has been replaced never passes for one of its
\* successor.
SuccessorsWin ==
    \A i \in 1..Len(events) : slot # 0 /\ events[i].m < slot => events[i].gen < mgr[slot].gen

\* After a relaunch the webview learns of the new endpoint.
RelaunchIsAnnounced ==
    LspAtRest /\ slot # 0 => store.gen >= mgr[slot].gen

\* Connections are superseded in one order: one relay, and no late event of an
\* old manager.
OneServerAtATime == OneRelay /\ SuccessorsWin
=============================================================================
