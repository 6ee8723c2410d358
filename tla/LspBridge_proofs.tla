-------------------------- MODULE LspBridge_proofs --------------------------
(***************************************************************************)
(* Theorems about LspBridge: one server at a time, and a client in the     *)
(* webview that follows it.                                                *)
(***************************************************************************)
EXTENDS LspBridge, FiniteSetTheorems, SequenceTheorems, TLAPS

LoopSteps   == {"unborn", "starting", "accept", "degraded", "handshake", "upgraded", "running", "register",
                "giveUp", "parked", "backoff", "stopped"}
Kinds       == {"running", "awaitingClient", "restarting", "failed", "unavailable"}
SocketSteps == {"none", "dialled", "handshake", "upgraded", "live", "ended", "bumped", "cleared", "gone"}

ManagerRecords ==
    [gen : Nat, loop : LoopSteps, at : Sockets \union {0}, sender : Sockets \union {0}, running : BOOLEAN,
     stop : BOOLEAN, restarting : BOOLEAN, reconnecting : BOOLEAN, failures : Nat, exhausted : BOOLEAN]

ManagersTyped ==
    /\ mgr \in [Managers -> ManagerRecords]
    /\ slot \in Managers \union {0} /\ reserved \in Nat
    /\ restart \in {"no", "flagged", "bumped", "superseded"} /\ faults \in 0..MaxFaults
    /\ relaunches \subseteq Managers

SocketsTyped ==
    /\ socket \in [Sockets -> [step : SocketSteps, m : Managers \union {0}, gen : Nat]]
    /\ signalled \subseteq Sockets

EventsTyped ==
    /\ events \in Seq([m : Managers, gen : Nat, kind : Kinds, url : BOOLEAN])
    /\ store = [m |-> store.m, gen |-> store.gen, kind |-> store.kind, gate |-> store.gate]
    /\ store.m \in Managers \union {0} /\ store.gen \in Nat
    /\ starts \in Nat

BridgeTyped == ManagersTyped /\ SocketsTyped /\ EventsTyped

Born(m) == mgr[m].loop # "unborn"

\* Managers are made in order, and nothing points to one that is not made yet.
ManagersInOrder ==
    /\ \E k \in Managers : \A m \in Managers : Born(m) <=> m <= k
    /\ \A m \in Managers : ~Born(m) => mgr[m].sender = 0
    /\ slot # 0 => Born(slot)
    /\ restart # "no" => slot # 0
    /\ \A m \in relaunches : Born(m)

\* Sockets are dialled in order, each to a manager that is made.
SocketsInOrder ==
    /\ \E k \in Nat : \A s \in Sockets : socket[s].step # "none" <=> s <= k
    /\ \A s \in Sockets : socket[s].step # "none" => socket[s].m \in Managers /\ Born(socket[s].m)
    /\ store.m # 0 => Born(store.m)
    /\ starts > 0 => store.m # 0

\* The connection an accept loop is at is its own and not a relay yet.
LoopAtItsOwn ==
    \A m \in Managers : mgr[m].loop \in {"handshake", "upgraded", "running", "register"} =>
        /\ mgr[m].at \in Sockets /\ socket[mgr[m].at].m = m
        /\ socket[mgr[m].at].step \in {"handshake", "upgraded"}

\* A relay that nobody told to end is the one whose sender its manager holds.
SenderOfRelay ==
    \A s \in Sockets : socket[s].step = "live" /\ s \notin signalled => mgr[socket[s].m].sender = s

\* What can still add to a generation: connections, and restarts.
Unbumped == {s \in Sockets : socket[s].step \notin {"bumped", "cleared", "gone"}}
Budget   == Cardinality(Unbumped) + (MaxFaults - faults) + (IF restart = "flagged" THEN 1 ELSE 0)

\* Whatever they add, a manager stays below the next one and below what is
\* reserved; and an event is not younger than its manager.
GensApart ==
    /\ \A m, n \in Managers : m < n /\ Born(n) => mgr[m].gen + Budget < mgr[n].gen
    /\ \A m \in Managers : Born(m) => mgr[m].gen + Budget < reserved
EventsBehind ==
    \A i \in 1..Len(events) : Born(events[i].m) /\ events[i].gen <= mgr[events[i].m].gen

BridgeInv ==
    /\ BridgeTyped /\ ManagersInOrder /\ SocketsInOrder /\ LoopAtItsOwn
    /\ SenderOfRelay /\ GensApart /\ EventsBehind

-----------------------------------------------------------------------------
(* Operators of the model.                                                 *)

\* The larger of two numbers.
LEMMA LargerOfTwo ==
    ASSUME NEW a \in Int, NEW b \in Int
    PROVE  Largest({a, b}) \in {a, b} /\ Largest({a, b}) >= a /\ Largest({a, b}) >= b
<1>1. \E n \in {a, b} : \A k \in {a, b} : k <= n
  <2>1. CASE a <= b  BY <2>1
  <2>2. CASE b <= a  BY <2>2
  <2> QED BY <2>1, <2>2
<1> QED BY <1>1 DEF Largest

\* The least of the numbers above k in a set that holds k + 1.
LEMMA LeastAbove ==
    ASSUME NEW S, S \subseteq Int, NEW k \in Int, k + 1 \in S, \A n \in S : n > k
    PROVE  (CHOOSE n \in S : \A j \in S : n <= j) = k + 1
<1>1. k + 1 \in S /\ \A j \in S : k + 1 <= j
  OBVIOUS
<1>2. ASSUME NEW n \in S, \A j \in S : n <= j PROVE n = k + 1
  BY <1>2
<1> QED BY <1>1, <1>2

\* Managers and sockets are numbered from one.
LEMMA Numbered ==
    0 \notin Managers /\ 0 \notin Sockets /\ MaxFaults \in Nat /\ Managers \subseteq Nat /\ Sockets \subseteq Nat
<1>1. Cardinality(Managers) \in Nat /\ Cardinality(Sockets) \in Nat
  BY LspAssumption, FS_CardinalityType
<1> QED BY <1>1, LspAssumption

\* The manager that a relaunch makes is the next one.
LEMMA NextManager ==
    ASSUME BridgeTyped, NEW k \in Managers, \A m \in Managers : Born(m) <=> m <= k, Unborn # {}
    PROVE  /\ k + 1 \in Managers /\ ~Born(k + 1)
           /\ (CHOOSE n \in Unborn : \A j \in Unborn : n <= j) = k + 1
<1>1. PICK N \in Nat : Managers = 1..N
  BY LspAssumption, FS_CardinalityType
<1>2. PICK m \in Unborn : TRUE
  OBVIOUS
<1>3. m \in Managers /\ ~(m <= k)
  BY DEF Unborn, Born
<1>4. k + 1 \in Managers
  BY <1>1, <1>3
<1>5. ~Born(k + 1)
  BY <1>1, <1>4
<1>6. Unborn \subseteq Int /\ k + 1 \in Unborn /\ \A n \in Unborn : n > k
  BY <1>1, <1>4, <1>5 DEF Unborn, Born
<1>7. k \in Int
  BY <1>1
<1> HIDE DEF Unborn
<1>8. (CHOOSE n \in Unborn : \A j \in Unborn : n <= j) = k + 1
  BY <1>6, <1>7, LeastAbove
<1> QED BY <1>4, <1>5, <1>8

\* The socket that is dialled is the next one.
LEMMA NextSocket ==
    ASSUME BridgeTyped, NEW k \in Nat, \A s \in Sockets : socket[s].step # "none" <=> s <= k, Unused # {}
    PROVE  /\ k + 1 \in Sockets /\ socket[k + 1].step = "none"
           /\ (CHOOSE n \in Unused : \A j \in Unused : n <= j) = k + 1
<1>1. PICK N \in Nat : Sockets = 1..N
  BY LspAssumption, FS_CardinalityType
<1>2. PICK s \in Unused : TRUE
  OBVIOUS
<1>3. s \in Sockets /\ ~(s <= k)
  BY DEF Unused
<1>4. k + 1 \in Sockets
  BY <1>1, <1>3
<1>5. socket[k + 1].step = "none"
  BY <1>1, <1>4
<1>6. Unused \subseteq Int /\ k + 1 \in Unused /\ \A n \in Unused : n > k
  BY <1>1, <1>4, <1>5 DEF Unused
<1>7. k \in Int
  OBVIOUS
<1> HIDE DEF Unused
<1>8. (CHOOSE n \in Unused : \A j \in Unused : n <= j) = k + 1
  BY <1>6, <1>7, LeastAbove
<1> QED BY <1>4, <1>5, <1>8

\* What is sent to the webview keeps the type of the queue.
LEMMA SendTyped ==
    ASSUME BridgeTyped, NEW e \in [m : Managers, gen : Nat, kind : Kinds, url : BOOLEAN], Send(e)
    PROVE  /\ events' \in Seq([m : Managers, gen : Nat, kind : Kinds, url : BOOLEAN])
           /\ Len(events') = Len(events) + 1
           /\ \A i \in 1..Len(events') : events'[i] = IF i = Len(events) + 1 THEN e ELSE events[i]
BY AppendProperties DEF BridgeTyped, EventsTyped, Send

-----------------------------------------------------------------------------
(* Types.                                                                  *)

\* One manager changes.
LEMMA ManagerSet ==
    ASSUME ManagersTyped, NEW m \in Managers, NEW r \in ManagerRecords, SetManager(m, r)
    PROVE  /\ mgr' \in [Managers -> ManagerRecords]
           /\ mgr'[m] = r /\ \A k \in Managers \ {m} : mgr'[k] = mgr[k]
<1> DEFINE RR == ManagerRecords
<1>1. mgr \in [Managers -> RR] /\ r \in RR
  BY DEF ManagersTyped
<1> HIDE DEF RR
<1>2. mgr' \in [Managers -> RR] /\ mgr'[m] = r /\ \A k \in Managers \ {m} : mgr'[k] = mgr[k]
  BY <1>1 DEF SetManager
<1> QED BY <1>2 DEF RR

\* What a step does to one manager, as far as the invariants can see.
Becomes(m, loop, at, sender, gen) ==
    /\ mgr' \in [Managers -> ManagerRecords]
    /\ mgr'[m].loop = loop /\ mgr'[m].at = at /\ mgr'[m].sender = sender /\ mgr'[m].gen = gen
    /\ \A k \in Managers \ {m} : mgr'[k] = mgr[k]

LEMMA RecordSet ==
    ASSUME ManagersTyped, NEW m \in Managers, NEW r \in ManagerRecords, SetManager(m, r)
    PROVE  Becomes(m, r.loop, r.at, r.sender, r.gen)
BY ManagerSet DEF Becomes

\* What a step does to one socket.
Turns(s, step) ==
    /\ socket' \in [Sockets -> [step : SocketSteps, m : Managers \union {0}, gen : Nat]]
    /\ \A q \in Sockets : /\ socket'[q].m = socket[q].m /\ socket'[q].gen = socket[q].gen
                           /\ socket'[q].step = IF q = s THEN step ELSE socket[q].step

LEMMA SocketSet ==
    ASSUME SocketsTyped, NEW s \in Sockets, NEW step \in SocketSteps, socket' = [socket EXCEPT ![s].step = step]
    PROVE  Turns(s, step)
<1> DEFINE R == [socket[s] EXCEPT !.step = step]
<1>1. socket[s] \in [step : SocketSteps, m : Managers \union {0}, gen : Nat]
  BY DEF SocketsTyped
<1>2. R \in [step : SocketSteps, m : Managers \union {0}, gen : Nat] /\ R.m = socket[s].m /\ R.gen = socket[s].gen /\ R.step = step
  BY <1>1
<1>3. socket' = [socket EXCEPT ![s] = R]
  OBVIOUS
<1> HIDE DEF R
<1>4. socket' \in [Sockets -> [step : SocketSteps, m : Managers \union {0}, gen : Nat]]
      /\ socket'[s] = R /\ \A q \in Sockets \ {s} : socket'[q] = socket[q]
  BY <1>2, <1>3 DEF SocketsTyped
<1> QED BY <1>2, <1>4 DEF Turns

\* The loop of a manager goes on to another step.
LEMMA LoopGoes ==
    ASSUME BridgeTyped, NEW m \in Managers, NEW step \in LoopSteps, NEW s \in Sockets \union {0}, Loop(m, step, s)
    PROVE  Becomes(m, step, s, mgr[m].sender, mgr[m].gen)
<1> DEFINE R == [mgr[m] EXCEPT !.loop = step, !.at = s]
<1>1. mgr[m] \in ManagerRecords
  BY DEF BridgeTyped, ManagersTyped
<1>2. R \in ManagerRecords /\ R.gen = mgr[m].gen /\ R.sender = mgr[m].sender /\ R.loop = step /\ R.at = s
  BY <1>1 DEF ManagerRecords
<1>3. SetManager(m, R)
  BY DEF Loop
<1> HIDE DEF R
<1> QED BY <1>2, <1>3, RecordSet DEF BridgeTyped

LEMMA AcceptDoes ==
    ASSUME BridgeTyped, NEW m \in Managers, NEW s \in Sockets, Accept(m, s)
    PROVE  Becomes(m, "handshake", s, mgr[m].sender, mgr[m].gen) /\ Turns(s, "handshake")
<1> DEFINE R == [mgr[m] EXCEPT !.loop = "handshake", !.at = s, !.failures = 0, !.exhausted = FALSE, !.reconnecting = FALSE]
<1>1. mgr[m] \in ManagerRecords
  BY DEF BridgeTyped, ManagersTyped
<1>2. R \in ManagerRecords /\ R.gen = mgr[m].gen /\ R.sender = mgr[m].sender /\ R.loop = "handshake" /\ R.at = s
  BY <1>1 DEF ManagerRecords, LoopSteps
<1>3. SetManager(m, R)
  BY DEF Accept
<1> HIDE DEF R
<1>4. Becomes(m, "handshake", s, mgr[m].sender, mgr[m].gen)
  BY <1>2, <1>3, RecordSet DEF BridgeTyped
<1> QED BY <1>4, SocketSet DEF Accept, SocketSteps, BridgeTyped

LEMMA RefuseDoes ==
    ASSUME BridgeTyped, NEW m \in Managers, mgr[m].at \in Sockets, Refuse(m)
    PROVE  Becomes(m, "accept", 0, mgr[m].sender, mgr[m].gen) /\ Turns(mgr[m].at, "gone")
BY LoopGoes, SocketSet DEF Refuse, LoopSteps, SocketSteps, BridgeTyped

LEMMA HandshakeDoes ==
    ASSUME BridgeTyped, NEW m \in Managers, mgr[m].at \in Sockets, Handshake(m)
    PROVE  \/ Becomes(m, "upgraded", mgr[m].at, mgr[m].sender, mgr[m].gen) /\ Turns(mgr[m].at, "upgraded")
           \/ Becomes(m, "accept", 0, mgr[m].sender, mgr[m].gen) /\ Turns(mgr[m].at, "gone")
<1>1. \/ socket' = [socket EXCEPT ![mgr[m].at].step = "upgraded"] /\ Loop(m, "upgraded", mgr[m].at)
      \/ Refuse(m)
  BY DEF Handshake
<1>2. CASE Refuse(m)
  BY <1>2, RefuseDoes
<1>3. CASE socket' = [socket EXCEPT ![mgr[m].at].step = "upgraded"] /\ Loop(m, "upgraded", mgr[m].at)
  BY <1>3, LoopGoes, SocketSet DEF LoopSteps, SocketSteps, BridgeTyped
<1> QED BY <1>1, <1>2, <1>3

LEMMA SpawnDoes ==
    ASSUME BridgeTyped, NEW m \in Managers, mgr[m].at \in Sockets, Spawn(m)
    PROVE  \/ Becomes(m, "running", mgr[m].at, mgr[m].sender, mgr[m].gen) /\ UNCHANGED socket
           \/ Becomes(m, "accept", 0, mgr[m].sender, mgr[m].gen) /\ Turns(mgr[m].at, "gone")
<1>1. CASE Refuse(m)
  BY <1>1, RefuseDoes
<1>2. CASE SetManager(m, [mgr[m] EXCEPT !.loop = "running", !.running = TRUE, !.restarting = FALSE]) /\ UNCHANGED socket
  <2> DEFINE R == [mgr[m] EXCEPT !.loop = "running", !.running = TRUE, !.restarting = FALSE]
  <2>1. mgr[m] \in ManagerRecords
    BY DEF BridgeTyped, ManagersTyped
  <2>2. R \in ManagerRecords /\ R.gen = mgr[m].gen /\ R.sender = mgr[m].sender /\ R.loop = "running" /\ R.at = mgr[m].at
    BY <2>1 DEF ManagerRecords, LoopSteps
  <2> HIDE DEF R
  <2>3. SetManager(m, R)
    BY <1>2 DEF R
  <2> QED BY <1>2, <2>2, <2>3, RecordSet DEF BridgeTyped
<1> QED BY <1>1, <1>2 DEF Spawn

LEMMA RegisterDoes ==
    ASSUME BridgeTyped, NEW m \in Managers, mgr[m].at \in Sockets, Register(m)
    PROVE  Becomes(m, "accept", 0, mgr[m].at, mgr[m].gen) /\ Turns(mgr[m].at, "live")
<1> DEFINE R == [mgr[m] EXCEPT !.loop = "accept", !.at = 0, !.sender = mgr[m].at]
<1>1. mgr[m] \in ManagerRecords
  BY DEF BridgeTyped, ManagersTyped
<1>2. R \in ManagerRecords /\ R.gen = mgr[m].gen /\ R.sender = mgr[m].at /\ R.loop = "accept" /\ R.at = 0
  BY <1>1 DEF ManagerRecords, LoopSteps
<1>3. SetManager(m, R)
  BY DEF Register
<1> HIDE DEF R
<1>4. Becomes(m, "accept", 0, mgr[m].at, mgr[m].gen)
  BY <1>2, <1>3, RecordSet DEF BridgeTyped
<1> QED BY <1>4, SocketSet DEF Register, SocketSteps, BridgeTyped

\* accept() fails: the manager that the event is about is the one that is kept.
LEMMA AcceptFailsDoes ==
    ASSUME BridgeTyped, NEW m \in Managers, AcceptFails(m)
    PROVE  /\ \E step \in {"giveUp", "backoff"} : Becomes(m, step, mgr[m].at, mgr[m].sender, mgr[m].gen)
           /\ \/ UNCHANGED events
              \/ \E e \in [m : Managers, gen : Nat, kind : Kinds, url : BOOLEAN] :
                     e.m = m /\ e.gen = mgr[m].gen /\ Send(e)
<1>1. mgr[m] \in ManagerRecords
  BY DEF BridgeTyped, ManagersTyped
<1>2. \E x \in BOOLEAN, y \in BOOLEAN, step \in {"giveUp", "backoff"} :
          LET r == [mgr[m] EXCEPT !.running = FALSE, !.failures = @ + 1, !.exhausted = x,
                                  !.reconnecting = y, !.loop = step]
          IN  SetManager(m, r) /\ (UNCHANGED events \/ Send(Event(m, r, "restarting")))
  <2>1. CASE mgr[m].failures >= Backoff
    <3>1. (mgr[m].exhausted \/ mgr[m].failures >= Backoff) = TRUE /\ (~(mgr[m].failures >= Backoff)) = FALSE
      BY <2>1
    <3> QED BY <2>1, <3>1 DEF AcceptFails
  <2>2. CASE ~(mgr[m].failures >= Backoff)
    <3>1. (mgr[m].exhausted \/ mgr[m].failures >= Backoff) = mgr[m].exhausted /\ (~(mgr[m].failures >= Backoff)) = TRUE
      BY <1>1, <2>2 DEF ManagerRecords
    <3>2. mgr[m].exhausted \in BOOLEAN
      BY <1>1 DEF ManagerRecords
    <3> QED BY <2>2, <3>1, <3>2 DEF AcceptFails
  <2> QED BY <2>1, <2>2
<1>3. PICK x \in BOOLEAN, y \in BOOLEAN, step \in {"giveUp", "backoff"} :
          LET q == [mgr[m] EXCEPT !.running = FALSE, !.failures = @ + 1, !.exhausted = x,
                                  !.reconnecting = y, !.loop = step]
          IN  SetManager(m, q) /\ (UNCHANGED events \/ Send(Event(m, q, "restarting")))
  BY <1>2
<1> DEFINE r == [mgr[m] EXCEPT !.running = FALSE, !.failures = @ + 1, !.exhausted = x,
                               !.reconnecting = y, !.loop = step]
<1>4. r \in ManagerRecords /\ r.gen = mgr[m].gen /\ r.sender = mgr[m].sender
      /\ r.loop = step /\ r.at = mgr[m].at
  <2>1. mgr[m].failures + 1 \in Nat /\ step \in LoopSteps
    BY <1>1 DEF ManagerRecords, LoopSteps
  <2>2. ASSUME NEW n \in Nat, NEW q, q = [mgr[m] EXCEPT !.running = FALSE, !.failures = n, !.exhausted = x,
                                                 !.reconnecting = y, !.loop = step]
        PROVE  q \in ManagerRecords /\ q.gen = mgr[m].gen /\ q.sender = mgr[m].sender
               /\ q.loop = step /\ q.at = mgr[m].at
    BY <1>1, <2>1, <2>2, Zenon DEF ManagerRecords
  <2>3. r = [mgr[m] EXCEPT !.running = FALSE, !.failures = mgr[m].failures + 1, !.exhausted = x,
                            !.reconnecting = y, !.loop = step]
    OBVIOUS
  <2> HIDE DEF r
  <2> QED BY <2>1, <2>2, <2>3
<1>5. SetManager(m, r) /\ (UNCHANGED events \/ Send(Event(m, r, "restarting")))
  BY <1>3
<1> HIDE DEF r
<1>6. /\ Event(m, r, "restarting") \in [m : Managers, gen : Nat, kind : Kinds, url : BOOLEAN]
      /\ Event(m, r, "restarting").m = m /\ Event(m, r, "restarting").gen = mgr[m].gen
  <2>1. Available(m) \in BOOLEAN
    BY DEF Available
  <2>2. r.gen \in Nat
    BY <1>4 DEF ManagerRecords
  <2> QED BY <1>4, <2>1, <2>2 DEF Event, Kinds
<1>7. Becomes(m, step, mgr[m].at, mgr[m].sender, mgr[m].gen)
  BY <1>4, <1>5, RecordSet DEF BridgeTyped
<1> QED BY <1>5, <1>6, <1>7

LEMMA RelaunchReadyDoes ==
    ASSUME BridgeTyped, NEW m \in Managers, NEW ok \in BOOLEAN, SetManager(m, Started(mgr[m], mgr[m].gen, ok))
    PROVE  Becomes(m, IF ok THEN "accept" ELSE "degraded", mgr[m].at, mgr[m].sender, mgr[m].gen)
<1> DEFINE R == Started(mgr[m], mgr[m].gen, ok)
<1>1. mgr[m] \in ManagerRecords
  BY DEF BridgeTyped, ManagersTyped
<1>2. R \in ManagerRecords /\ R.gen = mgr[m].gen /\ R.sender = mgr[m].sender /\ R.loop = (IF ok THEN "accept" ELSE "degraded") /\ R.at = mgr[m].at
  BY <1>1 DEF ManagerRecords, LoopSteps, Started
<1>3. SetManager(m, R)
  BY DEF Started
<1> HIDE DEF R
<1>4. Becomes(m, (IF ok THEN "accept" ELSE "degraded"), mgr[m].at, mgr[m].sender, mgr[m].gen)
  BY <1>2, <1>3, RecordSet DEF BridgeTyped
<1> QED BY <1>4, SocketSet DEF Started, SocketSteps, BridgeTyped

LEMMA EndBumpsDoes ==
    ASSUME BridgeTyped, NEW s \in Sockets, socket[s].m \in Managers, EndBumps(s)
    PROVE  Becomes(socket[s].m, mgr[socket[s].m].loop, mgr[socket[s].m].at, mgr[socket[s].m].sender, mgr[socket[s].m].gen + 1) /\ Turns(s, "bumped")
<1> DEFINE R == [mgr[socket[s].m] EXCEPT !.gen = @ + 1]
<1>1. mgr[socket[s].m] \in ManagerRecords
  BY DEF BridgeTyped, ManagersTyped, SocketsTyped
<1>2. R \in ManagerRecords /\ R.gen = mgr[socket[s].m].gen + 1 /\ R.sender = mgr[socket[s].m].sender /\ R.loop = mgr[socket[s].m].loop /\ R.at = mgr[socket[s].m].at
  BY <1>1 DEF ManagerRecords, LoopSteps
<1>3. SetManager(socket[s].m, R)
  BY DEF EndBumps
<1> HIDE DEF R
<1>4. Becomes(socket[s].m, mgr[socket[s].m].loop, mgr[socket[s].m].at, mgr[socket[s].m].sender, mgr[socket[s].m].gen + 1)
  BY <1>2, <1>3, RecordSet DEF BridgeTyped
<1> QED BY <1>4, SocketSet DEF EndBumps, Step, SocketSteps, BridgeTyped

LEMMA EndClearsDoes ==
    ASSUME BridgeTyped, NEW s \in Sockets, socket[s].m \in Managers, EndClears(s)
    PROVE  Becomes(socket[s].m, mgr[socket[s].m].loop, mgr[socket[s].m].at, 0, mgr[socket[s].m].gen) /\ Turns(s, "cleared")
<1> DEFINE R == [mgr[socket[s].m] EXCEPT !.sender = 0]
<1>1. mgr[socket[s].m] \in ManagerRecords
  BY DEF BridgeTyped, ManagersTyped, SocketsTyped
<1>2. R \in ManagerRecords /\ R.gen = mgr[socket[s].m].gen /\ R.sender = 0 /\ R.loop = mgr[socket[s].m].loop /\ R.at = mgr[socket[s].m].at
  BY <1>1 DEF ManagerRecords, LoopSteps
<1>3. SetManager(socket[s].m, R)
  BY DEF EndClears
<1> HIDE DEF R
<1>4. Becomes(socket[s].m, mgr[socket[s].m].loop, mgr[socket[s].m].at, 0, mgr[socket[s].m].gen)
  BY <1>2, <1>3, RecordSet DEF BridgeTyped
<1> QED BY <1>4, SocketSet DEF EndClears, Step, SocketSteps, BridgeTyped

LEMMA EndPublishesDoes ==
    ASSUME BridgeTyped, NEW s \in Sockets, socket[s].m \in Managers, EndPublishes(s)
    PROVE  Becomes(socket[s].m, mgr[socket[s].m].loop, mgr[socket[s].m].at, mgr[socket[s].m].sender, mgr[socket[s].m].gen) /\ Turns(s, "gone")
<1> DEFINE R == [mgr[socket[s].m] EXCEPT !.running = FALSE]
<1>1. mgr[socket[s].m] \in ManagerRecords
  BY DEF BridgeTyped, ManagersTyped, SocketsTyped
<1>2. R \in ManagerRecords /\ R.gen = mgr[socket[s].m].gen /\ R.sender = mgr[socket[s].m].sender /\ R.loop = mgr[socket[s].m].loop /\ R.at = mgr[socket[s].m].at
  BY <1>1 DEF ManagerRecords, LoopSteps
<1>3. SetManager(socket[s].m, R)
  BY DEF EndPublishes
<1> HIDE DEF R
<1>4. Becomes(socket[s].m, mgr[socket[s].m].loop, mgr[socket[s].m].at, mgr[socket[s].m].sender, mgr[socket[s].m].gen)
  BY <1>2, <1>3, RecordSet DEF BridgeTyped
<1> QED BY <1>4, SocketSet DEF EndPublishes, Step, SocketSteps, BridgeTyped

LEMMA RestartBeginsDoes ==
    ASSUME BridgeTyped, slot \in Managers, RestartBegins
    PROVE  Becomes(slot, mgr[slot].loop, mgr[slot].at, mgr[slot].sender, mgr[slot].gen)
<1> DEFINE R == [mgr[slot] EXCEPT !.restarting = TRUE, !.failures = IF mgr[slot].exhausted THEN 0 ELSE @,
                              !.reconnecting = @ /\ ~mgr[slot].exhausted, !.exhausted = FALSE]
<1>1. mgr[slot] \in ManagerRecords
  BY DEF BridgeTyped, ManagersTyped
<1>2. R \in ManagerRecords /\ R.gen = mgr[slot].gen /\ R.sender = mgr[slot].sender /\ R.loop = mgr[slot].loop /\ R.at = mgr[slot].at
  BY <1>1 DEF ManagerRecords, LoopSteps
<1>3. SetManager(slot, R)
  BY DEF RestartBegins
<1> HIDE DEF R
<1>4. Becomes(slot, mgr[slot].loop, mgr[slot].at, mgr[slot].sender, mgr[slot].gen)
  BY <1>2, <1>3, RecordSet DEF BridgeTyped
<1> QED BY <1>4, SocketSet DEF RestartBegins, SocketSteps, BridgeTyped

LEMMA RestartBumpsDoes ==
    ASSUME BridgeTyped, slot \in Managers, RestartBumps
    PROVE  Becomes(slot, mgr[slot].loop, mgr[slot].at, mgr[slot].sender, mgr[slot].gen + 1)
<1> DEFINE R == [mgr[slot] EXCEPT !.gen = @ + 1]
<1>1. mgr[slot] \in ManagerRecords
  BY DEF BridgeTyped, ManagersTyped
<1>2. R \in ManagerRecords /\ R.gen = mgr[slot].gen + 1 /\ R.sender = mgr[slot].sender /\ R.loop = mgr[slot].loop /\ R.at = mgr[slot].at
  BY <1>1 DEF ManagerRecords, LoopSteps
<1>3. SetManager(slot, R)
  BY DEF RestartBumps
<1> HIDE DEF R
<1>4. Becomes(slot, mgr[slot].loop, mgr[slot].at, mgr[slot].sender, mgr[slot].gen + 1)
  BY <1>2, <1>3, RecordSet DEF BridgeTyped
<1> QED BY <1>4, SocketSet DEF RestartBumps, SocketSteps, BridgeTyped

LEMMA RestartSupersedesDoes ==
    ASSUME BridgeTyped, slot \in Managers, RestartSupersedes
    PROVE  Becomes(slot, mgr[slot].loop, mgr[slot].at, 0, mgr[slot].gen)
<1> DEFINE R == [mgr[slot] EXCEPT !.sender = 0]
<1>1. mgr[slot] \in ManagerRecords
  BY DEF BridgeTyped, ManagersTyped
<1>2. R \in ManagerRecords /\ R.gen = mgr[slot].gen /\ R.sender = 0 /\ R.loop = mgr[slot].loop /\ R.at = mgr[slot].at
  BY <1>1 DEF ManagerRecords, LoopSteps
<1>3. SetManager(slot, R)
  BY DEF RestartSupersedes
<1> HIDE DEF R
<1>4. Becomes(slot, mgr[slot].loop, mgr[slot].at, 0, mgr[slot].gen)
  BY <1>2, <1>3, RecordSet DEF BridgeTyped
<1> QED BY <1>4, SocketSet DEF RestartSupersedes, SocketSteps, BridgeTyped

-----------------------------------------------------------------------------
(* What most steps leave alone.                                            *)

\* No manager is made, no generation moves, no socket is dialled or comes back.
ManagersStay ==
    /\ mgr' \in [Managers -> ManagerRecords]
    /\ \A m \in Managers : mgr'[m].gen = mgr[m].gen /\ (mgr'[m].loop = "unborn" <=> mgr[m].loop = "unborn")
Spent == {"bumped", "cleared", "gone"}
SocketsStay ==
    /\ socket' \in [Sockets -> [step : SocketSteps, m : Managers \union {0}, gen : Nat]]
    /\ \A s \in Sockets : /\ socket'[s].m = socket[s].m
                          /\ socket'[s].step = "none" <=> socket[s].step = "none"
                          /\ socket[s].step \in Spent => socket'[s].step \in Spent

LEMMA BecomesStays ==
    ASSUME BridgeTyped, NEW m \in Managers, NEW loop \in LoopSteps, loop # "unborn", Born(m), NEW at, NEW sender,
           Becomes(m, loop, at, sender, mgr[m].gen)
    PROVE  ManagersStay
BY DEF Becomes, ManagersStay, Born

LEMMA TurnsStays ==
    ASSUME BridgeTyped, NEW s \in Sockets, NEW step \in SocketSteps, socket[s].step # "none", step # "none",
           socket[s].step \in Spent => step \in Spent, Turns(s, step)
    PROVE  SocketsStay
BY DEF Turns, SocketsStay

\* What is left to add is a natural number.
LEMMA BudgetNat ==
    ASSUME BridgeTyped
    PROVE  Budget \in Nat /\ IsFiniteSet(Unbumped) /\ Cardinality(Unbumped) \in Nat
<1>1. IsFiniteSet(Unbumped)
  BY LspAssumption, FS_Subset DEF Unbumped
<1>2. Cardinality(Unbumped) \in Nat
  BY <1>1, FS_CardinalityType
<1>3. MaxFaults - faults \in Nat
  BY LspAssumption DEF BridgeTyped, ManagersTyped
<1> QED BY <1>1, <1>2, <1>3 DEF Budget

LEMMA BudgetNatNext ==
    ASSUME BridgeTyped'
    PROVE  Budget' \in Nat /\ IsFiniteSet(Unbumped') /\ Cardinality(Unbumped') \in Nat
<1>1. IsFiniteSet(Unbumped')
  BY LspAssumption, FS_Subset DEF Unbumped
<1>2. Cardinality(Unbumped') \in Nat
  BY <1>1, FS_CardinalityType
<1>3. MaxFaults - faults' \in Nat
  <2>1. faults' \in 0..MaxFaults
    BY DEF BridgeTyped, ManagersTyped
  <2>2. \A n \in 0..MaxFaults : MaxFaults - n \in Nat
    BY LspAssumption
  <2> QED BY <2>1, <2>2
<1> QED BY <1>1, <1>2, <1>3 DEF Budget

\* Sockets that are spent stay spent: what is left never grows.
LEMMA BudgetShrinks ==
    ASSUME BridgeTyped, BridgeTyped', \A s \in Sockets : socket[s].step \in Spent => socket'[s].step \in Spent
    PROVE  Cardinality(Unbumped') <= Cardinality(Unbumped)
<1>1. Unbumped' \subseteq Unbumped
  BY DEF Unbumped, Spent
<1> QED BY <1>1, BudgetNat, FS_Subset

\* A restart that is flagged has been paid for.
Paid == \/ faults' = faults /\ (restart' = "flagged" => restart = "flagged")
        \/ faults' = faults + 1 /\ (restart = "flagged" => restart' = "flagged")

LEMMA GensStay ==
    ASSUME BridgeTyped, BridgeTyped', GensApart, ManagersStay, SocketsStay, Paid, reserved' = reserved
    PROVE  GensApart'
<1>1. Cardinality(Unbumped') <= Cardinality(Unbumped)
  BY BudgetShrinks DEF SocketsStay
<1>2. /\ Cardinality(Unbumped) \in Nat /\ Cardinality(Unbumped') \in Nat
      /\ faults \in Nat /\ faults' \in Nat /\ MaxFaults \in Nat /\ Budget \in Nat /\ Budget' \in Nat
  <2>1. Cardinality(Unbumped) \in Nat /\ Budget \in Nat
    BY BudgetNat
  <2>2. Cardinality(Unbumped') \in Nat /\ Budget' \in Nat
    BY BudgetNatNext
  <2> QED BY <2>1, <2>2, LspAssumption DEF BridgeTyped, ManagersTyped
<1>3. Budget' <= Budget
  BY <1>1, <1>2 DEF Budget, Paid
<1>4. /\ \A m \in Managers : mgr[m].gen \in Nat /\ (Born(m)' <=> Born(m)) /\ mgr'[m].gen = mgr[m].gen
      /\ reserved \in Nat
  BY DEF BridgeTyped, ManagersTyped, ManagersStay, Born, ManagerRecords
<1> QED BY <1>2, <1>3, <1>4 DEF GensApart

LEMMA OrderStays ==
    ASSUME BridgeTyped, BridgeTyped', ManagersInOrder, SocketsInOrder, ManagersStay, SocketsStay, UNCHANGED slot,
           restart' # "no" => slot # 0, relaunches' \subseteq relaunches,
           \A m \in Managers : ~Born(m) => mgr'[m].sender = mgr[m].sender
    PROVE  ManagersInOrder'
<1>1. PICK k \in Managers : \A m \in Managers : Born(m) <=> m <= k
  BY DEF ManagersInOrder
<1>2. \A m \in Managers : Born(m)' <=> Born(m)
  BY DEF ManagersStay, Born
<1>3. \A m \in Managers : Born(m)' <=> m <= k
  BY <1>1, <1>2
<1>4. slot \in Managers \union {0} /\ relaunches \subseteq Managers
  BY DEF BridgeTyped, ManagersTyped
<1> QED BY <1>2, <1>3, <1>4 DEF ManagersInOrder

LEMMA SocketsOrderStays ==
    ASSUME BridgeTyped, SocketsInOrder, ManagersStay, SocketsStay, UNCHANGED <<store, starts>>
    PROVE  SocketsInOrder'
BY DEF SocketsInOrder, ManagersStay, SocketsStay, Born, BridgeTyped, EventsTyped

\* Every event under way is one.
LEMMA EventTyped ==
    ASSUME BridgeTyped, NEW i \in 1..Len(events)
    PROVE  events[i] \in [m : Managers, gen : Nat, kind : Kinds, url : BOOLEAN]
           /\ events[i].m \in Managers /\ events[i].gen \in Nat
<1>1. events[i] \in [m : Managers, gen : Nat, kind : Kinds, url : BOOLEAN]
  BY ElementOfSeq DEF BridgeTyped, EventsTyped
<1> QED BY <1>1

LEMMA EventsStay ==
    ASSUME BridgeTyped, EventsBehind, ManagersStay, UNCHANGED events
    PROVE  EventsBehind'
<1>1. \A i \in 1..Len(events) : events[i].m \in Managers
  BY EventTyped
<1> QED BY <1>1 DEF EventsBehind, ManagersStay, Born

LEMMA EventsSent ==
    ASSUME BridgeTyped, EventsBehind, ManagersStay,
           NEW e \in [m : Managers, gen : Nat, kind : Kinds, url : BOOLEAN], Send(e), Born(e.m), e.gen = mgr[e.m].gen
    PROVE  EventsBehind'
<1>1. \A i \in 1..Len(events) : events[i].m \in Managers /\ events[i].gen \in Nat
  BY EventTyped
<1>2. /\ Len(events') = Len(events) + 1 /\ Len(events) \in Nat
      /\ \A i \in 1..Len(events') : events'[i] = IF i = Len(events) + 1 THEN e ELSE events[i]
  BY SendTyped DEF BridgeTyped, EventsTyped
<1>3. e.gen \in Nat
  OBVIOUS
<1>4. ASSUME NEW i \in 1..Len(events')
      PROVE  (Born(events[i].m) /\ events[i].gen <= mgr[events[i].m].gen)'
  <2>1. CASE i = Len(events) + 1
    BY <1>2, <1>3, <2>1 DEF ManagersStay, Born
  <2>2. CASE i # Len(events) + 1
    <3>1. i \in 1..Len(events) /\ events'[i] = events[i]
      BY <1>2, <2>2
    <3> QED BY <1>1, <3>1 DEF EventsBehind, ManagersStay, Born
  <2> QED BY <2>1, <2>2
<1> QED BY <1>4 DEF EventsBehind

-----------------------------------------------------------------------------
(* The invariant, step by step.                                            *)

LEMMA StayKeeps ==
    ASSUME BridgeInv, BridgeTyped', ManagersStay, SocketsStay, Paid, UNCHANGED <<reserved, slot, store, starts>>,
           restart' # "no" => slot # 0, relaunches' \subseteq relaunches,
           \A m \in Managers : ~Born(m) => mgr'[m].sender = mgr[m].sender
    PROVE  ManagersInOrder' /\ SocketsInOrder' /\ GensApart'
BY OrderStays, SocketsOrderStays, GensStay DEF BridgeInv

\* The types, when a step goes no further than this.
LEMMA StayTyped ==
    ASSUME BridgeTyped, ManagersStay, SocketsStay, UNCHANGED <<slot, reserved, store, starts>>,
           events' \in Seq([m : Managers, gen : Nat, kind : Kinds, url : BOOLEAN]),
           restart' \in {"no", "flagged", "bumped", "superseded"}, faults' \in 0..MaxFaults,
           relaunches' \subseteq Managers, signalled' \subseteq Sockets
    PROVE  BridgeTyped'
BY DEF BridgeTyped, ManagersTyped, SocketsTyped, EventsTyped, ManagersStay, SocketsStay

\* A step of an accept loop, at one of its sockets, that sends nothing.
LEMMA LoopStep ==
    ASSUME BridgeInv, NEW m \in Managers, NEW s \in Sockets, NEW loop \in LoopSteps, NEW at, NEW step \in SocketSteps,
           Born(m), loop # "unborn", Becomes(m, loop, at, mgr[m].sender, mgr[m].gen),
           socket[s].m = m, socket[s].step \in {"dialled", "handshake", "upgraded"},
           step \in {"handshake", "upgraded", "gone"}, Turns(s, step),
           loop \in {"handshake", "upgraded", "running", "register"} => at = s /\ step # "gone",
           UNCHANGED <<slot, reserved, restart, relaunches, signalled, events, store, starts>>,
           faults' \in {faults, faults + 1}, faults' <= MaxFaults
    PROVE  BridgeInv'
<1> USE DEF BridgeInv
<1>1. ManagersStay
  BY BecomesStays
<1>2. SocketsStay
  BY TurnsStays DEF Spent
<1>3. Paid
  BY DEF Paid
<1>4. BridgeTyped'
  <2>1. faults' \in 0..MaxFaults
    BY LspAssumption DEF BridgeTyped, ManagersTyped
  <2> QED BY <1>1, <1>2, <2>1, StayTyped DEF BridgeTyped, ManagersTyped, SocketsTyped, EventsTyped
<1>5. \A k \in Managers : mgr'[k].sender = mgr[k].sender
  BY DEF Becomes
<1>6. ManagersInOrder' /\ SocketsInOrder' /\ GensApart'
  BY <1>1, <1>2, <1>3, <1>4, <1>5, StayKeeps DEF ManagersInOrder
<1>7. LoopAtItsOwn'
  BY DEF LoopAtItsOwn, Becomes, Turns
<1>8. SenderOfRelay'
  BY <1>5 DEF SenderOfRelay, Turns, BridgeTyped, SocketsTyped, SocketsInOrder
<1>9. EventsBehind'
  BY <1>1, EventsStay
<1> QED BY <1>4, <1>6, <1>7, <1>8, <1>9

LEMMA AcceptKeeps ==
    ASSUME BridgeInv, NEW m \in Managers, NEW s \in Sockets, Accept(m, s)
    PROVE  BridgeInv'
<1>1. Becomes(m, "handshake", s, mgr[m].sender, mgr[m].gen) /\ Turns(s, "handshake")
  BY AcceptDoes DEF BridgeInv
<1>2. /\ Born(m) /\ socket[s].m = m /\ socket[s].step = "dialled"
      /\ UNCHANGED <<slot, reserved, restart, relaunches, signalled, events, store, starts, faults>>
      /\ faults <= MaxFaults
  BY LspAssumption DEF Accept, Born, BridgeInv, BridgeTyped, ManagersTyped
<1> QED BY <1>1, <1>2, LoopStep DEF LoopSteps, SocketSteps

LEMMA HandshakeKeeps ==
    ASSUME BridgeInv, NEW m \in Managers, Handshake(m)
    PROVE  BridgeInv'
<1>1. /\ mgr[m].at \in Sockets /\ socket[mgr[m].at].m = m /\ socket[mgr[m].at].step \in {"handshake", "upgraded"}
      /\ Born(m) /\ UNCHANGED <<slot, reserved, restart, relaunches, signalled, events, store, starts, faults>>
      /\ faults <= MaxFaults
  BY LspAssumption DEF Handshake, LoopAtItsOwn, Born, BridgeInv, BridgeTyped, ManagersTyped
<1>2. CASE Becomes(m, "upgraded", mgr[m].at, mgr[m].sender, mgr[m].gen) /\ Turns(mgr[m].at, "upgraded")
  BY <1>1, <1>2, LoopStep DEF LoopSteps, SocketSteps
<1>3. CASE Becomes(m, "accept", 0, mgr[m].sender, mgr[m].gen) /\ Turns(mgr[m].at, "gone")
  BY <1>1, <1>3, LoopStep DEF LoopSteps, SocketSteps
<1> QED BY <1>1, <1>2, <1>3, HandshakeDoes DEF BridgeInv

\* A step of a manager that leaves the sockets alone; it may send an event of
\* the generation the manager has.
LEMMA LoopAlone ==
    ASSUME BridgeInv, NEW m \in Managers, NEW loop \in LoopSteps, NEW at, Born(m), loop # "unborn",
           Becomes(m, loop, at, mgr[m].sender, mgr[m].gen), UNCHANGED socket,
           loop \in {"handshake", "upgraded", "running", "register"} =>
               mgr[m].loop \in {"handshake", "upgraded", "running", "register"} /\ at = mgr[m].at,
           UNCHANGED <<slot, reserved, relaunches, signalled, store, starts>>, restart' # "no" => slot # 0,
           Paid, faults' \in 0..MaxFaults, restart' \in {"no", "flagged", "bumped", "superseded"},
           \/ UNCHANGED events
           \/ \E e \in [m : Managers, gen : Nat, kind : Kinds, url : BOOLEAN] :
                  e.m = m /\ e.gen = mgr[m].gen /\ Send(e)
    PROVE  BridgeInv'
<1> USE DEF BridgeInv
<1>1. ManagersStay
  BY BecomesStays
<1>2. SocketsStay
  BY DEF SocketsStay, BridgeTyped, SocketsTyped
<1>3. events' \in Seq([m : Managers, gen : Nat, kind : Kinds, url : BOOLEAN]) /\ EventsBehind'
  <2>1. CASE UNCHANGED events
    BY <1>1, <2>1, EventsStay DEF BridgeTyped, EventsTyped
  <2>2. CASE \E e \in [m : Managers, gen : Nat, kind : Kinds, url : BOOLEAN] :
                  e.m = m /\ e.gen = mgr[m].gen /\ Send(e)
    BY <1>1, <2>2, EventsSent, SendTyped
  <2> QED BY <2>1, <2>2
<1>4. BridgeTyped'
  BY <1>1, <1>2, <1>3, StayTyped DEF BridgeTyped, ManagersTyped, SocketsTyped
<1>5. \A k \in Managers : mgr'[k].sender = mgr[k].sender
  BY DEF Becomes
<1>6. ManagersInOrder' /\ SocketsInOrder' /\ GensApart'
  BY <1>1, <1>2, <1>4, <1>5, StayKeeps DEF ManagersInOrder
<1>7. LoopAtItsOwn'
  BY DEF LoopAtItsOwn, Becomes
<1>8. SenderOfRelay'
  BY <1>5 DEF SenderOfRelay, BridgeTyped, SocketsTyped, SocketsInOrder
<1> QED BY <1>3, <1>4, <1>6, <1>7, <1>8

LEMMA SpawnKeeps ==
    ASSUME BridgeInv, NEW m \in Managers, Spawn(m)
    PROVE  BridgeInv'
<1>1. /\ mgr[m].at \in Sockets /\ socket[mgr[m].at].m = m /\ socket[mgr[m].at].step \in {"handshake", "upgraded"}
      /\ mgr[m].loop = "upgraded" /\ Born(m)
      /\ UNCHANGED <<slot, reserved, restart, relaunches, signalled, events, store, starts>>
  BY DEF Spawn, LoopAtItsOwn, Born, BridgeInv
<1>2. faults' \in {faults, faults + 1} /\ faults' <= MaxFaults /\ faults' \in 0..MaxFaults /\ Paid
  BY LspAssumption DEF Spawn, Fault, Paid, BridgeInv, BridgeTyped, ManagersTyped
<1>3. restart \in {"no", "flagged", "bumped", "superseded"} /\ (restart # "no" => slot # 0)
  BY DEF BridgeInv, BridgeTyped, ManagersTyped, ManagersInOrder
<1>4. CASE Becomes(m, "running", mgr[m].at, mgr[m].sender, mgr[m].gen) /\ UNCHANGED socket
  BY <1>1, <1>2, <1>3, <1>4, LoopAlone DEF LoopSteps
<1>5. CASE Becomes(m, "accept", 0, mgr[m].sender, mgr[m].gen) /\ Turns(mgr[m].at, "gone")
  BY <1>1, <1>2, <1>5, LoopStep DEF LoopSteps, SocketSteps
<1> QED BY <1>1, <1>4, <1>5, SpawnDoes DEF BridgeInv

\* What an event of a manager is like.
LEMMA EventMade ==
    ASSUME BridgeTyped, NEW m \in Managers, NEW r \in ManagerRecords, NEW kind \in Kinds
    PROVE  /\ Event(m, r, kind) \in [m : Managers, gen : Nat, kind : Kinds, url : BOOLEAN]
           /\ Event(m, r, kind).m = m /\ Event(m, r, kind).gen = r.gen
<1>1. Available(m) \in BOOLEAN /\ (kind # "failed") \in BOOLEAN /\ r.gen \in Nat
  BY DEF Available, ManagerRecords
<1> QED BY <1>1 DEF Event

\* What the steps below share.
LEMMA Usual ==
    ASSUME BridgeInv
    PROVE  /\ faults \in 0..MaxFaults /\ restart \in {"no", "flagged", "bumped", "superseded"}
           /\ restart # "no" => slot # 0
           /\ \A m \in Managers : mgr[m] \in ManagerRecords
           /\ UNCHANGED <<faults, restart>> => Paid
BY DEF BridgeInv, BridgeTyped, ManagersTyped, ManagersInOrder, Paid

LEMMA PublishRunningKeeps ==
    ASSUME BridgeInv, NEW m \in Managers, PublishRunning(m)
    PROVE  BridgeInv'
<1>1. /\ mgr[m].at \in Sockets /\ mgr[m].loop = "running" /\ Born(m) /\ Loop(m, "register", mgr[m].at)
      /\ Send(Event(m, mgr[m], "running"))
      /\ UNCHANGED <<slot, reserved, restart, relaunches, signalled, store, starts, faults, socket>>
  BY DEF PublishRunning, LoopAtItsOwn, Born, BridgeInv
<1>2. Becomes(m, "register", mgr[m].at, mgr[m].sender, mgr[m].gen)
  BY <1>1, LoopGoes DEF LoopSteps, BridgeInv
<1>3. \E e \in [m : Managers, gen : Nat, kind : Kinds, url : BOOLEAN] : e.m = m /\ e.gen = mgr[m].gen /\ Send(e)
  BY <1>1, EventMade, Usual DEF Kinds, BridgeInv
<1> QED BY <1>1, <1>2, <1>3, Usual, LoopAlone DEF LoopSteps

LEMMA AcceptFailsKeeps ==
    ASSUME BridgeInv, NEW m \in Managers, AcceptFails(m)
    PROVE  BridgeInv'
<1>1. /\ Born(m) /\ UNCHANGED <<slot, reserved, restart, relaunches, signalled, store, starts, socket>>
      /\ faults' = faults + 1 /\ faults < MaxFaults
  BY DEF AcceptFails, Born, Fault
<1>2. faults' \in 0..MaxFaults /\ Paid
  BY <1>1, LspAssumption, Usual DEF Paid
<1>3. PICK step \in {"giveUp", "backoff"} : Becomes(m, step, mgr[m].at, mgr[m].sender, mgr[m].gen)
  BY AcceptFailsDoes DEF BridgeInv
<1>4. \/ UNCHANGED events
      \/ \E e \in [m : Managers, gen : Nat, kind : Kinds, url : BOOLEAN] : e.m = m /\ e.gen = mgr[m].gen /\ Send(e)
  BY AcceptFailsDoes DEF BridgeInv
<1>5. restart' \in {"no", "flagged", "bumped", "superseded"} /\ (restart' # "no" => slot # 0)
  BY <1>1, Usual
<1> QED BY <1>1, <1>2, <1>3, <1>4, <1>5, LoopAlone DEF LoopSteps

LEMMA GiveUpKeeps ==
    ASSUME BridgeInv, NEW m \in Managers, GiveUp(m)
    PROVE  BridgeInv'
<1>1. /\ Born(m) /\ Loop(m, "parked", 0) /\ Send(Event(m, mgr[m], "failed"))
      /\ UNCHANGED <<slot, reserved, restart, relaunches, signalled, store, starts, faults, socket>>
  BY DEF GiveUp, Born
<1>2. Becomes(m, "parked", 0, mgr[m].sender, mgr[m].gen)
  BY <1>1, LoopGoes DEF LoopSteps, BridgeInv
<1>3. \E e \in [m : Managers, gen : Nat, kind : Kinds, url : BOOLEAN] : e.m = m /\ e.gen = mgr[m].gen /\ Send(e)
  BY <1>1, EventMade, Usual DEF Kinds, BridgeInv
<1> QED BY <1>1, <1>2, <1>3, Usual, LoopAlone DEF LoopSteps

LEMMA RetryKeeps ==
    ASSUME BridgeInv, NEW m \in Managers, Retry(m)
    PROVE  BridgeInv'
<1>1. /\ Born(m) /\ Loop(m, "accept", 0)
      /\ UNCHANGED <<slot, reserved, restart, relaunches, signalled, store, starts, faults, socket, events>>
  BY DEF Retry, Born
<1>2. Becomes(m, "accept", 0, mgr[m].sender, mgr[m].gen)
  BY <1>1, LoopGoes DEF LoopSteps, BridgeInv
<1> QED BY <1>1, <1>2, Usual, LoopAlone DEF LoopSteps

LEMMA RelaunchStartsKeeps ==
    ASSUME BridgeInv, NEW m \in Managers, RelaunchStarts(m)
    PROVE  BridgeInv'
<1>1. /\ Born(m) /\ UNCHANGED <<slot, reserved, restart, relaunches, signalled, store, starts, faults, socket>>
  BY DEF RelaunchStarts, Born
<1>2. mgr[m].gen \in Nat
  BY Usual DEF ManagerRecords
<1>3. CASE SetManager(m, Started(mgr[m], mgr[m].gen, TRUE)) /\ UNCHANGED events
  <2>1. Becomes(m, "accept", mgr[m].at, mgr[m].sender, mgr[m].gen)
    BY <1>3, RelaunchReadyDoes DEF BridgeInv
  <2> QED BY <1>1, <1>3, <2>1, Usual, LoopAlone DEF LoopSteps
<1>4. CASE /\ SetManager(m, Started(mgr[m], mgr[m].gen, FALSE))
           /\ Send([m |-> m, gen |-> mgr[m].gen, kind |-> "unavailable", url |-> FALSE])
  <2>1. Becomes(m, "degraded", mgr[m].at, mgr[m].sender, mgr[m].gen)
    BY <1>4, RelaunchReadyDoes DEF BridgeInv
  <2>2. \E e \in [m : Managers, gen : Nat, kind : Kinds, url : BOOLEAN] : e.m = m /\ e.gen = mgr[m].gen /\ Send(e)
    BY <1>2, <1>4 DEF Kinds
  <2> QED BY <1>1, <2>1, <2>2, Usual, LoopAlone DEF LoopSteps
<1> QED BY <1>3, <1>4 DEF RelaunchStarts

\* A step that may tell the relay of manager m to end: what the manager holds
\* afterwards is nothing, or the socket that has just become a relay.
LEMMA SenderGoes ==
    ASSUME BridgeInv, BridgeTyped', NEW m \in Managers, Born(m), NEW at,
           Becomes(m, mgr[m].loop, at, 0, mgr[m].gen),
           at = mgr[m].at, Signal({mgr[m].sender}), SocketsStay,
           \A s \in Sockets : socket'[s].step = "live" => socket[s].step = "live",
           \A s \in Sockets : socket[s].step \in {"handshake", "upgraded"} => socket'[s].step = socket[s].step,
           Paid, restart' # "no" => slot # 0,
           UNCHANGED <<slot, reserved, relaunches, store, starts, events>>
    PROVE  BridgeInv'
<1> USE DEF BridgeInv
<1>1. ManagersStay
  BY BecomesStays, Usual DEF ManagerRecords, Born
<1>2. ManagersInOrder' /\ SocketsInOrder' /\ GensApart'
  <2>1. \A k \in Managers : ~Born(k) => mgr'[k].sender = mgr[k].sender
    BY DEF Becomes
  <2> QED BY <1>1, <2>1, StayKeeps
<1>3. LoopAtItsOwn'
  BY DEF LoopAtItsOwn, Becomes, SocketsStay
<1>4. SenderOfRelay'
  <2>1. ASSUME NEW s \in Sockets, socket'[s].step = "live", s \notin signalled'
        PROVE  mgr'[socket'[s].m].sender = s
    <3>1. socket[s].step = "live" /\ s \notin signalled /\ socket[s].m \in Managers /\ socket'[s].m = socket[s].m
      BY <2>1 DEF SocketsStay, SocketsInOrder, Signal
    <3>2. mgr[socket[s].m].sender = s /\ s # 0
      BY <3>1, Numbered DEF SenderOfRelay
    <3>3. socket[s].m # m
      BY <2>1, <3>2 DEF Signal
    <3> QED BY <3>1, <3>2, <3>3 DEF Becomes
  <2> QED BY <2>1 DEF SenderOfRelay
<1>5. EventsBehind'
  BY <1>1, EventsStay
<1> QED BY <1>2, <1>3, <1>4, <1>5

LEMMA EndClearsKeeps ==
    ASSUME BridgeInv, NEW s \in Sockets, EndClears(s)
    PROVE  BridgeInv'
<1> USE DEF BridgeInv
<1> DEFINE m == socket[s].m
<1>1. /\ socket[s].step = "bumped" /\ m \in Managers /\ Born(m) /\ Signal({mgr[m].sender})
      /\ UNCHANGED <<slot, reserved, restart, relaunches, store, starts, events, faults>>
  BY DEF EndClears, Step, SocketsInOrder
<1>2. Becomes(m, mgr[m].loop, mgr[m].at, 0, mgr[m].gen) /\ Turns(s, "cleared")
  BY <1>1, EndClearsDoes
<1> HIDE DEF m
<1>3. ManagersStay
  BY <1>1, <1>2, BecomesStays, Usual DEF ManagerRecords, Born
<1>4. SocketsStay
  BY <1>1, <1>2, TurnsStays DEF SocketSteps, Spent
<1>5. BridgeTyped'
  <2>1. signalled' \subseteq Sockets
    BY <1>1, Usual DEF Signal, ManagerRecords, BridgeTyped, SocketsTyped
  <2> QED BY <1>1, <1>3, <1>4, <2>1, StayTyped, Usual DEF BridgeTyped, ManagersTyped, EventsTyped
<1>6. /\ \A q \in Sockets : socket'[q].step = "live" => socket[q].step = "live"
      /\ \A q \in Sockets : socket[q].step \in {"handshake", "upgraded"} => socket'[q].step = socket[q].step
  BY <1>1, <1>2 DEF Turns
<1> QED BY <1>1, <1>2, <1>4, <1>5, <1>6, SenderGoes, Usual

LEMMA RestartSupersedesKeeps ==
    ASSUME BridgeInv, RestartSupersedes
    PROVE  BridgeInv'
<1> USE DEF BridgeInv
<1>1. /\ slot \in Managers /\ Born(slot) /\ Signal({mgr[slot].sender}) /\ restart = "bumped" /\ restart' = "superseded"
      /\ UNCHANGED <<slot, reserved, relaunches, store, starts, events, faults, socket>>
  BY DEF RestartSupersedes, ManagersInOrder, BridgeTyped, ManagersTyped
<1>2. Becomes(slot, mgr[slot].loop, mgr[slot].at, 0, mgr[slot].gen)
  BY <1>1, RestartSupersedesDoes
<1>3. ManagersStay
  BY <1>1, <1>2, BecomesStays, Usual DEF ManagerRecords, Born
<1>4. SocketsStay
  BY <1>1 DEF SocketsStay, BridgeTyped, SocketsTyped
<1>5. BridgeTyped'
  <2>1. signalled' \subseteq Sockets
    BY <1>1, Usual DEF Signal, ManagerRecords, BridgeTyped, SocketsTyped
  <2> QED BY <1>1, <1>3, <1>4, <2>1, StayTyped, Usual DEF BridgeTyped, ManagersTyped, EventsTyped
<1>6. Paid /\ slot # 0 /\ \A s \in Sockets : socket'[s] = socket[s]
  BY <1>1, Numbered DEF Paid
<1> QED BY <1>1, <1>2, <1>4, <1>5, <1>6, SenderGoes

LEMMA RegisterKeeps ==
    ASSUME BridgeInv, NEW m \in Managers, Register(m)
    PROVE  BridgeInv'
<1> USE DEF BridgeInv
<1> DEFINE s == mgr[m].at
<1>1. /\ s \in Sockets /\ socket[s].m = m /\ socket[s].step \in {"handshake", "upgraded"} /\ Born(m)
      /\ mgr[m].loop = "register" /\ Signal({mgr[m].sender})
      /\ UNCHANGED <<slot, reserved, restart, relaunches, store, starts, events, faults>>
  BY DEF Register, LoopAtItsOwn, Born
<1>2. Becomes(m, "accept", 0, s, mgr[m].gen) /\ Turns(s, "live")
  BY <1>1, RegisterDoes
<1> HIDE DEF s
<1>3. ManagersStay
  BY <1>1, <1>2, BecomesStays DEF LoopSteps
<1>4. SocketsStay
  BY <1>1, <1>2, TurnsStays DEF SocketSteps, Spent
<1>5. BridgeTyped'
  <2>1. signalled' \subseteq Sockets
    BY <1>1, Usual DEF Signal, ManagerRecords, BridgeTyped, SocketsTyped
  <2> QED BY <1>1, <1>3, <1>4, <2>1, StayTyped, Usual DEF BridgeTyped, ManagersTyped, EventsTyped
<1>6. ManagersInOrder' /\ SocketsInOrder' /\ GensApart'
  <2>1. \A k \in Managers : ~Born(k) => mgr'[k].sender = mgr[k].sender
    BY <1>1, <1>2 DEF Becomes
  <2> QED BY <1>1, <1>3, <1>4, <1>5, <2>1, StayKeeps, Usual
<1>7. LoopAtItsOwn'
  BY <1>1, <1>2 DEF LoopAtItsOwn, Becomes, Turns
<1>8. SenderOfRelay'
  <2>1. ASSUME NEW q \in Sockets, socket'[q].step = "live", q \notin signalled', q # s
        PROVE  mgr'[socket'[q].m].sender = q
    <3>1. socket[q].step = "live" /\ q \notin signalled /\ socket[q].m \in Managers /\ socket'[q].m = socket[q].m
      BY <1>1, <1>2, <2>1 DEF Turns, SocketsInOrder, Signal
    <3>2. mgr[socket[q].m].sender = q /\ q # 0
      BY <3>1, Numbered DEF SenderOfRelay
    <3>3. socket[q].m # m
      BY <1>1, <2>1, <3>2 DEF Signal
    <3> QED BY <1>2, <3>1, <3>2, <3>3 DEF Becomes
  <2>2. mgr'[socket'[s].m].sender = s
    BY <1>1, <1>2 DEF Becomes, Turns
  <2> QED BY <2>1, <2>2 DEF SenderOfRelay
<1>9. EventsBehind'
  BY <1>1, <1>3, EventsStay
<1> QED BY <1>5, <1>6, <1>7, <1>8, <1>9

\* Restarts that neither bump nor supersede.
LEMMA RestartBeginsKeeps ==
    ASSUME BridgeInv, RestartBegins
    PROVE  BridgeInv'
<1>1. /\ slot \in Managers /\ Born(slot) /\ restart' = "flagged" /\ faults' = faults + 1 /\ faults < MaxFaults
      /\ UNCHANGED <<slot, reserved, relaunches, store, starts, events, socket, signalled>>
  BY DEF RestartBegins, Fault, ManagersInOrder, BridgeInv, BridgeTyped, ManagersTyped
<1>2. Becomes(slot, mgr[slot].loop, mgr[slot].at, mgr[slot].sender, mgr[slot].gen)
  BY <1>1, RestartBeginsDoes DEF BridgeInv
<1>3. faults' \in 0..MaxFaults /\ Paid /\ slot # 0
  <2>1. faults + 1 \in 0..MaxFaults
    BY <1>1, Numbered, Usual
  <2> QED BY <1>1, <2>1, Numbered DEF Paid
<1>4. mgr[slot].loop \in LoopSteps /\ mgr[slot].loop # "unborn"
  BY <1>1, Usual DEF ManagerRecords, Born
<1> QED BY <1>1, <1>2, <1>3, <1>4, LoopAlone

LEMMA RestartPublishesKeeps ==
    ASSUME BridgeInv, RestartPublishes
    PROVE  BridgeInv'
<1>1. /\ slot \in Managers /\ Born(slot) /\ restart' = "no"
      /\ UNCHANGED <<slot, reserved, relaunches, store, starts, faults, mgr, socket, signalled>>
      /\ Send(Event(slot, mgr[slot], StatusKind(mgr[slot])))
  BY DEF RestartPublishes, ManagersInOrder, BridgeInv, BridgeTyped, ManagersTyped
<1>2. Becomes(slot, mgr[slot].loop, mgr[slot].at, mgr[slot].sender, mgr[slot].gen)
  BY <1>1 DEF Becomes, BridgeInv, BridgeTyped, ManagersTyped
<1>3. StatusKind(mgr[slot]) \in Kinds
  BY DEF StatusKind, Kinds
<1>4. \E e \in [m : Managers, gen : Nat, kind : Kinds, url : BOOLEAN] : e.m = slot /\ e.gen = mgr[slot].gen /\ Send(e)
  BY <1>1, <1>3, EventMade, Usual DEF BridgeInv
<1>5. faults' \in 0..MaxFaults /\ Paid /\ mgr[slot].loop \in LoopSteps /\ mgr[slot].loop # "unborn"
  BY <1>1, Usual DEF Paid, ManagerRecords, Born
<1> QED BY <1>1, <1>2, <1>4, <1>5, LoopAlone

\* A step of one relay that its manager does not see.
LEMMA SocketAlone ==
    ASSUME BridgeInv, NEW s \in Sockets, NEW step \in {"ended", "gone"}, socket[s].step = "live", Turns(s, step),
           UNCHANGED <<mgr, slot, reserved, restart, relaunches, signalled, events, store, starts>>,
           faults' \in {faults, faults + 1}, faults' <= MaxFaults
    PROVE  BridgeInv'
<1> USE DEF BridgeInv
<1>1. ManagersStay
  BY DEF ManagersStay, BridgeTyped, ManagersTyped
<1>2. SocketsStay
  BY TurnsStays DEF Spent, SocketSteps
<1>3. Paid
  BY DEF Paid
<1>4. BridgeTyped'
  <2>1. faults' \in 0..MaxFaults
    BY Usual, Numbered
  <2> QED BY <1>1, <1>2, <2>1, StayTyped, Usual DEF BridgeTyped, ManagersTyped, SocketsTyped, EventsTyped
<1>5. ManagersInOrder' /\ SocketsInOrder' /\ GensApart'
  BY <1>1, <1>2, <1>3, <1>4, StayKeeps, Usual
<1>6. LoopAtItsOwn'
  BY DEF LoopAtItsOwn, Turns
<1>7. SenderOfRelay'
  BY DEF SenderOfRelay, Turns
<1>8. EventsBehind'
  BY <1>1, EventsStay
<1> QED BY <1>4, <1>5, <1>6, <1>7, <1>8

LEMMA SupersededKeeps ==
    ASSUME BridgeInv, NEW s \in Sockets, Superseded(s)
    PROVE  BridgeInv'
<1>1. /\ socket[s].step = "live"
      /\ UNCHANGED <<mgr, slot, reserved, restart, relaunches, signalled, events, store, starts, faults>>
  BY DEF Superseded, Step
<1>2. Turns(s, "gone")
  BY SocketSet DEF Superseded, Step, SocketSteps, BridgeInv, BridgeTyped
<1>3. faults <= MaxFaults
  BY Usual, Numbered
<1> QED BY <1>1, <1>2, <1>3, SocketAlone

LEMMA RelayEndsKeeps ==
    ASSUME BridgeInv, NEW s \in Sockets, RelayEnds(s)
    PROVE  BridgeInv'
<1>1. /\ socket[s].step = "live"
      /\ UNCHANGED <<mgr, slot, reserved, restart, relaunches, signalled, events, store, starts>>
  BY DEF RelayEnds, Step
<1>2. Turns(s, "ended")
  BY SocketSet DEF RelayEnds, Step, SocketSteps, BridgeInv, BridgeTyped
<1>3. faults' \in {faults, faults + 1} /\ faults' <= MaxFaults
  BY Usual, Numbered DEF RelayEnds, Fault
<1> QED BY <1>1, <1>2, <1>3, SocketAlone

LEMMA EndPublishesKeeps ==
    ASSUME BridgeInv, NEW s \in Sockets, EndPublishes(s)
    PROVE  BridgeInv'
<1> USE DEF BridgeInv
<1> DEFINE m == socket[s].m
           r == [mgr[m] EXCEPT !.running = FALSE]
<1>1. /\ socket[s].step = "cleared" /\ m \in Managers /\ Born(m) /\ Send(Event(m, r, "restarting"))
      /\ UNCHANGED <<slot, reserved, restart, relaunches, store, starts, signalled, faults>>
  BY DEF EndPublishes, Step, SocketsInOrder
<1>2. Becomes(m, mgr[m].loop, mgr[m].at, mgr[m].sender, mgr[m].gen) /\ Turns(s, "gone")
  BY <1>1, EndPublishesDoes
<1>3. r \in ManagerRecords /\ r.gen = mgr[m].gen
  <2>1. mgr[m] \in ManagerRecords
    BY <1>1, Usual
  <2> QED BY <2>1 DEF ManagerRecords
<1> HIDE DEF m, r
<1>4. PICK e \in [m : Managers, gen : Nat, kind : Kinds, url : BOOLEAN] : e.m = m /\ e.gen = mgr[m].gen /\ Send(e)
  BY <1>1, <1>3, EventMade DEF Kinds
<1>5. ManagersStay
  BY <1>1, <1>2, BecomesStays, Usual DEF ManagerRecords, Born
<1>6. SocketsStay
  BY <1>1, <1>2, TurnsStays DEF SocketSteps, Spent
<1>7. BridgeTyped'
  BY <1>1, <1>4, <1>5, <1>6, SendTyped, StayTyped, Usual DEF BridgeTyped, ManagersTyped, SocketsTyped
<1>8. ManagersInOrder' /\ SocketsInOrder' /\ GensApart'
  <2>1. \A k \in Managers : ~Born(k) => mgr'[k].sender = mgr[k].sender
    BY <1>1, <1>2 DEF Becomes
  <2> QED BY <1>1, <1>5, <1>6, <1>7, <2>1, StayKeeps, Usual
<1>9. LoopAtItsOwn'
  BY <1>1, <1>2 DEF LoopAtItsOwn, Becomes, Turns
<1>10. SenderOfRelay'
  BY <1>1, <1>2 DEF SenderOfRelay, Becomes, Turns, SocketsInOrder
<1>11. EventsBehind'
  BY <1>1, <1>4, <1>5, EventsSent
<1> QED BY <1>7, <1>8, <1>9, <1>10, <1>11

\* The listener goes, and with it what it has not accepted.
LEMMA StopKeeps ==
    ASSUME BridgeInv, NEW m \in Managers, Stop(m)
    PROVE  BridgeInv'
<1> USE DEF BridgeInv
<1>1. /\ Loop(m, "stopped", 0) /\ Born(m)
      /\ UNCHANGED <<slot, reserved, restart, relaunches, store, starts, events, signalled, faults>>
  BY DEF Stop, Born
<1>2. Becomes(m, "stopped", 0, mgr[m].sender, mgr[m].gen)
  BY <1>1, LoopGoes DEF LoopSteps
<1>3. /\ socket' \in [Sockets -> [step : SocketSteps, m : Managers \union {0}, gen : Nat]]
      /\ \A s \in Sockets : /\ socket'[s].m = socket[s].m /\ socket'[s].gen = socket[s].gen
                            /\ \/ socket'[s].step = socket[s].step
                               \/ socket[s].step = "dialled" /\ socket'[s].step = "gone"
  <2>1. ASSUME NEW s \in Sockets
        PROVE  /\ [socket[s] EXCEPT !.step = "gone"] \in [step : SocketSteps, m : Managers \union {0}, gen : Nat]
               /\ [socket[s] EXCEPT !.step = "gone"].m = socket[s].m
               /\ [socket[s] EXCEPT !.step = "gone"].gen = socket[s].gen
               /\ [socket[s] EXCEPT !.step = "gone"].step = "gone"
    <3>1. socket[s] \in [step : SocketSteps, m : Managers \union {0}, gen : Nat]
      BY DEF BridgeTyped, SocketsTyped
    <3> QED BY <3>1 DEF SocketSteps
  <2>2. \A s \in Sockets : \/ socket'[s] = socket[s]
                           \/ socket[s].step = "dialled" /\ socket'[s] = [socket[s] EXCEPT !.step = "gone"]
    BY DEF Stop
  <2>3. \A s \in Sockets : socket'[s] \in [step : SocketSteps, m : Managers \union {0}, gen : Nat]
    BY <2>1, <2>2 DEF BridgeTyped, SocketsTyped
  <2>4. socket' = [s \in Sockets |-> socket'[s]]
    BY DEF Stop
  <2>5. socket' \in [Sockets -> [step : SocketSteps, m : Managers \union {0}, gen : Nat]]
    BY <2>3, <2>4
  <2>6. ASSUME NEW s \in Sockets
        PROVE  /\ socket'[s].m = socket[s].m /\ socket'[s].gen = socket[s].gen
               /\ \/ socket'[s].step = socket[s].step
                  \/ socket[s].step = "dialled" /\ socket'[s].step = "gone"
    <3>1. CASE socket'[s] = socket[s]
      BY <3>1
    <3>2. CASE socket[s].step = "dialled" /\ socket'[s] = [socket[s] EXCEPT !.step = "gone"]
      BY <2>1, <3>2
    <3> QED BY <2>2, <3>1, <3>2
  <2> QED BY <2>5, <2>6
<1>4. ManagersStay
  BY <1>1, <1>2, BecomesStays DEF LoopSteps
<1>5. SocketsStay
  BY <1>3 DEF SocketsStay, Spent
<1>6. BridgeTyped'
  BY <1>1, <1>4, <1>5, StayTyped, Usual DEF BridgeTyped, ManagersTyped, SocketsTyped, EventsTyped
<1>7. ManagersInOrder' /\ SocketsInOrder' /\ GensApart'
  <2>1. \A k \in Managers : ~Born(k) => mgr'[k].sender = mgr[k].sender
    BY <1>1, <1>2 DEF Becomes
  <2> QED BY <1>1, <1>4, <1>5, <1>6, <2>1, StayKeeps, Usual
<1>8. LoopAtItsOwn'
  BY <1>1, <1>2, <1>3 DEF LoopAtItsOwn, Becomes
<1>9. SenderOfRelay'
  <2>1. \A k \in Managers : mgr'[k].sender = mgr[k].sender
    BY <1>2 DEF Becomes
  <2>2. \A s \in Sockets : socket'[s].step = "live" => socket[s].step = "live" /\ socket[s].m \in Managers
    BY <1>3 DEF SocketsInOrder
  <2> QED BY <1>1, <1>3, <2>1, <2>2 DEF SenderOfRelay
<1>10. EventsBehind'
  BY <1>1, <1>4, EventsStay
<1> QED BY <1>6, <1>7, <1>8, <1>9, <1>10

\* A generation goes up by one: it is paid for out of what is left.
LEMMA BumpKeeps ==
    ASSUME BridgeInv, BridgeTyped', NEW m \in Managers, Born(m),
           Becomes(m, mgr[m].loop, mgr[m].at, mgr[m].sender, mgr[m].gen + 1), Budget' <= Budget - 1,
           UNCHANGED <<slot, reserved, relaunches, store, starts, events, signalled>>,
           restart' # "no" => slot # 0,
           \A s \in Sockets : /\ socket'[s].m = socket[s].m
                              /\ socket'[s].step = "none" <=> socket[s].step = "none"
                              /\ socket'[s].step = "live" => socket[s].step = "live"
                              /\ socket[s].step \in {"handshake", "upgraded"} => socket'[s].step = socket[s].step
    PROVE  BridgeInv'
<1> USE DEF BridgeInv
<1>1. /\ Budget \in Nat /\ Budget' \in Nat /\ reserved \in Nat
      /\ \A k \in Managers : mgr[k].gen \in Nat
  BY BudgetNat, BudgetNatNext DEF BridgeTyped, ManagersTyped, ManagerRecords
<1>2. \A k \in Managers : (Born(k)' <=> Born(k)) /\ mgr'[k].loop = mgr[k].loop /\ mgr'[k].at = mgr[k].at
                          /\ mgr'[k].sender = mgr[k].sender /\ mgr'[k].gen = mgr[k].gen + (IF k = m THEN 1 ELSE 0)
  BY <1>1 DEF Becomes, Born
<1>3. ManagersInOrder'
  <2>1. PICK k \in Managers : \A n \in Managers : Born(n) <=> n <= k
    BY DEF ManagersInOrder
  <2>2. \A n \in Managers : Born(n)' <=> n <= k
    BY <1>2, <2>1
  <2> QED BY <1>2, <2>2 DEF ManagersInOrder, BridgeTyped, ManagersTyped
<1>4. SocketsInOrder'
  <2>1. PICK k \in Nat : \A s \in Sockets : socket[s].step # "none" <=> s <= k
    BY DEF SocketsInOrder
  <2>2. \A s \in Sockets : socket'[s].step # "none" <=> s <= k
    BY <2>1
  <2> QED BY <1>2, <2>2 DEF SocketsInOrder, BridgeTyped, EventsTyped
<1>5. LoopAtItsOwn'
  BY <1>2 DEF LoopAtItsOwn
<1>6. SenderOfRelay'
  BY <1>2 DEF SenderOfRelay, SocketsInOrder
<1>7. GensApart'
  <2>1. ASSUME NEW k \in Managers, NEW n \in Managers, k < n, Born(n)'
        PROVE  mgr'[k].gen + Budget' < mgr'[n].gen
    <3>1. mgr[k].gen + Budget < mgr[n].gen
      BY <1>2, <2>1 DEF GensApart
    <3> QED BY <1>1, <1>2, <3>1
  <2>2. ASSUME NEW k \in Managers, Born(k)'
        PROVE  mgr'[k].gen + Budget' < reserved'
    <3>1. mgr[k].gen + Budget < reserved
      BY <1>2, <2>2 DEF GensApart
    <3> QED BY <1>1, <1>2, <3>1
  <2> QED BY <2>1, <2>2 DEF GensApart
<1>8. EventsBehind'
  <2>1. ASSUME NEW i \in 1..Len(events)
        PROVE  (Born(events[i].m) /\ events[i].gen <= mgr[events[i].m].gen)'
    <3>1. events[i].m \in Managers /\ events[i].gen \in Nat /\ Born(events[i].m)
          /\ events[i].gen <= mgr[events[i].m].gen
      BY EventTyped DEF EventsBehind
    <3> QED BY <1>1, <1>2, <3>1
  <2> QED BY <2>1 DEF EventsBehind
<1> QED BY <1>3, <1>4, <1>5, <1>6, <1>7, <1>8

LEMMA EndBumpsKeeps ==
    ASSUME BridgeInv, NEW s \in Sockets, EndBumps(s)
    PROVE  BridgeInv'
<1> USE DEF BridgeInv
<1> DEFINE m == socket[s].m
<1>1. /\ socket[s].step = "ended" /\ m \in Managers /\ Born(m)
      /\ UNCHANGED <<slot, reserved, restart, relaunches, store, starts, events, signalled, faults>>
  BY DEF EndBumps, Step, SocketsInOrder
<1>2. Becomes(m, mgr[m].loop, mgr[m].at, mgr[m].sender, mgr[m].gen + 1) /\ Turns(s, "bumped")
  BY <1>1, EndBumpsDoes
<1> HIDE DEF m
<1>3. BridgeTyped'
  BY <1>1, <1>2 DEF BridgeTyped, ManagersTyped, SocketsTyped, EventsTyped, Becomes, Turns
<1>4. Budget' <= Budget - 1
  <2>1. Unbumped' = Unbumped \ {s} /\ s \in Unbumped
    BY <1>1, <1>2 DEF Unbumped, Turns
  <2>2. Cardinality(Unbumped') = Cardinality(Unbumped) - 1
    BY <2>1, BudgetNat, FS_RemoveElement
  <2>3. MaxFaults - faults \in Nat
    BY Usual, Numbered
  <2> QED BY <1>1, <2>2, <2>3, BudgetNat DEF Budget
<1>5. \A q \in Sockets : /\ socket'[q].m = socket[q].m
                         /\ socket'[q].step = "none" <=> socket[q].step = "none"
                         /\ socket'[q].step = "live" => socket[q].step = "live"
                         /\ socket[q].step \in {"handshake", "upgraded"} => socket'[q].step = socket[q].step
  BY <1>1, <1>2 DEF Turns
<1> QED BY <1>1, <1>2, <1>3, <1>4, <1>5, BumpKeeps, Usual

LEMMA RestartBumpsKeeps ==
    ASSUME BridgeInv, RestartBumps
    PROVE  BridgeInv'
<1> USE DEF BridgeInv
<1>1. /\ slot \in Managers /\ Born(slot) /\ slot # 0 /\ restart = "flagged" /\ restart' = "bumped"
      /\ UNCHANGED <<slot, reserved, relaunches, store, starts, events, signalled, faults, socket>>
  BY DEF RestartBumps, ManagersInOrder, BridgeTyped, ManagersTyped
<1>2. Becomes(slot, mgr[slot].loop, mgr[slot].at, mgr[slot].sender, mgr[slot].gen + 1)
  BY <1>1, RestartBumpsDoes
<1>3. BridgeTyped'
  BY <1>1, <1>2 DEF BridgeTyped, ManagersTyped, SocketsTyped, EventsTyped, Becomes
<1>4. Budget' <= Budget - 1
  <2>1. Unbumped' = Unbumped
    BY <1>1 DEF Unbumped
  <2>2. MaxFaults - faults \in Nat
    BY Usual, Numbered
  <2> QED BY <1>1, <2>1, <2>2, BudgetNat DEF Budget
<1> QED BY <1>1, <1>2, <1>3, <1>4, BumpKeeps

\* A manager gives up the slot, or the one that was started too late goes.
LEMMA InstalledManagers ==
    ASSUME BridgeInv, NEW m \in Managers, RelaunchInstalls(m)
    PROVE  /\ mgr' \in [Managers -> ManagerRecords]
           /\ \A k \in Managers : mgr'[k].loop = mgr[k].loop /\ mgr'[k].at = mgr[k].at /\ mgr'[k].gen = mgr[k].gen
           /\ \A k \in Managers : \/ mgr'[k].sender = mgr[k].sender
                                  \/ k = m /\ mgr'[k].sender = 0 /\ (mgr[k].sender = 0 \/ mgr[k].sender \in signalled')
           /\ slot' \in {slot, m} /\ signalled' \in {signalled, signalled \union ({mgr[m].sender} \ {0})}
<1> DEFINE overtaken == slot # 0 /\ mgr[slot].gen >= mgr[m].gen
<1>1. \A k \in Managers : mgr[k] \in ManagerRecords
  BY Usual
<1>2. slot \in Managers \union {0}
  BY DEF BridgeInv, BridgeTyped, ManagersTyped
<1>3. CASE overtaken
  <2> DEFINE R == [mgr[m] EXCEPT !.stop = TRUE, !.sender = 0]
  <2>1. R \in ManagerRecords /\ R.gen = mgr[m].gen /\ R.loop = mgr[m].loop /\ R.at = mgr[m].at /\ R.sender = 0
    BY <1>1 DEF ManagerRecords
  <2>2. m # 0 /\ slot' = slot /\ Signal({mgr[m].sender})
    BY <1>3, Numbered DEF RelaunchInstalls
  <2>3. SetManager(m, R)
    BY <1>3, <2>2 DEF RelaunchInstalls, SetManager
  <2> HIDE DEF R
  <2>4. mgr' \in [Managers -> ManagerRecords] /\ mgr'[m] = R /\ \A k \in Managers \ {m} : mgr'[k] = mgr[k]
    BY <2>1, <2>3, ManagerSet DEF BridgeInv, BridgeTyped
  <2> QED BY <2>1, <2>2, <2>4 DEF Signal
<1>4. CASE ~overtaken /\ slot = 0
  <2>1. mgr' = mgr /\ slot' = m /\ signalled' = signalled
    BY <1>4 DEF RelaunchInstalls, Signal
  <2> QED BY <2>1 DEF BridgeInv, BridgeTyped, ManagersTyped
<1>5. CASE ~overtaken /\ slot # 0
  <2> DEFINE R == [mgr[slot] EXCEPT !.stop = TRUE, !.sender = mgr[slot].sender]
  <2>1. R \in ManagerRecords /\ R.gen = mgr[slot].gen /\ R.loop = mgr[slot].loop /\ R.at = mgr[slot].at
        /\ R.sender = mgr[slot].sender
    BY <1>1, <1>2, <1>5 DEF ManagerRecords
  <2>2. slot' = m /\ signalled' = signalled /\ slot \in Managers
    BY <1>2, <1>5 DEF RelaunchInstalls, Signal
  <2>3. SetManager(slot, R)
    BY <1>5 DEF RelaunchInstalls, SetManager
  <2> HIDE DEF R
  <2>4. mgr' \in [Managers -> ManagerRecords] /\ mgr'[slot] = R /\ \A k \in Managers \ {slot} : mgr'[k] = mgr[k]
    BY <2>1, <2>2, <2>3, ManagerSet DEF BridgeInv, BridgeTyped
  <2> QED BY <2>1, <2>2, <2>4
<1> QED BY <1>3, <1>4, <1>5

LEMMA RelaunchInstallsKeeps ==
    ASSUME BridgeInv, NEW m \in Managers, RelaunchInstalls(m)
    PROVE  BridgeInv'
<1> USE DEF BridgeInv
<1>1. /\ restart = "no" /\ m \in relaunches /\ Born(m) /\ relaunches' = relaunches \ {m}
      /\ UNCHANGED <<reserved, restart, socket, events, store, starts, faults>>
  BY DEF RelaunchInstalls, ManagersInOrder
<1>2. /\ mgr' \in [Managers -> ManagerRecords]
      /\ \A k \in Managers : mgr'[k].loop = mgr[k].loop /\ mgr'[k].at = mgr[k].at /\ mgr'[k].gen = mgr[k].gen
      /\ \A k \in Managers : \/ mgr'[k].sender = mgr[k].sender
                             \/ k = m /\ mgr'[k].sender = 0 /\ (mgr[k].sender = 0 \/ mgr[k].sender \in signalled')
      /\ slot' \in {slot, m} /\ signalled' \in {signalled, signalled \union ({mgr[m].sender} \ {0})}
  BY InstalledManagers
<1>3. ManagersStay /\ SocketsStay
  BY <1>1, <1>2 DEF ManagersStay, SocketsStay, BridgeTyped, SocketsTyped
<1>4. signalled \subseteq signalled' /\ signalled' \subseteq Sockets
  <2>1. mgr[m].sender \in Sockets \union {0}
    BY Usual DEF ManagerRecords
  <2> QED BY <1>2, <2>1 DEF BridgeTyped, SocketsTyped
<1>5. BridgeTyped'
  BY <1>1, <1>2, <1>4 DEF BridgeTyped, ManagersTyped, SocketsTyped, EventsTyped
<1>6. ManagersInOrder'
  <2>1. PICK k \in Managers : \A n \in Managers : Born(n) <=> n <= k
    BY DEF ManagersInOrder
  <2>2. \A n \in Managers : Born(n)' <=> n <= k
    BY <1>2, <2>1 DEF Born
  <2>3. \A n \in Managers : ~Born(n)' => mgr'[n].sender = 0
    BY <1>2 DEF ManagersInOrder, Born
  <2>4. slot' # 0 => Born(slot)'
    BY <1>1, <1>2 DEF ManagersInOrder, Born, BridgeTyped, ManagersTyped
  <2>5. \A n \in relaunches' : Born(n)'
    BY <1>1, <1>2 DEF ManagersInOrder, Born, BridgeTyped, ManagersTyped
  <2> QED BY <1>1, <2>2, <2>3, <2>4, <2>5 DEF ManagersInOrder
<1>7. SocketsInOrder' /\ GensApart'
  BY <1>1, <1>3, <1>5, SocketsOrderStays, GensStay DEF Paid
<1>8. LoopAtItsOwn'
  BY <1>1, <1>2 DEF LoopAtItsOwn
<1>9. SenderOfRelay'
  <2>1. ASSUME NEW s \in Sockets, socket[s].step = "live", s \notin signalled'
        PROVE  mgr'[socket[s].m].sender = s
    <3>1. s \notin signalled /\ socket[s].m \in Managers /\ mgr[socket[s].m].sender = s /\ s # 0
      BY <1>4, <2>1, Numbered DEF SenderOfRelay, SocketsInOrder
    <3> QED BY <1>2, <2>1, <3>1
  <2> QED BY <1>1, <2>1 DEF SenderOfRelay
<1>10. EventsBehind'
  BY <1>1, <1>3, EventsStay
<1> QED BY <1>5, <1>6, <1>7, <1>8, <1>9, <1>10

\* The webview takes an event.
LEMMA ReceiveKeeps ==
    ASSUME BridgeInv, Receive
    PROVE  BridgeInv'
<1> USE DEF BridgeInv
<1> DEFINE e == Head(events)
<1>1. /\ events # <<>> /\ events' = Tail(events)
      /\ UNCHANGED <<mgr, slot, reserved, restart, relaunches, socket, signalled, faults>>
  BY DEF Receive
<1>2. /\ events' \in Seq([m : Managers, gen : Nat, kind : Kinds, url : BOOLEAN])
      /\ Len(events') = Len(events) - 1 /\ Len(events) \in Nat \ {0}
      /\ \A i \in 1..Len(events') : events'[i] = events[i + 1] /\ i + 1 \in 1..Len(events)
      /\ e = events[1] /\ 1 \in 1..Len(events)
  <2>1. events \in Seq([m : Managers, gen : Nat, kind : Kinds, url : BOOLEAN])
    BY DEF BridgeTyped, EventsTyped
  <2> QED BY <1>1, <2>1, HeadTailProperties
<1>3. e \in [m : Managers, gen : Nat, kind : Kinds, url : BOOLEAN] /\ Born(e.m)
  BY <1>2, EventTyped DEF EventsBehind
<1> HIDE DEF e
<1>4. \/ UNCHANGED <<store, starts>>
      \/ /\ store' = [m |-> IF e.url THEN e.m ELSE 0, gen |-> e.gen, kind |-> e.kind, gate |-> e.gen]
         /\ starts' = IF e.url
                      THEN (IF store.m # e.m \/ store.gen # e.gen THEN 1 ELSE starts)
                           + (IF client.ready /\ e.gen > store.gen THEN 1 ELSE 0)
                      ELSE 0
  BY DEF Receive, e
<1>5. /\ store' = [m |-> store'.m, gen |-> store'.gen, kind |-> store'.kind, gate |-> store'.gate]
      /\ store'.m \in Managers \union {0} /\ store'.gen \in Nat /\ starts' \in Nat
      /\ store'.m # 0 => Born(store'.m)
      /\ starts' > 0 => store'.m # 0
  <2>1. CASE UNCHANGED <<store, starts>>
    BY <2>1 DEF BridgeTyped, EventsTyped, SocketsInOrder
  <2>2. CASE /\ store' = [m |-> IF e.url THEN e.m ELSE 0, gen |-> e.gen, kind |-> e.kind, gate |-> e.gen]
             /\ starts' = IF e.url
                          THEN (IF store.m # e.m \/ store.gen # e.gen THEN 1 ELSE starts)
                               + (IF client.ready /\ e.gen > store.gen THEN 1 ELSE 0)
                          ELSE 0
    <3>1. CASE e.url
      BY <1>3, <2>2, <3>1, Numbered DEF BridgeTyped, EventsTyped
    <3>2. CASE ~e.url
      BY <1>3, <2>2, <3>2
    <3> QED BY <3>1, <3>2
  <2> QED BY <1>4, <2>1, <2>2
<1>6. BridgeTyped'
  BY <1>1, <1>2, <1>5 DEF BridgeTyped, ManagersTyped, SocketsTyped, EventsTyped
<1>7. ManagersStay /\ SocketsStay
  BY <1>1 DEF ManagersStay, SocketsStay, BridgeTyped, ManagersTyped, SocketsTyped
<1>8. ManagersInOrder' /\ LoopAtItsOwn' /\ SenderOfRelay'
  BY <1>1 DEF ManagersInOrder, LoopAtItsOwn, SenderOfRelay, Born
<1>9. SocketsInOrder'
  BY <1>1, <1>5 DEF SocketsInOrder, Born
<1>10. GensApart'
  BY <1>1 DEF GensApart, Born, Budget, Unbumped
<1>11. EventsBehind'
  BY <1>1, <1>2 DEF EventsBehind, Born
<1> QED BY <1>6, <1>8, <1>9, <1>10, <1>11

\* The webview dials.
LEMMA StartClientKeeps ==
    ASSUME BridgeInv, StartClient
    PROVE  BridgeInv'
<1> USE DEF BridgeInv
<1>1. /\ starts > 0 /\ starts' = starts - 1
      /\ store' = [m |-> store'.m, gen |-> store'.gen, kind |-> store'.kind, gate |-> store'.gate]
      /\ store'.m = store.m /\ store'.gen = store.gen
      /\ UNCHANGED <<mgr, slot, reserved, restart, relaunches, signalled, events, faults>>
  BY DEF StartClient, BridgeTyped, EventsTyped
<1>2. store.m \in Managers /\ Born(store.m) /\ store.gen \in Nat /\ starts' \in Nat
  BY <1>1 DEF SocketsInOrder, BridgeTyped, EventsTyped
<1>3. PICK k \in Nat : \A s \in Sockets : socket[s].step # "none" <=> s <= k
  BY DEF SocketsInOrder
<1>4. \/ UNCHANGED socket
      \/ /\ k + 1 \in Sockets /\ socket[k + 1].step = "none"
         /\ \E step \in {"gone", "dialled"} :
                socket' = [socket EXCEPT ![k + 1] = [step |-> step, m |-> store.m, gen |-> store.gen]]
  <2>1. CASE Unused # {} /\ ~UNCHANGED socket
    <3>1. k + 1 \in Sockets /\ socket[k + 1].step = "none" /\ (CHOOSE n \in Unused : \A j \in Unused : n <= j) = k + 1
      BY <1>3, <2>1, NextSocket
    <3>2. (IF mgr[store.m].loop = "stopped" THEN "gone" ELSE "dialled") \in {"gone", "dialled"}
      OBVIOUS
    <3> QED BY <2>1, <3>1, <3>2 DEF StartClient
  <2> QED BY <2>1 DEF StartClient
<1>5. /\ socket' \in [Sockets -> [step : SocketSteps, m : Managers \union {0}, gen : Nat]]
      /\ \A s \in Sockets : \/ socket'[s] = socket[s]
                            \/ /\ s = k + 1 /\ socket[s].step = "none" /\ socket'[s].m = store.m
                               /\ socket'[s].step \in {"gone", "dialled"}
      /\ \E j \in Nat : \A s \in Sockets : socket'[s].step # "none" <=> s <= j
  <2>1. CASE UNCHANGED socket
    BY <1>3, <2>1 DEF BridgeTyped, SocketsTyped
  <2>2. ASSUME NEW step \in {"gone", "dialled"}, k + 1 \in Sockets, socket[k + 1].step = "none",
               socket' = [socket EXCEPT ![k + 1] = [step |-> step, m |-> store.m, gen |-> store.gen]]
        PROVE  <1>5!1 /\ <1>5!2 /\ <1>5!3
    <3> DEFINE R == [step |-> step, m |-> store.m, gen |-> store.gen]
    <3>1. R \in [step : SocketSteps, m : Managers \union {0}, gen : Nat] /\ R.m = store.m /\ R.step = step
      BY <1>2 DEF SocketSteps
    <3>2. socket' = [socket EXCEPT ![k + 1] = R]
      BY <2>2
    <3> HIDE DEF R
    <3>3. socket' \in [Sockets -> [step : SocketSteps, m : Managers \union {0}, gen : Nat]]
          /\ socket'[k + 1] = R /\ \A s \in Sockets \ {k + 1} : socket'[s] = socket[s]
      BY <2>2, <3>1, <3>2 DEF BridgeTyped, SocketsTyped
    <3>4. \A s \in Sockets : socket'[s].step # "none" <=> s <= k + 1
      <4>1. ASSUME NEW s \in Sockets PROVE socket'[s].step # "none" <=> s <= k + 1
        <5>1. s \in Nat
          BY Numbered
        <5> QED BY <1>3, <3>1, <3>3, <5>1
      <4> QED BY <4>1
    <3> QED BY <2>2, <3>1, <3>3, <3>4
  <2> QED BY <1>4, <2>1, <2>2
<1>6. BridgeTyped'
  BY <1>1, <1>2, <1>5 DEF BridgeTyped, ManagersTyped, SocketsTyped, EventsTyped
<1>7. ManagersStay
  BY <1>1 DEF ManagersStay, BridgeTyped, ManagersTyped
<1>8. ManagersInOrder'
  BY <1>1 DEF ManagersInOrder, Born
<1>9. SocketsInOrder'
  <2>1. \A s \in Sockets : socket'[s].step # "none" => socket'[s].m \in Managers /\ Born(socket'[s].m)
    BY <1>2, <1>5 DEF SocketsInOrder
  <2> QED BY <1>1, <1>2, <1>5, <2>1 DEF SocketsInOrder, Born
<1>10. LoopAtItsOwn' /\ SenderOfRelay'
  BY <1>1, <1>5 DEF LoopAtItsOwn, SenderOfRelay
<1>11. GensApart'
  <2>1. \A s \in Sockets : socket[s].step \in Spent => socket'[s].step \in Spent
    BY <1>5 DEF Spent
  <2>2. Cardinality(Unbumped') <= Cardinality(Unbumped)
    BY <1>6, <2>1, BudgetShrinks
  <2>3. Budget' <= Budget /\ Budget \in Nat /\ Budget' \in Nat
    <3>1. Cardinality(Unbumped) \in Nat /\ Cardinality(Unbumped') \in Nat /\ Budget \in Nat /\ Budget' \in Nat
      BY <1>6, BudgetNat, BudgetNatNext
    <3>2. MaxFaults - faults \in Nat
      BY Usual, Numbered
    <3> QED BY <1>1, <2>2, <3>1, <3>2 DEF Budget
  <2>4. reserved \in Nat /\ \A m \in Managers : mgr[m].gen \in Nat
    BY DEF BridgeTyped, ManagersTyped, ManagerRecords
  <2> QED BY <1>1, <2>3, <2>4 DEF GensApart, Born
<1>12. EventsBehind'
  BY <1>1, <1>7, EventsStay
<1> QED BY <1>6, <1>8, <1>9, <1>10, <1>11, <1>12

\* The rest is the client's own.
LEMMA QuietKeeps ==
    ASSUME BridgeInv,
           UNCHANGED <<mgr, slot, reserved, restart, relaunches, socket, signalled, events, store, starts, faults>>
    PROVE  BridgeInv'
<1> USE DEF BridgeInv
<1>1. BridgeTyped'
  BY DEF BridgeTyped, ManagersTyped, SocketsTyped, EventsTyped
<1>2. ManagersInOrder' /\ SocketsInOrder' /\ LoopAtItsOwn' /\ SenderOfRelay'
  BY DEF ManagersInOrder, SocketsInOrder, LoopAtItsOwn, SenderOfRelay, Born
<1>3. GensApart' /\ EventsBehind'
  BY DEF GensApart, EventsBehind, Budget, Unbumped, Born
<1> QED BY <1>1, <1>2, <1>3

\* A relaunch makes the next manager, of a generation that is reserved, and the
\* manager in the slot lets go of its relay.
LEMMA BegunManagers ==
    ASSUME BridgeInv, RelaunchBegins, NEW k \in Managers, \A m \in Managers : Born(m) <=> m <= k
    PROVE  /\ k + 1 \in Managers /\ ~Born(k + 1) /\ k + 1 # slot
           /\ mgr' \in [Managers -> ManagerRecords]
           /\ mgr'[k + 1].gen = Reserve /\ mgr'[k + 1].loop = "starting" /\ mgr'[k + 1].sender = 0
           /\ \A n \in Managers \ {k + 1} :
                  /\ mgr'[n].loop = mgr[n].loop /\ mgr'[n].at = mgr[n].at /\ mgr'[n].gen = mgr[n].gen
                  /\ \/ mgr'[n].sender = mgr[n].sender
                     \/ mgr'[n].sender = 0 /\ (mgr[n].sender = 0 \/ mgr[n].sender \in signalled')
           /\ Reserve \in Nat /\ Reserve >= reserved /\ reserved' = Reserve + Jump
           /\ relaunches' = relaunches \union {k + 1}
           /\ signalled \subseteq signalled' /\ signalled' \subseteq Sockets
<1> USE DEF BridgeInv
<1>1. /\ k + 1 \in Managers /\ ~Born(k + 1)
      /\ (CHOOSE n \in Unborn : \A j \in Unborn : n <= j) = k + 1
  BY NextManager DEF RelaunchBegins
<1>2. slot \in Managers \union {0} /\ (slot # 0 => Born(slot)) /\ reserved \in Nat
  BY DEF BridgeTyped, ManagersTyped, ManagersInOrder
<1>3. k + 1 # slot
  BY <1>1, <1>2, Numbered
<1>4. \A n \in Managers : mgr[n] \in ManagerRecords
  BY Usual
<1>5. Reserve \in Nat /\ Reserve >= reserved
  <2> DEFINE g == IF slot = 0 THEN 1 ELSE mgr[slot].gen + Jump
  <2>1. g \in Nat
    BY <1>2, <1>4, LspAssumption DEF ManagerRecords
  <2> HIDE DEF g
  <2>2. Largest({reserved, g}) \in {reserved, g} /\ Largest({reserved, g}) >= reserved
    BY <1>2, <2>1, LargerOfTwo
  <2>3. Reserve = Largest({reserved, g})
    BY DEF Reserve, g
  <2> QED BY <1>2, <2>1, <2>2, <2>3
<1> DEFINE New == [Fresh EXCEPT !.gen = Reserve, !.loop = "starting"]
<1> DEFINE Old == [mgr[slot] EXCEPT !.sender = 0, !.stop = TRUE, !.running = FALSE]
<1>6. New \in ManagerRecords /\ New.gen = Reserve /\ New.loop = "starting" /\ New.sender = 0
  BY <1>5 DEF Fresh, ManagerRecords, LoopSteps
<1>7. ASSUME slot \in Managers
      PROVE  Old \in ManagerRecords /\ Old.gen = mgr[slot].gen /\ Old.loop = mgr[slot].loop /\ Old.at = mgr[slot].at /\ Old.sender = 0
  BY <1>4, <1>7 DEF ManagerRecords
<1>8. /\ mgr' = IF slot = 0 THEN [mgr EXCEPT ![k + 1] = New] ELSE [[mgr EXCEPT ![k + 1] = New] EXCEPT ![slot] = Old]
      /\ relaunches' = relaunches \union {k + 1}
      /\ reserved' = Reserve + Jump
      /\ signalled' = signalled \union ((IF slot = 0 THEN {} ELSE {mgr[slot].sender}) \ {0})
  BY <1>1 DEF RelaunchBegins, Signal
<1> HIDE DEF New, Old
<1>9. slot # 0 => mgr[slot].sender \in Sockets \union {0}
  BY <1>2, <1>4 DEF ManagerRecords
<1>10. signalled \subseteq Sockets
  BY DEF BridgeTyped, SocketsTyped
<1>11. signalled \subseteq signalled' /\ signalled' \subseteq Sockets
  BY <1>8, <1>9, <1>10
<1>12. slot # 0 => mgr[slot].sender = 0 \/ mgr[slot].sender \in signalled'
  BY <1>8
<1>13. mgr \in [Managers -> ManagerRecords]
  BY DEF BridgeTyped, ManagersTyped
<1>14. mgr' \in [Managers -> ManagerRecords] /\ mgr'[k + 1] = New
  BY <1>1, <1>2, <1>3, <1>6, <1>7, <1>8, <1>13
<1>15. ASSUME NEW n \in Managers, n # k + 1
       PROVE  /\ mgr'[n].loop = mgr[n].loop /\ mgr'[n].at = mgr[n].at /\ mgr'[n].gen = mgr[n].gen
              /\ \/ mgr'[n].sender = mgr[n].sender
                 \/ mgr'[n].sender = 0 /\ (mgr[n].sender = 0 \/ mgr[n].sender \in signalled')
  <2>1. CASE n = slot
    <3>1. slot # 0 /\ slot \in Managers
      BY <2>1, <1>15, Numbered
    <3>2. mgr'[n] = Old
      BY <1>8, <1>13, <1>15, <2>1, <3>1
    <3> QED BY <1>7, <1>12, <2>1, <3>1, <3>2
  <2>2. CASE n # slot
    <3>1. mgr'[n] = mgr[n]
      BY <1>2, <1>8, <1>13, <1>15, <2>2
    <3> QED BY <3>1
  <2> QED BY <2>1, <2>2
<1> QED BY <1>1, <1>3, <1>5, <1>6, <1>8, <1>11, <1>14, <1>15

LEMMA RelaunchBeginsKeeps ==
    ASSUME BridgeInv, RelaunchBegins
    PROVE  BridgeInv'
<1> USE DEF BridgeInv
<1>1. PICK k \in Managers : \A m \in Managers : Born(m) <=> m <= k
  BY DEF ManagersInOrder
<1>2. /\ restart = "no" /\ slot' = 0 /\ faults < MaxFaults /\ faults' = faults + 1
      /\ UNCHANGED <<restart, socket, events, store, starts>>
  BY DEF RelaunchBegins, Fault
<1> DEFINE g == Reserve
<1>3. /\ k + 1 \in Managers /\ ~Born(k + 1) /\ k + 1 # slot
      /\ mgr' \in [Managers -> ManagerRecords]
      /\ mgr'[k + 1].gen = g /\ mgr'[k + 1].loop = "starting" /\ mgr'[k + 1].sender = 0
      /\ \A n \in Managers \ {k + 1} :
             /\ mgr'[n].loop = mgr[n].loop /\ mgr'[n].at = mgr[n].at /\ mgr'[n].gen = mgr[n].gen
             /\ \/ mgr'[n].sender = mgr[n].sender
                \/ mgr'[n].sender = 0 /\ (mgr[n].sender = 0 \/ mgr[n].sender \in signalled')
      /\ g \in Nat /\ g >= reserved /\ reserved' = g + Jump
      /\ relaunches' = relaunches \union {k + 1}
      /\ signalled \subseteq signalled' /\ signalled' \subseteq Sockets
  BY <1>1, BegunManagers
<1> HIDE DEF g
<1>4. k \in Nat /\ \A n \in Managers : n \in Nat
  BY Numbered
<1>5. \A n \in Managers : Born(n)' <=> n <= k + 1
  BY <1>1, <1>3, <1>4 DEF Born
<1>6. BridgeTyped'
  <2>1. faults' \in 0..MaxFaults
    BY <1>2, Usual, Numbered
  <2>2. reserved' \in Nat
    BY <1>3, LspAssumption
  <2> QED BY <1>2, <1>3, <2>1, <2>2 DEF BridgeTyped, ManagersTyped, SocketsTyped, EventsTyped
<1>7. ManagersInOrder'
  <2>1. \A n \in Managers : ~Born(n)' => mgr'[n].sender = 0
    BY <1>3 DEF ManagersInOrder, Born
  <2>2. \A n \in relaunches' : Born(n)'
    BY <1>3 DEF ManagersInOrder, Born, BridgeTyped, ManagersTyped
  <2> QED BY <1>2, <1>3, <1>5, <2>1, <2>2 DEF ManagersInOrder
<1>8. \A n \in Managers : Born(n) => Born(n)' /\ n # k + 1
  BY <1>3 DEF Born
<1>9. SocketsInOrder'
  BY <1>2, <1>8 DEF SocketsInOrder, BridgeTyped, EventsTyped
<1>10. LoopAtItsOwn'
  BY <1>2, <1>3 DEF LoopAtItsOwn
<1>11. SenderOfRelay'
  <2>1. ASSUME NEW s \in Sockets, socket[s].step = "live", s \notin signalled'
        PROVE  mgr'[socket[s].m].sender = s
    <3>1. /\ s \notin signalled /\ socket[s].m \in Managers /\ Born(socket[s].m)
          /\ mgr[socket[s].m].sender = s /\ s # 0
      BY <1>3, <2>1, Numbered DEF SenderOfRelay, SocketsInOrder
    <3> QED BY <1>3, <1>8, <2>1, <3>1
  <2> QED BY <1>2, <2>1 DEF SenderOfRelay
<1>12. Budget \in Nat /\ Budget' \in Nat /\ Budget' < Budget /\ Budget < Jump
  <2>1. Unbumped' = Unbumped
    BY <1>2 DEF Unbumped
  <2>2. /\ Budget \in Nat /\ Budget' \in Nat /\ Cardinality(Unbumped) \in Nat
    BY <1>6, BudgetNat, BudgetNatNext
  <2>3. faults \in Nat /\ MaxFaults \in Nat /\ Jump \in Nat
    BY Usual, Numbered, LspAssumption
  <2>4. Cardinality(Unbumped) <= Cardinality(Sockets) /\ Cardinality(Sockets) \in Nat
    BY LspAssumption, FS_Subset, FS_CardinalityType DEF Unbumped
  <2> QED BY <1>2, <2>1, <2>2, <2>3, <2>4, JumpAssumption DEF Budget
<1>13. /\ reserved \in Nat /\ Jump \in Nat /\ \A n \in Managers : mgr[n].gen \in Nat
  BY LspAssumption DEF BridgeTyped, ManagersTyped, ManagerRecords
<1>14. GensApart'
  <2>1. ASSUME NEW m \in Managers, NEW n \in Managers, m < n, Born(n)'
        PROVE  mgr'[m].gen + Budget' < mgr'[n].gen
    <3>1. CASE n = k + 1
      <4>1. Born(m) /\ m # k + 1 /\ mgr[m].gen + Budget < reserved
        BY <1>1, <1>4, <2>1, <3>1 DEF GensApart
      <4> QED BY <1>3, <1>12, <1>13, <3>1, <4>1
    <3>2. CASE n # k + 1
      <4>1. Born(n) /\ m # k + 1
        BY <1>1, <1>4, <1>5, <2>1, <3>2
      <4>2. mgr[m].gen + Budget < mgr[n].gen
        BY <2>1, <4>1 DEF GensApart
      <4> QED BY <1>3, <1>12, <1>13, <3>2, <4>1, <4>2
    <3> QED BY <3>1, <3>2
  <2>2. ASSUME NEW m \in Managers, Born(m)'
        PROVE  mgr'[m].gen + Budget' < reserved'
    <3>1. CASE m = k + 1
      BY <1>3, <1>12, <1>13, <3>1
    <3>2. CASE m # k + 1
      <4>1. Born(m) /\ mgr[m].gen + Budget < reserved
        BY <1>1, <1>4, <1>5, <2>2, <3>2 DEF GensApart
      <4> QED BY <1>3, <1>12, <1>13, <3>2, <4>1
    <3> QED BY <3>1, <3>2
  <2> QED BY <2>1, <2>2 DEF GensApart
<1>15. EventsBehind'
  <2>1. ASSUME NEW i \in 1..Len(events)
        PROVE  (Born(events[i].m) /\ events[i].gen <= mgr[events[i].m].gen)'
    <3>1. events[i].m \in Managers /\ Born(events[i].m) /\ events[i].gen <= mgr[events[i].m].gen
      BY EventTyped DEF EventsBehind
    <3> DEFINE m == events[i].m
    <3>2. m \in Managers /\ Born(m)
      BY <3>1
    <3>3. m # k + 1 /\ mgr'[m].gen = mgr[m].gen /\ mgr'[m].loop = mgr[m].loop
      BY <1>3, <1>8, <3>2
    <3>4. mgr'[m].loop # "unborn"
      BY <3>2, <3>3 DEF Born
    <3> QED BY <1>2, <3>1, <3>3, <3>4 DEF Born
  <2> QED BY <1>2, <2>1 DEF EventsBehind
<1> QED BY <1>6, <1>7, <1>9, <1>10, <1>11, <1>14, <1>15

-----------------------------------------------------------------------------
(* The theorem.                                                            *)

\* It holds where the program starts, with or without a binary.
LEMMA BridgeStarts == LspInit => BridgeInv
<1> SUFFICES ASSUME LspInit PROVE BridgeInv
  OBVIOUS
<1>1. PICK ok \in BOOLEAN :
          /\ mgr = [m \in Managers |-> IF m = 1 THEN Started(Fresh, 1, ok) ELSE Fresh]
          /\ store = [m |-> IF ok THEN 1 ELSE 0, gen |-> 1, gate |-> 1,
                      kind |-> IF ok THEN "awaitingClient" ELSE "unavailable"]
          /\ starts = IF ok THEN 1 ELSE 0
  BY DEF LspInit
<1>2. /\ slot = 1 /\ reserved = 1 + Jump /\ restart = "no" /\ relaunches = {}
      /\ socket = [s \in Sockets |-> [step |-> "none", m |-> 0, gen |-> 0]] /\ signalled = {} /\ events = <<>>
      /\ faults = 0
  BY DEF LspInit
<1>3. 1 \in Managers /\ Jump \in Nat /\ MaxFaults \in Nat /\ Managers \subseteq Nat
  BY LspAssumption, Numbered
<1>4. Started(Fresh, 1, ok) \in ManagerRecords /\ Fresh \in ManagerRecords
      /\ Started(Fresh, 1, ok).loop \in {"accept", "degraded"} /\ Started(Fresh, 1, ok).gen = 1
      /\ Started(Fresh, 1, ok).sender = 0 /\ Fresh.loop = "unborn" /\ Fresh.sender = 0 /\ Fresh.gen = 0
  <2>1. CASE ok = TRUE
    BY <2>1 DEF Started, Fresh, ManagerRecords, LoopSteps
  <2>2. CASE ok = FALSE
    BY <2>2 DEF Started, Fresh, ManagerRecords, LoopSteps
  <2> QED BY <2>1, <2>2
<1>5. \A m \in Managers : Born(m) <=> m = 1
  BY <1>1, <1>4 DEF Born
<1>6. BridgeTyped
  <2>1. ManagersTyped
    <3>1. faults \in 0..MaxFaults /\ reserved \in Nat /\ slot \in Managers \union {0} /\ relaunches \subseteq Managers
      BY <1>2, <1>3
    <3>2. mgr \in [Managers -> ManagerRecords]
      BY <1>1, <1>4
    <3> QED BY <1>2, <3>1, <3>2 DEF ManagersTyped
  <2>2. SocketsTyped
    BY <1>2 DEF SocketsTyped, SocketSteps
  <2>3. events \in Seq([m : Managers, gen : Nat, kind : Kinds, url : BOOLEAN])
    BY <1>2, EmptySeq
  <2>4. EventsTyped
    BY <1>1, <1>3, <2>3 DEF EventsTyped
  <2> QED BY <2>1, <2>2, <2>4 DEF BridgeTyped
<1>7. ManagersInOrder
  <2>1. \A m \in Managers : m <= 1 <=> m = 1
    BY <1>3, Numbered
  <2>2. \E k \in Managers : \A m \in Managers : Born(m) <=> m <= k
    BY <1>3, <1>5, <2>1
  <2>3. \A m \in Managers : mgr[m].sender = 0
    BY <1>1, <1>4
  <2> QED BY <1>2, <1>3, <1>5, <2>2, <2>3 DEF ManagersInOrder
<1>8. SocketsInOrder
  <2>1. \A s \in Sockets : socket[s].step = "none" /\ ~(s <= 0)
    BY <1>2, Numbered
  <2>2. \E k \in Nat : \A s \in Sockets : socket[s].step # "none" <=> s <= k
    BY <2>1
  <2> QED BY <1>1, <1>3, <1>5, <2>1, <2>2 DEF SocketsInOrder
<1>9. LoopAtItsOwn /\ SenderOfRelay /\ EventsBehind
  <2>1. \A m \in Managers : mgr[m].loop \in {"accept", "degraded", "unborn"}
    BY <1>1, <1>4
  <2>2. Len(events) = 0
    BY <1>2
  <2> QED BY <1>2, <2>1, <2>2 DEF LoopAtItsOwn, SenderOfRelay, EventsBehind
<1>10. GensApart
  <2>1. Budget \in Nat /\ Budget < Jump
    <3>1. Cardinality(Unbumped) <= Cardinality(Sockets) /\ Cardinality(Sockets) \in Nat
      BY LspAssumption, FS_Subset, FS_CardinalityType DEF Unbumped
    <3>2. Budget \in Nat /\ Cardinality(Unbumped) \in Nat
      BY <1>6, BudgetNat
    <3> QED BY <1>2, <1>3, <3>1, <3>2, JumpAssumption DEF Budget
  <2>2. mgr[1].gen = 1 /\ \A m, n \in Managers : m < n /\ Born(n) => FALSE
    <3>1. \A m \in Managers : m \in Nat /\ m # 0
      BY Numbered
    <3> QED BY <1>1, <1>3, <1>4, <1>5, <3>1
  <2> QED BY <1>2, <1>3, <1>5, <2>1, <2>2 DEF GensApart
<1> QED BY <1>6, <1>7, <1>8, <1>9, <1>10 DEF BridgeInv

\* Every step keeps it.
LEMMA BridgeKept ==
    ASSUME BridgeInv, [LspNext]_lspVars
    PROVE  BridgeInv'
<1>1. CASE UNCHANGED lspVars
  BY <1>1, QuietKeeps DEF lspVars
<1>2. ASSUME NEW m \in Managers, \/ Handshake(m) \/ Spawn(m) \/ PublishRunning(m) \/ Register(m)
                                 \/ AcceptFails(m) \/ GiveUp(m) \/ Retry(m) \/ Stop(m)
                                 \/ RelaunchStarts(m) \/ RelaunchInstalls(m)
                                 \/ \E s \in Sockets : Accept(m, s)
      PROVE  BridgeInv'
  BY <1>2, HandshakeKeeps, SpawnKeeps, PublishRunningKeeps, RegisterKeeps, AcceptFailsKeeps, GiveUpKeeps, RetryKeeps,
     StopKeeps, RelaunchStartsKeeps, RelaunchInstallsKeeps, AcceptKeeps
<1>3. ASSUME NEW s \in Sockets, \/ Superseded(s) \/ RelayEnds(s) \/ EndBumps(s) \/ EndClears(s) \/ EndPublishes(s)
      PROVE  BridgeInv'
  BY <1>3, SupersededKeeps, RelayEndsKeeps, EndBumpsKeeps, EndClearsKeeps, EndPublishesKeeps
<1>4. CASE RestartBegins \/ RestartBumps \/ RestartSupersedes \/ RestartPublishes \/ RelaunchBegins
  BY <1>4, RestartBeginsKeeps, RestartBumpsKeeps, RestartSupersedesKeeps, RestartPublishesKeeps, RelaunchBeginsKeeps
<1>5. CASE Receive \/ StartClient
  BY <1>5, ReceiveKeeps, StartClientKeeps
<1>6. CASE ClientReady \/ ClientFails
  BY <1>6, QuietKeeps DEF ClientReady, ClientFails
<1> QED BY <1>1, <1>2, <1>3, <1>4, <1>5, <1>6 DEF LspNext

\* The relay that a manager holds is its only one, and the generations of two
\* managers are further apart than what an event can carry.
LEMMA BridgeInvGives == BridgeInv => OneServerAtATime
<1> SUFFICES ASSUME BridgeInv PROVE OneServerAtATime
  OBVIOUS
<1> USE DEF BridgeInv
<1>1. OneRelay
  <2>1. ASSUME NEW m \in Managers
        PROVE  Cardinality({s \in Sockets : socket[s].step = "live" /\ socket[s].m = m /\ s \notin signalled}) <= 1
    <3> DEFINE L == {s \in Sockets : socket[s].step = "live" /\ socket[s].m = m /\ s \notin signalled}
    <3>1. \A s \in L : s = mgr[m].sender
      BY DEF SenderOfRelay
    <3>2. L \subseteq {mgr[m].sender}
      BY <3>1
    <3>3. IsFiniteSet({mgr[m].sender}) /\ Cardinality({mgr[m].sender}) = 1
      BY FS_Singleton
    <3>4. IsFiniteSet(L) /\ Cardinality(L) <= 1
      BY <3>2, <3>3, FS_Subset
    <3> QED BY <3>4
  <2> QED BY <2>1 DEF OneRelay
<1>2. SuccessorsWin
  <2>1. ASSUME NEW i \in 1..Len(events), slot # 0, events[i].m < slot
        PROVE  events[i].gen < mgr[slot].gen
    <3>1. slot \in Managers /\ Born(slot)
      BY <2>1 DEF BridgeTyped, ManagersTyped, ManagersInOrder
    <3>2. events[i].m \in Managers /\ events[i].gen \in Nat /\ events[i].gen <= mgr[events[i].m].gen
      BY EventTyped DEF EventsBehind
    <3>3. mgr[events[i].m].gen + Budget < mgr[slot].gen
      BY <2>1, <3>1, <3>2 DEF GensApart
    <3>4. Budget \in Nat /\ mgr[slot].gen \in Nat /\ mgr[events[i].m].gen \in Nat
      BY <3>1, <3>2, BudgetNat DEF BridgeTyped, ManagersTyped, ManagerRecords
    <3> QED BY <3>2, <3>3, <3>4
  <2> QED BY <2>1 DEF SuccessorsWin
<1> QED BY <1>1, <1>2 DEF OneServerAtATime

\* Each manager has one relay at a time, and no late event of a manager that
\* was replaced passes for one of its successor (accept loop, relay task,
\* request_restart, reserve_generation, installRelaunched).
THEOREM ServersInTurn == LspSpec => []OneServerAtATime
<1>1. LspInit => BridgeInv
  BY BridgeStarts
<1>2. BridgeInv /\ [LspNext]_lspVars => BridgeInv'
  BY BridgeKept
<1>3. BridgeInv => OneServerAtATime
  BY BridgeInvGives
<1> QED BY <1>1, <1>2, <1>3, PTL DEF LspSpec

-----------------------------------------------------------------------------
(* The webview follows.                                                     *)

ClientStates == {"off", "dialling", "ready", "failed"}

ClientTyped ==
    /\ client \in [state : ClientStates, socket : Sockets \union {0}, m : Managers \union {0}, gen : Nat,
                   generation : Nat, ready : BOOLEAN]
    /\ store.gate \in Nat /\ store.gen <= store.gate

\* The newest manager is in the service or on its way there, and is not stopped.
Newest(n) == \A m \in Managers : Born(m) <=> m <= n
NewestServes ==
    \A n \in Managers : Newest(n) => ~mgr[n].stop /\ (n \in relaunches <=> slot # n)

\* An exhausted loop does not accept, and a loop has ended because it was told to.
LoopsAgree ==
    \A m \in Managers :
        /\ mgr[m].exhausted => mgr[m].loop \in {"giveUp", "parked", "stopped"}
        /\ mgr[m].loop = "stopped" => mgr[m].stop

\* No endpoint is ahead of its manager.
PathsBehind ==
    /\ store.m # 0 => store.gen <= mgr[store.m].gen
    /\ \A n \in Managers : Newest(n) => store.gen <= mgr[n].gen
    /\ \A s \in Sockets : socket[s].step # "none" => socket[s].gen <= mgr[socket[s].m].gen

\* A sender belongs to a relay that has not cleared the slot, and that nobody
\* has told to end.
SendersAlive ==
    /\ \A m \in Managers : mgr[m].sender # 0 =>
          /\ socket[mgr[m].sender].step \in {"live", "ended", "bumped"} /\ socket[mgr[m].sender].m = m
          /\ mgr[m].sender \notin signalled
    /\ \A s \in signalled : socket[s].step \notin {"none", "dialled", "handshake", "upgraded"}

\* The generation of manager n is to be published, and the webview has been told
\* of it or will be.
Coming(n) ==
    \/ mgr[n].loop = "starting"
    \/ restart \in {"bumped", "superseded"} /\ slot = n
    \/ \E s \in Sockets : socket[s].m = n /\ socket[s].step \in {"bumped", "cleared"}
Heard(n) ==
    \/ <<n, mgr[n].gen>> \in lost \/ Coming(n)
    \/ \E i \in 1..Len(events) : events[i].m = n /\ events[i].gen = mgr[n].gen
Told == \A n \in Managers : Newest(n) => store.gen = mgr[n].gen \/ Heard(n)

\* Who has no endpoint to offer: without a binary, exhausted, or about to have a
\* new generation.
Silent(m) ==
    \/ mgr[m].loop = "degraded" \/ mgr[m].exhausted \/ (restart = "flagged" /\ slot = m)
    \/ <<m, mgr[m].gen>> \in lost
Offered ==
    /\ \A i \in 1..Len(events) : ~events[i].url /\ events[i].gen = mgr[events[i].m].gen => Silent(events[i].m)
    /\ \A n \in Managers : Newest(n) /\ store.m = 0 /\ store.gen = mgr[n].gen => Silent(n)

\* The endpoint of the store is the client's, or a start is queued.
StartsQueued ==
    store.m # 0 => starts > 0 \/ (client.state # "off" /\ client.m = store.m /\ client.gen = store.gen)

\* A client has a connection of its endpoint, or has failed with one.
Ending == {"ended", "bumped", "cleared", "gone"}
ClientConnected ==
    /\ client.state \in {"dialling", "ready"} =>
          /\ client.socket \in Sockets /\ socket[client.socket].step # "none"
          /\ socket[client.socket].m = client.m /\ socket[client.socket].gen = client.gen
    /\ client.state = "failed" =>
          \E s \in Sockets : socket[s].m = client.m /\ socket[s].gen = client.gen /\ socket[s].step \in Ending

\* A connection that has ended was one of an older generation, or of a manager
\* that is stopped, or is lost.
EndsExplained ==
    \A s \in Sockets : socket[s].step \in {"bumped", "cleared", "gone"} =>
        \/ socket[s].gen < mgr[socket[s].m].gen \/ mgr[socket[s].m].stop
        \/ <<socket[s].m, socket[s].gen>> \in lost

FollowInv ==
    /\ BridgeInv /\ ClientTyped /\ NewestServes /\ LoopsAgree /\ PathsBehind /\ SendersAlive
    /\ Told /\ Offered /\ StartsQueued /\ ClientConnected /\ EndsExplained

-----------------------------------------------------------------------------
(* What a calm step keeps.                                                  *)

\* Most steps make no manager, stop none, and leave the webview alone.
Calm ==
    /\ \A k \in Managers :
          /\ (mgr'[k].loop = "unborn" <=> mgr[k].loop = "unborn") /\ mgr'[k].stop = mgr[k].stop
          /\ mgr[k].gen \in Nat /\ mgr'[k].gen \in Nat /\ mgr[k].gen <= mgr'[k].gen
    /\ \A s \in Sockets :
          /\ socket'[s].m = socket[s].m /\ socket'[s].gen = socket[s].gen /\ socket[s].gen \in Nat
          /\ socket'[s].step = "none" <=> socket[s].step = "none"
          /\ socket[s].step \in Ending => socket'[s].step \in Ending
    /\ lost \subseteq lost' /\ UNCHANGED <<slot, relaunches, store, client, starts>>

LEMMA NewestStays ==
    ASSUME Calm, NEW n \in Managers
    PROVE  Newest(n)' <=> Newest(n)
BY DEF Calm, Newest, Born

\* What such a step cannot disturb.
LEMMA CalmKeeps ==
    ASSUME FollowInv, Calm
    PROVE  ClientTyped' /\ NewestServes' /\ PathsBehind' /\ StartsQueued' /\ ClientConnected'
<1> USE DEF FollowInv
<1>1. ClientTyped'
  BY DEF Calm, ClientTyped
<1>2. NewestServes'
  <2>1. ASSUME NEW n \in Managers, Newest(n)' PROVE (~mgr[n].stop /\ (n \in relaunches <=> slot # n))'
    <3>1. Newest(n)
      BY <2>1, NewestStays
    <3>2. ~mgr[n].stop /\ (n \in relaunches <=> slot # n)
      BY <3>1 DEF NewestServes
    <3> QED BY <3>2 DEF Calm
  <2> QED BY <2>1 DEF NewestServes
<1>3. PathsBehind'
  <2>1. store' = store /\ store.gen \in Nat /\ store.m \in Managers \union {0}
    BY DEF Calm, BridgeInv, BridgeTyped, EventsTyped
  <2>2. store.m # 0 => store.gen <= mgr'[store.m].gen
    <3>1. ASSUME store.m # 0 PROVE store.m \in Managers /\ store.gen <= mgr[store.m].gen
      BY <2>1, <3>1 DEF PathsBehind
    <3> QED BY <2>1, <3>1 DEF Calm
  <2>3. ASSUME NEW n \in Managers, Newest(n)' PROVE store.gen <= mgr'[n].gen
    <3>1. store.gen <= mgr[n].gen
      BY <2>3, NewestStays DEF PathsBehind
    <3> QED BY <2>1, <3>1 DEF Calm
  <2>4. ASSUME NEW s \in Sockets, socket'[s].step # "none" PROVE socket'[s].gen <= mgr'[socket'[s].m].gen
    <3>1. socket[s].step # "none" /\ socket'[s].m = socket[s].m /\ socket'[s].gen = socket[s].gen /\ socket[s].gen \in Nat
      BY <2>4 DEF Calm
    <3>2. socket[s].m \in Managers /\ socket[s].gen <= mgr[socket[s].m].gen
      BY <3>1 DEF BridgeInv, SocketsInOrder, PathsBehind
    <3> QED BY <3>1, <3>2 DEF Calm
  <2> QED BY <2>1, <2>2, <2>3, <2>4 DEF PathsBehind
<1>4. StartsQueued'
  BY DEF Calm, StartsQueued
<1>5. ClientConnected'
  <2>1. client' = client
    BY DEF Calm
  <2>2. ASSUME client.state \in {"dialling", "ready"}
        PROVE  /\ client.socket \in Sockets /\ socket'[client.socket].step # "none"
               /\ socket'[client.socket].m = client.m /\ socket'[client.socket].gen = client.gen
    BY <2>2 DEF Calm, ClientConnected
  <2>3. ASSUME client.state = "failed"
        PROVE  \E s \in Sockets : socket'[s].m = client.m /\ socket'[s].gen = client.gen /\ socket'[s].step \in Ending
    <3>1. PICK s \in Sockets : socket[s].m = client.m /\ socket[s].gen = client.gen /\ socket[s].step \in Ending
      BY <2>3 DEF ClientConnected
    <3> QED BY <3>1 DEF Calm
  <2> QED BY <2>1, <2>2, <2>3 DEF ClientConnected
<1> QED BY <1>1, <1>2, <1>3, <1>4, <1>5

\* Events only leave at the front, and what is coming comes.
LEMMA ToldStays ==
    ASSUME BridgeTyped, Told, Calm,
           \A i \in 1..Len(events) : \E j \in 1..Len(events') : events'[j] = events[i],
           \A n \in Managers : Coming(n) \/ mgr'[n].gen # mgr[n].gen => Heard(n)'
    PROVE  Told'
<1> SUFFICES ASSUME NEW n \in Managers, Newest(n)', ~(Heard(n)') PROVE store'.gen = mgr'[n].gen
  BY DEF Told
<1>1. ~Coming(n) /\ mgr'[n].gen = mgr[n].gen
  OBVIOUS
<1>2. store.gen = mgr[n].gen \/ Heard(n)
  BY NewestStays DEF Told
<1>3. <<n, mgr[n].gen>> \notin lost
  BY <1>1 DEF Heard, Calm
<1>4. ASSUME NEW i \in 1..Len(events), events[i].m = n, events[i].gen = mgr[n].gen PROVE FALSE
  <2>1. PICK j \in 1..Len(events') : events'[j] = events[i]
    OBVIOUS
  <2> QED BY <1>1, <1>4, <2>1 DEF Heard
<1>5. store.gen = mgr[n].gen
  BY <1>1, <1>2, <1>3, <1>4 DEF Heard
<1> QED BY <1>1, <1>5 DEF Calm

\* A manager that offers nothing goes on so, and new events offer something.
LEMMA OfferedStays ==
    ASSUME BridgeTyped, EventsBehind, PathsBehind, Offered, Calm,
           \A m \in Managers : mgr'[m].gen = mgr[m].gen /\ Silent(m) => Silent(m)',
           \A i \in 1..Len(events') : \/ \E j \in 1..Len(events) : events'[i] = events[j]
                                      \/ events'[i].url
                                      \/ \E m \in Managers : events'[i].m = m /\ Silent(m)'
    PROVE  Offered'
<1>1. ASSUME NEW i \in 1..Len(events'), ~events'[i].url, events'[i].gen = mgr'[events'[i].m].gen
      PROVE  Silent(events[i].m)'
  <2>1. CASE \E m \in Managers : events'[i].m = m /\ Silent(m)'
    BY <2>1
  <2>2. CASE \E j \in 1..Len(events) : events'[i] = events[j]
    <3>1. PICK j \in 1..Len(events) : events'[i] = events[j]
      BY <2>2
    <3>2. events[j].m \in Managers /\ events[j].gen \in Nat /\ events[j].gen <= mgr[events[j].m].gen
      BY EventTyped DEF EventsBehind
    <3>3. PICK m \in Managers : m = events[j].m
      BY <3>2
    <3>4. mgr[m].gen \in Nat /\ mgr'[m].gen \in Nat /\ mgr[m].gen <= mgr'[m].gen
      BY DEF Calm
    <3>5. mgr'[m].gen = mgr[m].gen /\ events[j].gen = mgr[m].gen /\ ~events[j].url
      BY <1>1, <3>1, <3>2, <3>3, <3>4
    <3>6. Silent(m)
      BY <3>3, <3>5 DEF Offered
    <3>7. Silent(m)'
      BY <3>5, <3>6
    <3> QED BY <3>1, <3>3, <3>7
  <2> QED BY <1>1, <2>1, <2>2
<1>2. ASSUME NEW n \in Managers, Newest(n)', store'.m = 0, store'.gen = mgr'[n].gen PROVE Silent(n)'
  <2>1. Newest(n) /\ store' = store
    BY <1>2, NewestStays DEF Calm
  <2>2. store.gen <= mgr[n].gen /\ store.gen \in Nat /\ mgr[n].gen \in Nat /\ mgr'[n].gen \in Nat /\ mgr[n].gen <= mgr'[n].gen
    BY <2>1 DEF PathsBehind, Calm, BridgeTyped, EventsTyped
  <2>3. mgr'[n].gen = mgr[n].gen
    BY <1>2, <2>1, <2>2
  <2>4. Silent(n)
    BY <1>2, <2>1, <2>3 DEF Offered
  <2> QED BY <2>3, <2>4
<1> QED BY <1>1, <1>2 DEF Offered

LEMMA ExplainedStays ==
    ASSUME SocketsInOrder, EndsExplained, Calm,
           \A s \in Sockets : socket[s].step \notin Spent /\ socket'[s].step \in Spent =>
               \/ socket[s].gen < mgr'[socket[s].m].gen \/ mgr'[socket[s].m].stop
               \/ <<socket[s].m, socket[s].gen>> \in lost'
    PROVE  EndsExplained'
<1> SUFFICES ASSUME NEW s \in Sockets, socket'[s].step \in Spent
             PROVE  \/ socket[s].gen < mgr'[socket[s].m].gen \/ mgr'[socket[s].m].stop
                    \/ <<socket[s].m, socket[s].gen>> \in lost'
  BY DEF EndsExplained, Calm, Spent
<1>1. CASE socket[s].step \in Spent
  <2>1. \/ socket[s].gen < mgr[socket[s].m].gen \/ mgr[socket[s].m].stop
        \/ <<socket[s].m, socket[s].gen>> \in lost
    BY <1>1 DEF EndsExplained, Spent
  <2>2. socket[s].m \in Managers
    BY <1>1 DEF SocketsInOrder, Spent
  <2>3. mgr[socket[s].m].gen \in Nat /\ mgr'[socket[s].m].gen \in Nat /\ mgr[socket[s].m].gen <= mgr'[socket[s].m].gen
        /\ mgr'[socket[s].m].stop = mgr[socket[s].m].stop /\ socket[s].gen \in Nat /\ lost \subseteq lost'
    BY <2>2 DEF Calm
  <2> QED BY <2>1, <2>3
<1> QED BY <1>1

\* The senders stay in their slots, and their relays at work.
Early == {"none", "dialled", "handshake", "upgraded"}
Held  == {"live", "ended", "bumped"}
LEMMA SendersStay ==
    ASSUME BridgeTyped, SendersAlive, signalled' = signalled,
           \A k \in Managers : mgr'[k].sender = mgr[k].sender,
           \A s \in Sockets : /\ socket'[s].m = socket[s].m
                              /\ socket[s].step \notin Early => socket'[s].step \notin Early
                              /\ socket[s].step \in Held /\ s \notin signalled => socket'[s].step \in Held
    PROVE  SendersAlive'
<1>1. ASSUME NEW m \in Managers, mgr'[m].sender # 0
      PROVE  /\ socket'[mgr'[m].sender].step \in Held /\ socket'[mgr'[m].sender].m = m
             /\ mgr'[m].sender \notin signalled'
  <2>1. mgr[m].sender \in Sockets
    BY <1>1 DEF BridgeTyped, ManagersTyped, ManagerRecords
  <2>2. socket[mgr[m].sender].step \in Held /\ socket[mgr[m].sender].m = m /\ mgr[m].sender \notin signalled
    BY <1>1 DEF SendersAlive, Held
  <2> QED BY <2>1, <2>2
<1>2. ASSUME NEW s \in signalled' PROVE socket'[s].step \notin Early
  <2>1. s \in Sockets /\ socket[s].step \notin Early
    BY <1>2 DEF SendersAlive, Early, BridgeTyped, SocketsTyped
  <2> QED BY <2>1
<1> QED BY <1>1, <1>2 DEF SendersAlive, Held, Early

\* A manager's sender is told to end and leaves the slot.
LEMMA SendersDropped ==
    ASSUME BridgeTyped, SendersAlive, NEW m \in Managers, Signal({mgr[m].sender}),
           mgr'[m].sender = 0, \A k \in Managers \ {m} : mgr'[k].sender = mgr[k].sender,
           \A s \in Sockets : /\ socket'[s].m = socket[s].m
                              /\ socket[s].step \notin Early => socket'[s].step \notin Early
                              /\ socket[s].step \in Held /\ socket[s].m # m => socket'[s].step \in Held
    PROVE  SendersAlive'
<1>1. ASSUME NEW k \in Managers, mgr'[k].sender # 0
      PROVE  /\ socket'[mgr'[k].sender].step \in Held /\ socket'[mgr'[k].sender].m = k
             /\ mgr'[k].sender \notin signalled'
  <2>1. k # m /\ mgr'[k].sender = mgr[k].sender
    BY <1>1
  <2>2. mgr[k].sender \in Sockets
    BY <1>1, <2>1 DEF BridgeTyped, ManagersTyped, ManagerRecords
  <2>3. socket[mgr[k].sender].step \in Held /\ socket[mgr[k].sender].m = k /\ mgr[k].sender \notin signalled
    BY <1>1, <2>1 DEF SendersAlive, Held
  <2>4. mgr[k].sender # mgr[m].sender
    <3>1. mgr[m].sender # 0 => socket[mgr[m].sender].m = m
      BY DEF SendersAlive
    <3> QED BY <1>1, <2>1, <2>3, <3>1
  <2> QED BY <2>1, <2>2, <2>3, <2>4 DEF Signal
<1>2. ASSUME NEW s \in signalled' PROVE socket'[s].step \notin Early
  <2>1. CASE s \in signalled
    <3>1. s \in Sockets /\ socket[s].step \notin Early
      BY <2>1 DEF SendersAlive, Early, BridgeTyped, SocketsTyped
    <3> QED BY <3>1
  <2>2. CASE s = mgr[m].sender /\ s # 0
    <3>1. s \in Sockets
      BY <2>2 DEF BridgeTyped, ManagersTyped, ManagerRecords
    <3>2. socket[s].step \notin Early
      BY <2>2 DEF SendersAlive, Early
    <3> QED BY <3>1, <3>2
  <2> QED BY <1>2, <2>1, <2>2 DEF Signal
<1> QED BY <1>1, <1>2 DEF SendersAlive, Held, Early

\* Steps after which what was to come still is, and nobody speaks or falls silent
\* on the way.
Hush ==
    /\ \A k \in Managers :
          /\ mgr'[k].gen = mgr[k].gen
          /\ mgr[k].loop = "starting" => mgr'[k].loop = "starting"
          /\ mgr[k].loop = "degraded" => mgr'[k].loop = "degraded"
          /\ mgr[k].exhausted => mgr'[k].exhausted
    /\ restart' = restart
    /\ \A s \in Sockets : socket[s].step \in {"bumped", "cleared"} => socket'[s].step \in {"bumped", "cleared"}

EventRecords == [m : Managers, gen : Nat, kind : Kinds, url : BOOLEAN]

\* What a step does to the events: nothing, or one more that is true.
Tells == \/ UNCHANGED events
         \/ \E e \in EventRecords : Send(e) /\ (e.url \/ \E m \in Managers : m = e.m /\ Silent(m)')

LEMMA EventsKept ==
    ASSUME BridgeTyped, Tells
    PROVE  /\ \A i \in 1..Len(events) : \E j \in 1..Len(events') : events'[j] = events[i]
           /\ \A i \in 1..Len(events') : \/ \E j \in 1..Len(events) : events'[i] = events[j]
                                         \/ events'[i].url
                                         \/ \E m \in Managers : events'[i].m = m /\ Silent(m)'
<1>1. CASE UNCHANGED events
  BY <1>1
<1>2. ASSUME NEW e \in EventRecords, Send(e), e.url \/ \E m \in Managers : m = e.m /\ Silent(m)'
      PROVE  /\ \A i \in 1..Len(events) : \E j \in 1..Len(events') : events'[j] = events[i]
             /\ \A i \in 1..Len(events') : \/ \E j \in 1..Len(events) : events'[i] = events[j]
                                           \/ events'[i].url
                                           \/ \E m \in Managers : events'[i].m = m /\ Silent(m)'
  <2>1. /\ Len(events') = Len(events) + 1 /\ Len(events) \in Nat
        /\ \A i \in 1..Len(events') : events'[i] = IF i = Len(events) + 1 THEN e ELSE events[i]
    BY <1>2, SendTyped DEF EventRecords, BridgeTyped, EventsTyped
  <2>2. ASSUME NEW i \in 1..Len(events) PROVE \E j \in 1..Len(events') : events'[j] = events[i]
    <3>1. i \in 1..Len(events') /\ i # Len(events) + 1
      BY <2>1
    <3> QED BY <2>1, <3>1
  <2>3. ASSUME NEW i \in 1..Len(events')
        PROVE  \/ \E j \in 1..Len(events) : events'[i] = events[j]
               \/ events'[i].url
               \/ \E m \in Managers : events'[i].m = m /\ Silent(m)'
    <3>1. CASE i = Len(events) + 1
      <4>1. events'[i] = e
        BY <2>1, <3>1
      <4> QED BY <1>2, <4>1
    <3>2. CASE i # Len(events) + 1
      <4>1. i \in 1..Len(events) /\ events'[i] = events[i]
        BY <2>1, <3>2
      <4> QED BY <4>1
    <3> QED BY <3>1, <3>2
  <2> QED BY <2>2, <2>3
<1> QED BY <1>1, <1>2 DEF Tells

LEMMA HushKeeps ==
    ASSUME FollowInv, BridgeInv', Calm, Hush, Tells, LoopsAgree', SendersAlive', EndsExplained'
    PROVE  FollowInv'
<1>1. ClientTyped' /\ NewestServes' /\ PathsBehind' /\ StartsQueued' /\ ClientConnected'
  BY CalmKeeps
<1>2. BridgeTyped /\ EventsBehind
  BY DEF FollowInv, BridgeInv
<1>3. ASSUME NEW n \in Managers, Coming(n) PROVE Coming(n)'
  BY <1>3 DEF Coming, Hush, Calm
<1>4. ASSUME NEW n \in Managers, Silent(n) PROVE Silent(n)'
  BY <1>4 DEF Silent, Hush, Calm
<1>5. ASSUME NEW n \in Managers, Coming(n) \/ mgr'[n].gen # mgr[n].gen PROVE Heard(n)'
  <2>1. Coming(n)'
    BY <1>3, <1>5 DEF Hush
  <2> QED BY <2>1 DEF Heard
<1>6. Told'
  BY <1>2, <1>5, EventsKept, ToldStays DEF FollowInv
<1>7. Offered'
  BY <1>2, <1>4, EventsKept, OfferedStays DEF FollowInv
<1> QED BY <1>1, <1>6, <1>7 DEF FollowInv

\* One step of an accept loop that is at work.
Turning(m, loop, at, sender) ==
    /\ Becomes(m, loop, at, sender, mgr[m].gen) /\ mgr'[m].stop = mgr[m].stop
    /\ mgr[m].loop \notin {"unborn", "starting", "degraded"} /\ loop \notin {"unborn", "starting", "degraded", "stopped"}
    /\ mgr[m].exhausted => mgr'[m].exhausted
    /\ mgr'[m].exhausted => loop \in {"giveUp", "parked"}
    /\ UNCHANGED <<slot, restart, relaunches, store, client, starts>> /\ lost \subseteq lost'

LEMMA TurningKeeps ==
    ASSUME FollowInv, BridgeInv', NEW m \in Managers, NEW loop, NEW at, NEW sender, Turning(m, loop, at, sender), Tells,
           \/ UNCHANGED socket
           \/ \E s \in Sockets, step \in {"handshake", "upgraded", "live", "gone"} :
                /\ Turns(s, step) /\ socket[s].step \in {"dialled", "handshake", "upgraded"}
                /\ step = "gone" => socket[s].gen < mgr[socket[s].m].gen \/ <<socket[s].m, socket[s].gen>> \in lost',
           SendersAlive' \/ (sender = mgr[m].sender /\ UNCHANGED signalled)
    PROVE  FollowInv'
<1>1. /\ BridgeTyped /\ \A k \in Managers : mgr[k] \in ManagerRecords
      /\ mgr \in [Managers -> ManagerRecords] /\ mgr' \in [Managers -> ManagerRecords]
      /\ socket \in [Sockets -> [step : SocketSteps, m : Managers \union {0}, gen : Nat]]
  BY DEF FollowInv, BridgeInv, BridgeTyped, ManagersTyped, SocketsTyped, Turning, Becomes
<1>2. /\ mgr'[m].loop = loop /\ mgr'[m].sender = sender /\ mgr'[m].gen = mgr[m].gen
      /\ \A k \in Managers \ {m} : mgr'[k] = mgr[k]
  BY DEF Turning, Becomes
<1>3. \A s \in Sockets : socket[s].gen \in Nat
  BY <1>1
<1>4. \A k \in Managers : mgr[k].gen \in Nat
  BY <1>1 DEF ManagerRecords
<1>5. /\ \A s \in Sockets : /\ socket'[s].m = socket[s].m /\ socket'[s].gen = socket[s].gen
                            /\ \/ socket'[s].step = socket[s].step
                               \/ /\ socket[s].step \in {"dialled", "handshake", "upgraded"}
                                  /\ socket'[s].step \in {"handshake", "upgraded", "live", "gone"}
                                  /\ socket'[s].step = "gone" => \/ socket[s].gen < mgr[socket[s].m].gen
                                                                 \/ <<socket[s].m, socket[s].gen>> \in lost'
  BY DEF Turns
<1>6. Calm
  <2>1. \A k \in Managers :
            /\ (mgr'[k].loop = "unborn" <=> mgr[k].loop = "unborn") /\ mgr'[k].stop = mgr[k].stop
            /\ mgr[k].gen \in Nat /\ mgr'[k].gen \in Nat /\ mgr[k].gen <= mgr'[k].gen
    BY <1>2, <1>4 DEF Turning
  <2>2. \A s \in Sockets :
            /\ socket'[s].m = socket[s].m /\ socket'[s].gen = socket[s].gen /\ socket[s].gen \in Nat
            /\ socket'[s].step = "none" <=> socket[s].step = "none"
            /\ socket[s].step \in Ending => socket'[s].step \in Ending
    BY <1>3, <1>5 DEF Ending
  <2> QED BY <2>1, <2>2 DEF Calm, Turning
<1>7. Hush
  BY <1>2, <1>5 DEF Hush, Turning
<1>8. LoopsAgree'
  BY <1>2 DEF LoopsAgree, Turning, FollowInv
<1>9. SendersAlive'
  <2>1. CASE sender = mgr[m].sender /\ UNCHANGED signalled
    <3>1. \A k \in Managers : mgr'[k].sender = mgr[k].sender
      BY <1>2, <2>1
    <3> QED BY <1>1, <1>5, <2>1, <3>1, SendersStay DEF FollowInv, Early, Held
  <2> QED BY <2>1
<1>10. EndsExplained'
  <2>1. ASSUME NEW s \in Sockets, socket[s].step \notin Spent, socket'[s].step \in Spent
        PROVE  \/ socket[s].gen < mgr'[socket[s].m].gen \/ mgr'[socket[s].m].stop
               \/ <<socket[s].m, socket[s].gen>> \in lost'
    <3>1. socket[s].step # "none" /\ socket'[s].step = "gone"
      BY <1>5, <2>1 DEF Spent
    <3>2. socket[s].m \in Managers
      BY <3>1 DEF FollowInv, BridgeInv, SocketsInOrder
    <3>3. mgr'[socket[s].m].gen = mgr[socket[s].m].gen
      BY <1>2, <3>2
    <3> QED BY <1>5, <2>1, <3>1, <3>3 DEF Spent
  <2> QED BY <1>6, <2>1, ExplainedStays DEF FollowInv, BridgeInv
<1> QED BY <1>6, <1>7, <1>8, <1>9, <1>10, HushKeeps

-----------------------------------------------------------------------------
(* The accept loop, as the webview sees it.                                 *)

\* What a follower of the bridge may use of the state.
LEMMA Known ==
    ASSUME FollowInv
    PROVE  /\ BridgeInv /\ BridgeTyped /\ ManagersTyped
           /\ mgr \in [Managers -> ManagerRecords] /\ \A k \in Managers : mgr[k] \in ManagerRecords
           /\ \A s \in Sockets : socket[s].gen \in Nat /\ (socket[s].step # "none" => socket[s].m \in Managers)
           /\ slot \in Managers \union {0}
BY DEF FollowInv, BridgeInv, BridgeTyped, ManagersTyped, SocketsTyped, SocketsInOrder

LEMMA AcceptFollows ==
    ASSUME FollowInv, BridgeInv', NEW m \in Managers, NEW s \in Sockets, Accept(m, s)
    PROVE  FollowInv'
<1>1. /\ mgr[m].loop = "accept" /\ socket[s].step = "dialled"
      /\ UNCHANGED <<slot, restart, relaunches, signalled, events, store, client, starts, lost>>
  BY DEF Accept
<1>2. Becomes(m, "handshake", s, mgr[m].sender, mgr[m].gen) /\ Turns(s, "handshake")
  BY Known, AcceptDoes
<1>3. mgr'[m].stop = mgr[m].stop /\ mgr'[m].exhausted = FALSE
  BY Known DEF Accept, SetManager, ManagerRecords
<1>4. ~mgr[m].exhausted
  BY <1>1 DEF FollowInv, LoopsAgree
<1>5. Turning(m, "handshake", s, mgr[m].sender)
  BY <1>1, <1>2, <1>3, <1>4 DEF Turning
<1> QED BY <1>1, <1>2, <1>5, TurningKeeps DEF Tells

\* The loop goes on to another step; the flags stay.
LEMMA LoopMarks ==
    ASSUME ManagersTyped, NEW m \in Managers, NEW step, NEW s, Loop(m, step, s)
    PROVE  mgr'[m].stop = mgr[m].stop /\ mgr'[m].exhausted = mgr[m].exhausted
BY DEF ManagersTyped, ManagerRecords, Loop, SetManager

\* The connection that a loop is at.
LEMMA AtHand ==
    ASSUME FollowInv, NEW m \in Managers, mgr[m].loop \in {"handshake", "upgraded", "running", "register"}
    PROVE  /\ mgr[m].at \in Sockets /\ socket[mgr[m].at].m = m /\ socket[mgr[m].at].step \in {"handshake", "upgraded"}
           /\ socket[mgr[m].at].gen <= mgr[m].gen /\ socket[mgr[m].at].gen \in Nat /\ mgr[m].gen \in Nat
           /\ ~mgr[m].exhausted
<1>1. mgr[m].at \in Sockets /\ socket[mgr[m].at].m = m /\ socket[mgr[m].at].step \in {"handshake", "upgraded"}
  BY DEF FollowInv, BridgeInv, LoopAtItsOwn
<1>2. socket[mgr[m].at].gen <= mgr[m].gen
  BY <1>1 DEF FollowInv, PathsBehind
<1>3. ~mgr[m].exhausted
  BY DEF FollowInv, LoopsAgree
<1> QED BY <1>1, <1>2, <1>3, Known DEF ManagerRecords

LEMMA HandshakeFollows ==
    ASSUME FollowInv, BridgeInv', NEW m \in Managers, Handshake(m)
    PROVE  FollowInv'
<1>1. /\ mgr[m].loop = "handshake"
      /\ UNCHANGED <<slot, restart, relaunches, signalled, events, store, client, starts, lost>>
  BY DEF Handshake
<1> PICK s \in Sockets : s = mgr[m].at
  BY <1>1, AtHand
<1>2. socket[s].m = m /\ socket[s].step \in {"handshake", "upgraded"} /\ ~mgr[m].exhausted
  BY <1>1, AtHand
<1>3. CASE socket[s].gen = mgr[m].gen
  <2>1. socket' = [socket EXCEPT ![s].step = "upgraded"] /\ Loop(m, "upgraded", s)
    BY <1>3 DEF Handshake
  <2>2. Becomes(m, "upgraded", s, mgr[m].sender, mgr[m].gen) /\ Turns(s, "upgraded")
    BY <2>1, Known, LoopGoes, SocketSet DEF LoopSteps, SocketSteps, BridgeTyped
  <2>3. Turning(m, "upgraded", s, mgr[m].sender)
    BY <1>1, <1>2, <2>1, <2>2, LoopMarks, Known DEF Turning
  <2> QED BY <1>1, <1>2, <2>2, <2>3, TurningKeeps DEF Tells
<1>4. CASE socket[s].gen # mgr[m].gen
  <2>1. Refuse(m)
    BY <1>4 DEF Handshake
  <2>2. Becomes(m, "accept", 0, mgr[m].sender, mgr[m].gen) /\ Turns(s, "gone")
    BY <2>1, Known, RefuseDoes
  <2>3. Turning(m, "accept", 0, mgr[m].sender)
    BY <1>1, <1>2, <2>1, <2>2, LoopMarks, Known DEF Turning, Refuse
  <2>4. socket[s].gen < mgr[socket[s].m].gen
    BY <1>1, <1>2, <1>4, AtHand
  <2> QED BY <1>1, <1>2, <2>2, <2>3, <2>4, TurningKeeps DEF Tells
<1> QED BY <1>3, <1>4

\* A relay whose sender is in the slot has not gone, so that a connection that is
\* turned away for it is lost.
LEMMA SpawnFollows ==
    ASSUME FollowInv, BridgeInv', NEW m \in Managers, Spawn(m)
    PROVE  FollowInv'
<1>1. mgr[m].loop = "upgraded" /\ UNCHANGED <<slot, restart, relaunches, signalled, events, store, client, starts>>
  BY DEF Spawn
<1> PICK s \in Sockets : s = mgr[m].at
  BY <1>1, AtHand
<1>2. socket[s].m = m /\ socket[s].step \in {"handshake", "upgraded"} /\ ~mgr[m].exhausted
  BY <1>1, AtHand
<1>3. CASE Refuse(m) /\ lost' = IF mgr[m].sender # 0 /\ socket[mgr[m].sender].step = "gone" THEN lost
                                ELSE lost \union {<<m, socket[mgr[m].at].gen>>}
  <2>1. ~(mgr[m].sender # 0 /\ socket[mgr[m].sender].step = "gone")
    BY DEF FollowInv, SendersAlive
  <2>2. Becomes(m, "accept", 0, mgr[m].sender, mgr[m].gen) /\ Turns(s, "gone")
    BY <1>3, Known, RefuseDoes
  <2>3. lost' = lost \union {<<m, socket[s].gen>>}
    BY <1>3, <2>1
  <2>4. Turning(m, "accept", 0, mgr[m].sender)
    BY <1>1, <1>2, <1>3, <2>2, <2>3, LoopMarks, Known DEF Turning, Refuse
  <2> QED BY <1>1, <1>2, <2>2, <2>3, <2>4, TurningKeeps DEF Tells
<1>4. CASE /\ SetManager(m, [mgr[m] EXCEPT !.loop = "running", !.running = TRUE, !.restarting = FALSE])
           /\ UNCHANGED <<socket, lost>>
  <2>1. Becomes(m, "running", s, mgr[m].sender, mgr[m].gen)
    <3> DEFINE R == [mgr[m] EXCEPT !.loop = "running", !.running = TRUE, !.restarting = FALSE]
    <3>1. R \in ManagerRecords /\ R.gen = mgr[m].gen /\ R.sender = mgr[m].sender /\ R.loop = "running" /\ R.at = s
      BY Known DEF ManagerRecords, LoopSteps
    <3> HIDE DEF R
    <3>2. SetManager(m, R)
      BY <1>4 DEF R
    <3> QED BY <3>1, <3>2, RecordSet, Known
  <2>2. mgr'[m].stop = mgr[m].stop /\ mgr'[m].exhausted = mgr[m].exhausted
    BY <1>4, Known DEF SetManager, ManagerRecords
  <2>3. Turning(m, "running", s, mgr[m].sender)
    BY <1>1, <1>2, <1>4, <2>1, <2>2 DEF Turning
  <2> QED BY <1>1, <1>4, <2>3, TurningKeeps DEF Tells
<1> QED BY <1>3, <1>4 DEF Spawn

\* An event about a manager.
LEMMA EventSaid ==
    ASSUME FollowInv, NEW m \in Managers, NEW r \in ManagerRecords, NEW kind \in Kinds
    PROVE  /\ Event(m, r, kind) \in EventRecords /\ Event(m, r, kind).m = m /\ Event(m, r, kind).gen = r.gen
           /\ Event(m, r, kind).url <=> mgr[m].loop # "degraded" /\ kind # "failed"
BY DEF Event, EventRecords, Available, ManagerRecords

LEMMA PublishRunningFollows ==
    ASSUME FollowInv, BridgeInv', NEW m \in Managers, PublishRunning(m)
    PROVE  FollowInv'
<1>1. /\ mgr[m].loop = "running" /\ Loop(m, "register", mgr[m].at) /\ Send(Event(m, mgr[m], "running"))
      /\ UNCHANGED <<slot, restart, relaunches, socket, signalled, store, client, starts, lost>>
  BY DEF PublishRunning
<1>2. mgr[m].at \in Sockets /\ ~mgr[m].exhausted
  BY <1>1, AtHand
<1>3. Becomes(m, "register", mgr[m].at, mgr[m].sender, mgr[m].gen)
  BY <1>1, <1>2, LoopGoes, Known DEF LoopSteps
<1>4. Tells
  BY <1>1, EventSaid, Known DEF Tells, Kinds
<1>5. Turning(m, "register", mgr[m].at, mgr[m].sender)
  BY <1>1, <1>2, <1>3, LoopMarks, Known DEF Turning
<1> QED BY <1>1, <1>4, <1>5, TurningKeeps

\* The sender of a new relay takes the place of one that is told to end.
LEMMA RegisterFollows ==
    ASSUME FollowInv, BridgeInv', NEW m \in Managers, Register(m)
    PROVE  FollowInv'
<1>1. /\ mgr[m].loop = "register" /\ Signal({mgr[m].sender})
      /\ UNCHANGED <<slot, restart, relaunches, events, store, client, starts, lost>>
  BY DEF Register
<1> PICK s \in Sockets : s = mgr[m].at
  BY <1>1, AtHand
<1>2. socket[s].m = m /\ socket[s].step \in {"handshake", "upgraded"} /\ ~mgr[m].exhausted
  BY <1>1, AtHand
<1>3. Becomes(m, "accept", 0, s, mgr[m].gen) /\ Turns(s, "live")
  BY Known, RegisterDoes
<1>4. mgr'[m].stop = mgr[m].stop /\ mgr'[m].exhausted = mgr[m].exhausted
  BY Known DEF Register, SetManager, ManagerRecords
<1>5. Turning(m, "accept", 0, s)
  BY <1>1, <1>2, <1>3, <1>4 DEF Turning
<1>6. SendersAlive
  BY DEF FollowInv
<1>7. mgr[m].sender # 0 => mgr[m].sender \in Sockets /\ socket[mgr[m].sender].step \in Held /\ socket[mgr[m].sender].m = m
  BY <1>6, Known DEF SendersAlive, Held, ManagerRecords
<1>8. s \notin signalled /\ s \notin signalled'
  BY <1>1, <1>2, <1>6, <1>7 DEF SendersAlive, Signal, Held
<1>9. ASSUME NEW k \in Managers, mgr'[k].sender # 0
      PROVE  /\ socket'[mgr'[k].sender].step \in Held /\ socket'[mgr'[k].sender].m = k
             /\ mgr'[k].sender \notin signalled'
  <2>1. CASE k = m
    BY <1>2, <1>3, <1>8, <2>1 DEF Becomes, Turns, Held
  <2>2. CASE k # m
    <3>1. mgr'[k].sender = mgr[k].sender /\ mgr[k].sender # 0
      BY <1>3, <1>9, <2>2 DEF Becomes
    <3>2. mgr[k].sender \in Sockets /\ socket[mgr[k].sender].step \in Held /\ socket[mgr[k].sender].m = k
          /\ mgr[k].sender \notin signalled
      BY <1>6, <3>1, Known DEF SendersAlive, Held, ManagerRecords
    <3>3. mgr[k].sender # s /\ mgr[k].sender # mgr[m].sender
      BY <1>2, <1>7, <2>2, <3>1, <3>2
    <3> QED BY <1>1, <1>3, <3>1, <3>2, <3>3 DEF Turns, Signal
  <2> QED BY <2>1, <2>2
<1>10. ASSUME NEW q \in signalled' PROVE socket'[q].step \notin Early
  <2>1. q \in Sockets /\ socket[q].step \notin Early
    BY <1>1, <1>6, <1>7, <1>10, Known DEF SendersAlive, Signal, Early, Held, BridgeTyped, SocketsTyped
  <2> QED BY <1>3, <1>8, <1>10, <2>1 DEF Turns
<1>11. SendersAlive'
  BY <1>9, <1>10 DEF SendersAlive, Held, Early
<1> QED BY <1>1, <1>2, <1>3, <1>5, <1>11, TurningKeeps DEF Tells

LEMMA AcceptFailsFollows ==
    ASSUME FollowInv, BridgeInv', NEW m \in Managers, AcceptFails(m)
    PROVE  FollowInv'
<1>1. mgr[m].loop = "accept" /\ UNCHANGED <<slot, restart, relaunches, socket, signalled, store, client, starts, lost>>
  BY DEF AcceptFails
<1>2. ~mgr[m].exhausted
  BY <1>1 DEF FollowInv, LoopsAgree
<1>3. PICK step \in {"giveUp", "backoff"} : Becomes(m, step, mgr[m].at, mgr[m].sender, mgr[m].gen)
  BY Known, AcceptFailsDoes
<1>4. /\ mgr'[m].stop = mgr[m].stop
      /\ mgr'[m].loop = IF mgr[m].failures >= Backoff THEN "giveUp" ELSE "backoff"
      /\ ~(mgr[m].failures >= Backoff) => ~mgr'[m].exhausted
  BY <1>2, Known DEF AcceptFails, SetManager, ManagerRecords
<1>5. mgr'[m].exhausted => step = "giveUp"
  BY <1>3, <1>4 DEF Becomes
<1>6. Turning(m, step, mgr[m].at, mgr[m].sender)
  BY <1>1, <1>2, <1>3, <1>4, <1>5 DEF Turning
<1>7. Tells
  <2>1. UNCHANGED events \/ Send(Event(m, mgr[m], "restarting"))
    BY Known DEF AcceptFails, Event, ManagerRecords
  <2> QED BY <1>1, <2>1, EventSaid, Known DEF Tells, Kinds
<1> QED BY <1>1, <1>6, <1>7, TurningKeeps

LEMMA GiveUpFollows ==
    ASSUME FollowInv, BridgeInv', NEW m \in Managers, GiveUp(m)
    PROVE  FollowInv'
<1>1. /\ mgr[m].loop = "giveUp" /\ Send(Event(m, mgr[m], "failed")) /\ Loop(m, "parked", 0)
      /\ lost' = IF mgr[m].exhausted THEN lost ELSE lost \union {<<m, mgr[m].gen>>}
      /\ UNCHANGED <<slot, restart, relaunches, socket, signalled, store, client, starts>>
  BY DEF GiveUp
<1>2. Becomes(m, "parked", 0, mgr[m].sender, mgr[m].gen)
  BY <1>1, Known, LoopGoes DEF LoopSteps
<1>3. mgr'[m].stop = mgr[m].stop /\ mgr'[m].exhausted = mgr[m].exhausted
  BY <1>1, LoopMarks, Known
<1>4. Turning(m, "parked", 0, mgr[m].sender)
  BY <1>1, <1>2, <1>3 DEF Turning
<1>5. Silent(m)'
  BY <1>1, <1>2, <1>3 DEF Silent, Becomes
<1>6. Tells
  BY <1>1, <1>5, EventSaid, Known DEF Tells, Kinds
<1> QED BY <1>1, <1>4, <1>6, TurningKeeps

LEMMA RetryFollows ==
    ASSUME FollowInv, BridgeInv', NEW m \in Managers, Retry(m)
    PROVE  FollowInv'
<1>1. /\ mgr[m].loop \in {"backoff", "parked"} /\ ~mgr[m].exhausted /\ Loop(m, "accept", 0)
      /\ UNCHANGED <<slot, restart, relaunches, socket, signalled, events, store, client, starts, lost>>
  BY DEF Retry, FollowInv, LoopsAgree
<1>2. Becomes(m, "accept", 0, mgr[m].sender, mgr[m].gen)
  BY <1>1, Known, LoopGoes DEF LoopSteps
<1>3. Turning(m, "accept", 0, mgr[m].sender)
  BY <1>1, <1>2, LoopMarks, Known DEF Turning
<1> QED BY <1>1, <1>3, TurningKeeps DEF Tells

\* A step that sockets alone see.
LEMMA SocketsKeep ==
    ASSUME FollowInv, BridgeInv', UNCHANGED <<mgr, slot, restart, relaunches, signalled, events, store, client, starts>>,
           lost \subseteq lost',
           NEW s \in Sockets, NEW step \in {"ended", "gone"}, socket[s].step = "live", Turns(s, step),
           step = "gone" => s \in signalled /\ <<socket[s].m, socket[s].gen>> \in lost'
    PROVE  FollowInv'
<1>1. \A q \in Sockets : /\ socket'[q].m = socket[q].m /\ socket'[q].gen = socket[q].gen
                         /\ socket'[q].step = socket[q].step \/ (q = s /\ socket'[q].step = step)
  BY DEF Turns
<1>2. \A k \in Managers : mgr[k].gen \in Nat
  BY Known DEF ManagerRecords
<1>3. Calm
  BY <1>1, <1>2, Known DEF Calm, Ending
<1>4. Hush
  BY <1>1 DEF Hush
<1>5. LoopsAgree'
  BY DEF LoopsAgree, FollowInv
<1>6. SendersAlive'
  BY <1>1, Known, SendersStay DEF FollowInv, Early, Held
<1>7. EndsExplained'
  BY <1>1, <1>3, ExplainedStays DEF FollowInv, BridgeInv, Spent
<1> QED BY <1>3, <1>4, <1>5, <1>6, <1>7, HushKeeps DEF Tells

LEMMA SupersededFollows ==
    ASSUME FollowInv, BridgeInv', NEW s \in Sockets, Superseded(s)
    PROVE  FollowInv'
<1>1. Turns(s, "gone")
  BY Known, SocketSet DEF Superseded, Step, SocketSteps, BridgeTyped
<1> QED BY <1>1, SocketsKeep DEF Superseded, Step

LEMMA RelayEndsFollows ==
    ASSUME FollowInv, BridgeInv', NEW s \in Sockets, RelayEnds(s)
    PROVE  FollowInv'
<1>1. Turns(s, "ended")
  BY Known, SocketSet DEF RelayEnds, Step, SocketSteps, BridgeTyped
<1> QED BY <1>1, SocketsKeep DEF RelayEnds, Step

LEMMA StopFollows ==
    ASSUME FollowInv, BridgeInv', NEW m \in Managers, Stop(m)
    PROVE  FollowInv'
<1>1. /\ mgr[m].stop /\ mgr[m].loop \in {"accept", "backoff", "parked"} /\ Loop(m, "stopped", 0)
      /\ UNCHANGED <<slot, restart, relaunches, signalled, events, store, client, starts, lost>>
  BY DEF Stop
<1>2. Becomes(m, "stopped", 0, mgr[m].sender, mgr[m].gen)
  BY <1>1, Known, LoopGoes DEF LoopSteps
<1>3. mgr'[m].stop = mgr[m].stop /\ mgr'[m].exhausted = mgr[m].exhausted
  BY <1>1, LoopMarks, Known
<1>4. /\ mgr'[m].loop = "stopped" /\ mgr'[m].sender = mgr[m].sender /\ mgr'[m].gen = mgr[m].gen
      /\ \A k \in Managers \ {m} : mgr'[k] = mgr[k]
  BY <1>2 DEF Becomes
<1>5. \A q \in Sockets :
          /\ socket'[q].m = socket[q].m /\ socket'[q].gen = socket[q].gen
          /\ \/ socket'[q].step = socket[q].step
             \/ socket[q].m = m /\ socket[q].step = "dialled" /\ socket'[q].step = "gone"
  BY Known DEF Stop, BridgeTyped, SocketsTyped
<1>6. \A k \in Managers : mgr[k].gen \in Nat
  BY Known DEF ManagerRecords
<1>7. Calm
  <2>1. \A k \in Managers :
            /\ (mgr'[k].loop = "unborn" <=> mgr[k].loop = "unborn") /\ mgr'[k].stop = mgr[k].stop
            /\ mgr[k].gen \in Nat /\ mgr'[k].gen \in Nat /\ mgr[k].gen <= mgr'[k].gen
    <3> TAKE k \in Managers
    <3>1. CASE k = m
      <4>1. mgr[m].loop # "unborn" /\ mgr'[m].loop # "unborn"
        BY <1>1, <1>4
      <4>2. mgr[m].gen \in Nat /\ mgr'[m].gen = mgr[m].gen /\ mgr'[m].stop = mgr[m].stop
        BY <1>3, <1>4, <1>6
      <4> QED BY <3>1, <4>1, <4>2
    <3>2. CASE k # m
      <4>1. mgr'[k] = mgr[k] /\ mgr[k].gen \in Nat
        BY <1>4, <1>6, <3>2
      <4> QED BY <4>1
    <3> QED BY <3>1, <3>2
  <2>2. \A q \in Sockets :
            /\ socket'[q].m = socket[q].m /\ socket'[q].gen = socket[q].gen /\ socket[q].gen \in Nat
            /\ socket'[q].step = "none" <=> socket[q].step = "none"
            /\ socket[q].step \in Ending => socket'[q].step \in Ending
    BY <1>5, Known DEF Ending
  <2> QED BY <1>1, <2>1, <2>2 DEF Calm
<1>8. Hush
  BY <1>1, <1>3, <1>4, <1>5 DEF Hush
<1>9. LoopsAgree'
  BY <1>1, <1>3, <1>4 DEF LoopsAgree, FollowInv
<1>10. SendersAlive'
  <2>1. \A k \in Managers : mgr'[k].sender = mgr[k].sender
    BY <1>4
  <2> QED BY <1>1, <1>5, <2>1, Known, SendersStay DEF FollowInv, Early, Held
<1>11. EndsExplained'
  <2>1. \A q \in Sockets : socket[q].step \notin Spent /\ socket'[q].step \in Spent => mgr'[socket[q].m].stop
    BY <1>1, <1>3, <1>5
  <2> QED BY <1>7, <2>1, ExplainedStays DEF FollowInv, BridgeInv
<1> QED BY <1>1, <1>7, <1>8, <1>9, <1>10, <1>11, HushKeeps DEF Tells

-----------------------------------------------------------------------------
(* The end of a relay, relaunches and restarts.                             *)

\* The webview will hear what it is sent.
LEMMA SentHeard ==
    ASSUME BridgeTyped, NEW n \in Managers, NEW e \in EventRecords, Send(e), e.m = n, e.gen = mgr'[n].gen
    PROVE  Heard(n)'
<1>1. Len(events') = Len(events) + 1 /\ events'[Len(events')] = e /\ Len(events) \in Nat
  <2>1. /\ Len(events') = Len(events) + 1
        /\ \A i \in 1..Len(events') : events'[i] = IF i = Len(events) + 1 THEN e ELSE events[i]
    BY SendTyped DEF EventRecords
  <2>2. Len(events) \in Nat
    BY DEF BridgeTyped, EventsTyped
  <2> QED BY <2>1, <2>2
<1> QED BY <1>1 DEF Heard

\* Steps that are calm, though they may bring a new generation or an event.
LEMMA CalmFollows ==
    ASSUME FollowInv, BridgeInv', Calm, Tells, LoopsAgree', SendersAlive', EndsExplained',
           \A n \in Managers : Coming(n) \/ mgr'[n].gen # mgr[n].gen => Heard(n)',
           \A m \in Managers : mgr'[m].gen = mgr[m].gen /\ Silent(m) => Silent(m)'
    PROVE  FollowInv'
<1>1. ClientTyped' /\ NewestServes' /\ PathsBehind' /\ StartsQueued' /\ ClientConnected'
  BY CalmKeeps
<1>2. BridgeTyped /\ EventsBehind
  BY DEF FollowInv, BridgeInv
<1>3. Told'
  BY <1>2, EventsKept, ToldStays DEF FollowInv
<1>4. Offered'
  BY <1>2, EventsKept, OfferedStays DEF FollowInv
<1> QED BY <1>1, <1>3, <1>4 DEF FollowInv

\* One manager changes, and perhaps a relay that has ended goes on.
LEMMA ManagerCalm ==
    ASSUME FollowInv, NEW m \in Managers, NEW loop, NEW at, NEW sender, NEW gen \in Nat,
           Becomes(m, loop, at, sender, gen), mgr[m].gen <= gen, mgr'[m].stop = mgr[m].stop,
           loop = "unborn" <=> mgr[m].loop = "unborn",
           \/ UNCHANGED socket
           \/ \E s \in Sockets, step \in Ending : Turns(s, step) /\ socket[s].step \in Ending,
           UNCHANGED <<slot, relaunches, store, client, starts>>, lost \subseteq lost'
    PROVE  Calm
<1>1. \A k \in Managers : mgr[k].gen \in Nat
  BY Known DEF ManagerRecords
<1>2. \A k \in Managers :
          /\ (mgr'[k].loop = "unborn" <=> mgr[k].loop = "unborn") /\ mgr'[k].stop = mgr[k].stop
          /\ mgr[k].gen \in Nat /\ mgr'[k].gen \in Nat /\ mgr[k].gen <= mgr'[k].gen
  <2> TAKE k \in Managers
  <2>1. CASE k = m
    BY <1>1, <2>1 DEF Becomes
  <2>2. CASE k # m
    <3>1. mgr'[k] = mgr[k] /\ mgr[k].gen \in Nat
      BY <1>1, <2>2 DEF Becomes
    <3> QED BY <3>1
  <2> QED BY <2>1, <2>2
<1>3. \A q \in Sockets :
          /\ socket'[q].m = socket[q].m /\ socket'[q].gen = socket[q].gen /\ socket[q].gen \in Nat
          /\ socket'[q].step = "none" <=> socket[q].step = "none"
          /\ socket[q].step \in Ending => socket'[q].step \in Ending
  BY Known DEF Turns, Ending
<1> QED BY <1>2, <1>3 DEF Calm

\* A relaunch has a manager: it announces itself, or its endpoint is lost.
LEMMA RelaunchStartsFollows ==
    ASSUME FollowInv, BridgeInv', NEW m \in Managers, RelaunchStarts(m)
    PROVE  FollowInv'
<1>1. mgr[m].loop = "starting" /\ UNCHANGED <<slot, restart, relaunches, socket, signalled, store, client, starts>>
  BY DEF RelaunchStarts
<1>2. mgr[m] \in ManagerRecords /\ mgr[m].gen \in Nat
  BY Known DEF ManagerRecords
<1>3. ~mgr[m].exhausted
  BY <1>1 DEF FollowInv, LoopsAgree
<1> DEFINE e == [m |-> m, gen |-> mgr[m].gen, kind |-> "unavailable", url |-> FALSE]
<1>4. PICK ok \in BOOLEAN : /\ SetManager(m, Started(mgr[m], mgr[m].gen, ok))
                            /\ ok => lost' = lost \union {<<m, mgr[m].gen>>} /\ UNCHANGED events
                            /\ ~ok => Send(e) /\ UNCHANGED lost
  <2>1. CASE SetManager(m, Started(mgr[m], mgr[m].gen, TRUE)) /\ lost' = lost \union {<<m, mgr[m].gen>>} /\ UNCHANGED events
    BY <2>1
  <2>2. CASE SetManager(m, Started(mgr[m], mgr[m].gen, FALSE)) /\ Send(e) /\ UNCHANGED lost
    BY <2>2
  <2> QED BY <2>1, <2>2 DEF RelaunchStarts
<1> DEFINE loop == IF ok THEN "accept" ELSE "degraded"
<1>5. Becomes(m, loop, mgr[m].at, mgr[m].sender, mgr[m].gen)
  BY <1>4, Known, RelaunchReadyDoes
<1>6. mgr'[m].stop = mgr[m].stop /\ mgr'[m].exhausted = mgr[m].exhausted
  BY <1>2, <1>4, Known DEF SetManager, Started, ManagerRecords
<1>7. Calm
  BY <1>1, <1>2, <1>4, <1>5, <1>6, ManagerCalm
<1>8. /\ mgr'[m].loop = loop /\ mgr'[m].sender = mgr[m].sender /\ mgr'[m].gen = mgr[m].gen
      /\ \A k \in Managers \ {m} : mgr'[k] = mgr[k]
  BY <1>5 DEF Becomes
<1>9. e \in EventRecords /\ e.m = m /\ e.gen = mgr[m].gen /\ ~e.url
  BY <1>2 DEF EventRecords, Kinds
<1>10. Tells
  <2>1. ~ok => Silent(m)'
    BY <1>8 DEF Silent
  <2> HIDE DEF e
  <2> QED BY <1>4, <1>9, <2>1 DEF Tells
<1>11. Heard(m)'
  <2>1. CASE ok
    BY <1>4, <1>8, <2>1 DEF Heard
  <2>2. CASE ~ok
    <3> HIDE DEF e
    <3>1. Send(e)
      BY <1>4, <2>2
    <3> QED BY <1>8, <1>9, <3>1, Known, SentHeard
  <2> QED BY <2>1, <2>2
<1>12. ASSUME NEW n \in Managers, Coming(n) \/ mgr'[n].gen # mgr[n].gen PROVE Heard(n)'
  <2>1. CASE n = m
    BY <1>11, <2>1
  <2>2. CASE n # m
    <3>1. mgr'[n] = mgr[n]
      BY <1>8, <2>2
    <3>2. Coming(n)'
      BY <1>1, <1>12, <3>1 DEF Coming
    <3> QED BY <3>2 DEF Heard
  <2> QED BY <2>1, <2>2
<1>13. ASSUME NEW k \in Managers, mgr'[k].gen = mgr[k].gen, Silent(k) PROVE Silent(k)'
  BY <1>1, <1>3, <1>4, <1>6, <1>8, <1>13 DEF Silent
<1>14. LoopsAgree'
  BY <1>3, <1>6, <1>8 DEF LoopsAgree, FollowInv
<1>15. SendersAlive'
  <2>1. \A k \in Managers : mgr'[k].sender = mgr[k].sender
    BY <1>8
  <2> QED BY <1>1, <2>1, Known, SendersStay DEF FollowInv
<1>16. EndsExplained'
  BY <1>1, <1>7, ExplainedStays DEF FollowInv, BridgeInv
<1> QED BY <1>7, <1>10, <1>12, <1>13, <1>14, <1>15, <1>16, CalmFollows

\* A relay ends: its generation was older than the one that comes.
LEMMA EndBumpsFollows ==
    ASSUME FollowInv, BridgeInv', NEW s \in Sockets, EndBumps(s)
    PROVE  FollowInv'
<1>1. socket[s].step = "ended" /\ UNCHANGED <<slot, restart, relaunches, signalled, events, store, client, starts, lost>>
  BY DEF EndBumps, Step
<1> PICK m \in Managers : m = socket[s].m
  BY <1>1, Known
<1>2. mgr[m] \in ManagerRecords /\ mgr[m].gen \in Nat
  BY Known DEF ManagerRecords
<1>3. Becomes(m, mgr[m].loop, mgr[m].at, mgr[m].sender, mgr[m].gen + 1) /\ Turns(s, "bumped")
  BY Known, EndBumpsDoes
<1>4. mgr'[m].stop = mgr[m].stop /\ mgr'[m].exhausted = mgr[m].exhausted
  BY <1>2, Known DEF EndBumps, SetManager, ManagerRecords
<1>5. Calm
  BY <1>1, <1>2, <1>3, <1>4, ManagerCalm DEF Ending
<1>6. /\ mgr'[m].loop = mgr[m].loop /\ mgr'[m].sender = mgr[m].sender /\ mgr'[m].gen = mgr[m].gen + 1
      /\ \A k \in Managers \ {m} : mgr'[k] = mgr[k]
  BY <1>3 DEF Becomes
<1>7. \A q \in Sockets : /\ socket'[q].m = socket[q].m /\ socket'[q].gen = socket[q].gen
                         /\ socket'[q].step = IF q = s THEN "bumped" ELSE socket[q].step
  BY <1>3 DEF Turns
<1>8. ASSUME NEW n \in Managers, Coming(n) \/ mgr'[n].gen # mgr[n].gen PROVE Heard(n)'
  <2>1. Coming(n)'
    BY <1>1, <1>6, <1>7, <1>8 DEF Coming
  <2> QED BY <2>1 DEF Heard
<1>9. ASSUME NEW k \in Managers, mgr'[k].gen = mgr[k].gen, Silent(k) PROVE Silent(k)'
  <2>1. k # m
    BY <1>2, <1>6, <1>9
  <2> QED BY <1>1, <1>6, <1>9, <2>1 DEF Silent
<1>10. LoopsAgree'
  BY <1>4, <1>6 DEF LoopsAgree, FollowInv
<1>11. SendersAlive'
  <2>1. \A k \in Managers : mgr'[k].sender = mgr[k].sender
    BY <1>6
  <2> QED BY <1>1, <1>7, <2>1, Known, SendersStay DEF FollowInv, Early, Held
<1>12. EndsExplained'
  <2>1. socket[s].gen <= mgr[m].gen /\ socket[s].gen \in Nat
    BY <1>1, Known DEF FollowInv, PathsBehind
  <2>2. socket[s].gen < mgr'[m].gen
    BY <1>2, <1>6, <2>1
  <2> QED BY <1>5, <1>7, <2>2, ExplainedStays DEF FollowInv, BridgeInv
<1> QED BY <1>1, <1>5, <1>8, <1>9, <1>10, <1>11, <1>12, CalmFollows DEF Tells

LEMMA EndClearsFollows ==
    ASSUME FollowInv, BridgeInv', NEW s \in Sockets, EndClears(s)
    PROVE  FollowInv'
<1>1. socket[s].step = "bumped" /\ UNCHANGED <<slot, restart, relaunches, events, store, client, starts, lost>>
  BY DEF EndClears, Step
<1> PICK m \in Managers : m = socket[s].m
  BY <1>1, Known
<1>2. mgr[m] \in ManagerRecords /\ mgr[m].gen \in Nat
  BY Known DEF ManagerRecords
<1>3. Becomes(m, mgr[m].loop, mgr[m].at, 0, mgr[m].gen) /\ Turns(s, "cleared")
  BY Known, EndClearsDoes
<1>4. mgr'[m].stop = mgr[m].stop /\ mgr'[m].exhausted = mgr[m].exhausted
  BY <1>2, Known DEF EndClears, SetManager, ManagerRecords
<1>5. Calm
  BY <1>1, <1>2, <1>3, <1>4, ManagerCalm DEF Ending
<1>6. /\ mgr'[m].loop = mgr[m].loop /\ mgr'[m].sender = 0 /\ mgr'[m].gen = mgr[m].gen
      /\ \A k \in Managers \ {m} : mgr'[k] = mgr[k]
  BY <1>3 DEF Becomes
<1>7. \A q \in Sockets : /\ socket'[q].m = socket[q].m /\ socket'[q].gen = socket[q].gen
                         /\ socket'[q].step = IF q = s THEN "cleared" ELSE socket[q].step
  BY <1>3 DEF Turns
<1>8. Hush
  BY <1>1, <1>4, <1>6, <1>7 DEF Hush
<1>9. LoopsAgree'
  BY <1>4, <1>6 DEF LoopsAgree, FollowInv
<1>10. SendersAlive'
  <2>1. Signal({mgr[m].sender})
    BY DEF EndClears
  <2>2. \A k \in Managers \ {m} : mgr'[k].sender = mgr[k].sender
    BY <1>6
  <2> QED BY <1>1, <1>6, <1>7, <2>1, <2>2, Known, SendersDropped DEF FollowInv, Early, Held
<1>11. EndsExplained'
  BY <1>1, <1>5, <1>7, ExplainedStays DEF FollowInv, BridgeInv, Spent
<1> QED BY <1>1, <1>5, <1>8, <1>9, <1>10, <1>11, HushKeeps DEF Tells

\* The generation a relay has come to is published when it goes.
LEMMA EndPublishesFollows ==
    ASSUME FollowInv, BridgeInv', NEW s \in Sockets, EndPublishes(s)
    PROVE  FollowInv'
<1>1. socket[s].step = "cleared" /\ UNCHANGED <<slot, restart, relaunches, signalled, store, client, starts, lost>>
  BY DEF EndPublishes, Step
<1> PICK m \in Managers : m = socket[s].m
  BY <1>1, Known
<1>2. mgr[m] \in ManagerRecords /\ mgr[m].gen \in Nat
  BY Known DEF ManagerRecords
<1>3. Becomes(m, mgr[m].loop, mgr[m].at, mgr[m].sender, mgr[m].gen) /\ Turns(s, "gone")
  BY Known, EndPublishesDoes
<1>4. mgr'[m].stop = mgr[m].stop /\ mgr'[m].exhausted = mgr[m].exhausted
  BY <1>2, Known DEF EndPublishes, SetManager, ManagerRecords
<1>5. Calm
  BY <1>1, <1>2, <1>3, <1>4, ManagerCalm DEF Ending
<1>6. /\ mgr'[m].loop = mgr[m].loop /\ mgr'[m].sender = mgr[m].sender /\ mgr'[m].gen = mgr[m].gen
      /\ \A k \in Managers \ {m} : mgr'[k] = mgr[k]
  BY <1>3 DEF Becomes
<1>7. \A q \in Sockets : /\ socket'[q].m = socket[q].m /\ socket'[q].gen = socket[q].gen
                         /\ socket'[q].step = IF q = s THEN "gone" ELSE socket[q].step
  BY <1>3 DEF Turns
<1> DEFINE e == Event(m, mgr[m], "restarting")
<1>8. Send(e)
  BY <1>2 DEF EndPublishes, Event, ManagerRecords
<1>9. e \in EventRecords /\ e.m = m /\ e.gen = mgr[m].gen /\ (e.url <=> mgr[m].loop # "degraded")
  BY <1>2, EventSaid DEF Kinds
<1> HIDE DEF e
<1>10. Tells
  <2>1. mgr[m].loop = "degraded" => Silent(m)'
    BY <1>6 DEF Silent
  <2> QED BY <1>8, <1>9, <2>1 DEF Tells
<1>11. Heard(m)'
  BY <1>6, <1>8, <1>9, Known, SentHeard
<1>12. ASSUME NEW n \in Managers, Coming(n) \/ mgr'[n].gen # mgr[n].gen PROVE Heard(n)'
  <2>1. CASE n = m
    BY <1>11, <2>1
  <2>2. CASE n # m
    <3>1. Coming(n)'
      BY <1>1, <1>6, <1>7, <1>12, <2>2 DEF Coming
    <3> QED BY <3>1 DEF Heard
  <2> QED BY <2>1, <2>2
<1>13. ASSUME NEW k \in Managers, mgr'[k].gen = mgr[k].gen, Silent(k) PROVE Silent(k)'
  BY <1>1, <1>4, <1>6, <1>13 DEF Silent
<1>14. LoopsAgree'
  BY <1>4, <1>6 DEF LoopsAgree, FollowInv
<1>15. SendersAlive'
  <2>1. \A k \in Managers : mgr'[k].sender = mgr[k].sender
    BY <1>6
  <2> QED BY <1>1, <1>7, <2>1, Known, SendersStay DEF FollowInv, Early, Held
<1>16. EndsExplained'
  BY <1>1, <1>5, <1>7, ExplainedStays DEF FollowInv, BridgeInv, Spent
<1> QED BY <1>5, <1>10, <1>12, <1>13, <1>14, <1>15, <1>16, CalmFollows

\* A restart that recovers an exhausted manager has not offered its generation.
LEMMA RestartBeginsFollows ==
    ASSUME FollowInv, BridgeInv', RestartBegins
    PROVE  FollowInv'
<1>1. /\ restart = "no" /\ restart' = "flagged" /\ slot # 0
      /\ UNCHANGED <<slot, relaunches, socket, signalled, events, store, client, starts, lost>>
  BY DEF RestartBegins
<1> PICK m \in Managers : m = slot
  BY <1>1, Known
<1>2. mgr[m] \in ManagerRecords /\ mgr[m].gen \in Nat
  BY Known DEF ManagerRecords
<1>3. Becomes(m, mgr[m].loop, mgr[m].at, mgr[m].sender, mgr[m].gen)
  BY Known, RestartBeginsDoes
<1>4. mgr'[m].stop = mgr[m].stop /\ mgr'[m].exhausted = FALSE
  BY <1>2, Known DEF RestartBegins, SetManager, ManagerRecords
<1>5. Calm
  BY <1>1, <1>2, <1>3, <1>4, ManagerCalm
<1>6. /\ mgr'[m].loop = mgr[m].loop /\ mgr'[m].sender = mgr[m].sender /\ mgr'[m].gen = mgr[m].gen
      /\ \A k \in Managers \ {m} : mgr'[k] = mgr[k]
  BY <1>3 DEF Becomes
<1>7. ASSUME NEW n \in Managers, Coming(n) \/ mgr'[n].gen # mgr[n].gen PROVE Heard(n)'
  <2>1. Coming(n)'
    BY <1>1, <1>6, <1>7 DEF Coming
  <2> QED BY <2>1 DEF Heard
<1>8. ASSUME NEW k \in Managers, mgr'[k].gen = mgr[k].gen, Silent(k) PROVE Silent(k)'
  BY <1>1, <1>6, <1>8 DEF Silent
<1>9. LoopsAgree'
  BY <1>4, <1>6 DEF LoopsAgree, FollowInv
<1>10. SendersAlive'
  <2>1. \A k \in Managers : mgr'[k].sender = mgr[k].sender
    BY <1>6
  <2> QED BY <1>1, <2>1, Known, SendersStay DEF FollowInv
<1>11. EndsExplained'
  BY <1>1, <1>5, ExplainedStays DEF FollowInv, BridgeInv
<1> QED BY <1>1, <1>5, <1>7, <1>8, <1>9, <1>10, <1>11, CalmFollows DEF Tells

LEMMA RestartBumpsFollows ==
    ASSUME FollowInv, BridgeInv', RestartBumps
    PROVE  FollowInv'
<1>1. /\ restart = "flagged" /\ restart' = "bumped"
      /\ UNCHANGED <<slot, relaunches, socket, signalled, events, store, client, starts, lost>>
  BY DEF RestartBumps
<1> PICK m \in Managers : m = slot
  BY <1>1, Known, Usual
<1>2. mgr[m] \in ManagerRecords /\ mgr[m].gen \in Nat
  BY Known DEF ManagerRecords
<1>3. Becomes(m, mgr[m].loop, mgr[m].at, mgr[m].sender, mgr[m].gen + 1)
  BY Known, RestartBumpsDoes
<1>4. mgr'[m].stop = mgr[m].stop /\ mgr'[m].exhausted = mgr[m].exhausted
  BY <1>2, Known DEF RestartBumps, SetManager, ManagerRecords
<1>5. Calm
  BY <1>1, <1>2, <1>3, <1>4, ManagerCalm
<1>6. /\ mgr'[m].loop = mgr[m].loop /\ mgr'[m].sender = mgr[m].sender /\ mgr'[m].gen = mgr[m].gen + 1
      /\ \A k \in Managers \ {m} : mgr'[k] = mgr[k]
  BY <1>3 DEF Becomes
<1>7. ASSUME NEW n \in Managers, Coming(n) \/ mgr'[n].gen # mgr[n].gen PROVE Heard(n)'
  <2>1. Coming(n)'
    BY <1>1, <1>6, <1>7 DEF Coming
  <2> QED BY <2>1 DEF Heard
<1>8. ASSUME NEW k \in Managers, mgr'[k].gen = mgr[k].gen, Silent(k) PROVE Silent(k)'
  <2>1. k # m
    BY <1>2, <1>6, <1>8
  <2> QED BY <1>1, <1>6, <1>8, <2>1 DEF Silent
<1>9. LoopsAgree'
  BY <1>4, <1>6 DEF LoopsAgree, FollowInv
<1>10. SendersAlive'
  <2>1. \A k \in Managers : mgr'[k].sender = mgr[k].sender
    BY <1>6
  <2> QED BY <1>1, <2>1, Known, SendersStay DEF FollowInv
<1>11. EndsExplained'
  BY <1>1, <1>5, ExplainedStays DEF FollowInv, BridgeInv
<1> QED BY <1>1, <1>5, <1>7, <1>8, <1>9, <1>10, <1>11, CalmFollows DEF Tells

LEMMA RestartSupersedesFollows ==
    ASSUME FollowInv, BridgeInv', RestartSupersedes
    PROVE  FollowInv'
<1>1. /\ restart = "bumped" /\ restart' = "superseded"
      /\ UNCHANGED <<slot, relaunches, socket, events, store, client, starts, lost>>
  BY DEF RestartSupersedes
<1> PICK m \in Managers : m = slot
  BY <1>1, Known, Usual
<1>2. mgr[m] \in ManagerRecords /\ mgr[m].gen \in Nat
  BY Known DEF ManagerRecords
<1>3. Becomes(m, mgr[m].loop, mgr[m].at, 0, mgr[m].gen)
  BY Known, RestartSupersedesDoes
<1>4. mgr'[m].stop = mgr[m].stop /\ mgr'[m].exhausted = mgr[m].exhausted
  BY <1>2, Known DEF RestartSupersedes, SetManager, ManagerRecords
<1>5. Calm
  BY <1>1, <1>2, <1>3, <1>4, ManagerCalm
<1>6. /\ mgr'[m].loop = mgr[m].loop /\ mgr'[m].sender = 0 /\ mgr'[m].gen = mgr[m].gen
      /\ \A k \in Managers \ {m} : mgr'[k] = mgr[k]
  BY <1>3 DEF Becomes
<1>7. ASSUME NEW n \in Managers, Coming(n) \/ mgr'[n].gen # mgr[n].gen PROVE Heard(n)'
  <2>1. Coming(n)'
    BY <1>1, <1>6, <1>7 DEF Coming
  <2> QED BY <2>1 DEF Heard
<1>8. ASSUME NEW k \in Managers, mgr'[k].gen = mgr[k].gen, Silent(k) PROVE Silent(k)'
  BY <1>1, <1>4, <1>6, <1>8 DEF Silent
<1>9. LoopsAgree'
  BY <1>4, <1>6 DEF LoopsAgree, FollowInv
<1>10. SendersAlive'
  <2>1. Signal({mgr[m].sender})
    BY DEF RestartSupersedes
  <2>2. \A k \in Managers \ {m} : mgr'[k].sender = mgr[k].sender
    BY <1>6
  <2> QED BY <1>1, <1>6, <2>1, <2>2, Known, SendersDropped DEF FollowInv
<1>11. EndsExplained'
  BY <1>1, <1>5, ExplainedStays DEF FollowInv, BridgeInv
<1> QED BY <1>1, <1>5, <1>7, <1>8, <1>9, <1>10, <1>11, CalmFollows DEF Tells

LEMMA RestartPublishesFollows ==
    ASSUME FollowInv, BridgeInv', RestartPublishes
    PROVE  FollowInv'
<1>1. /\ restart = "superseded" /\ restart' = "no" /\ Send(Event(slot, mgr[slot], StatusKind(mgr[slot])))
      /\ UNCHANGED <<mgr, slot, relaunches, socket, signalled, store, client, starts, lost>>
  BY DEF RestartPublishes
<1> PICK m \in Managers : m = slot
  BY <1>1, Known, Usual
<1>2. \A k \in Managers : mgr[k] \in ManagerRecords /\ mgr[k].gen \in Nat
  BY Known DEF ManagerRecords
<1>3. Calm
  BY <1>1, <1>2, Known DEF Calm
<1> DEFINE kind == StatusKind(mgr[m])
           e == Event(m, mgr[m], kind)
<1>4. kind \in Kinds /\ (kind = "failed" => mgr[m].exhausted)
  BY <1>2 DEF StatusKind, Kinds
<1> HIDE DEF kind
<1>5. e \in EventRecords /\ e.m = m /\ e.gen = mgr[m].gen /\ (e.url <=> mgr[m].loop # "degraded" /\ kind # "failed")
  BY <1>2, <1>4, EventSaid
<1>6. Send(e)
  BY <1>1 DEF kind
<1> HIDE DEF e
<1>7. Tells
  <2>1. ~e.url => Silent(m)'
    BY <1>1, <1>4, <1>5 DEF Silent
  <2> QED BY <1>5, <1>6, <2>1 DEF Tells
<1>8. Heard(m)'
  BY <1>1, <1>5, <1>6, Known, SentHeard
<1>9. ASSUME NEW n \in Managers, Coming(n) \/ mgr'[n].gen # mgr[n].gen PROVE Heard(n)'
  <2>1. CASE n = m
    BY <1>8, <2>1
  <2>2. CASE n # m
    <3>1. Coming(n)'
      BY <1>1, <1>9, <2>2 DEF Coming
    <3> QED BY <3>1 DEF Heard
  <2> QED BY <2>1, <2>2
<1>10. ASSUME NEW k \in Managers, Silent(k) PROVE Silent(k)'
  BY <1>1, <1>10 DEF Silent
<1>11. LoopsAgree'
  BY <1>1 DEF LoopsAgree, FollowInv
<1>12. SendersAlive'
  BY <1>1, Known, SendersStay DEF FollowInv
<1>13. EndsExplained'
  BY <1>1, <1>3, ExplainedStays DEF FollowInv, BridgeInv
<1> QED BY <1>3, <1>7, <1>9, <1>10, <1>11, <1>12, <1>13, CalmFollows

-----------------------------------------------------------------------------
(* A new manager, and one that is installed.                                *)

\* What an installation does to the flags: one manager stops, and it is not the
\* newest.
LEMMA InstalledFlags ==
    ASSUME FollowInv, NEW m \in Managers, RelaunchInstalls(m)
    PROVE  /\ \A k \in Managers : mgr'[k].exhausted = mgr[k].exhausted /\ (mgr[k].stop => mgr'[k].stop)
           /\ \A n \in Managers : Newest(n) => mgr'[n].stop = mgr[n].stop /\ (n \in relaunches' <=> slot' # n)
           /\ \/ /\ Signal({mgr[m].sender}) /\ mgr'[m].sender = 0
                 /\ \A k \in Managers \ {m} : mgr'[k].sender = mgr[k].sender
              \/ signalled' = signalled /\ \A k \in Managers : mgr'[k].sender = mgr[k].sender
<1> DEFINE overtaken == slot # 0 /\ mgr[slot].gen >= mgr[m].gen
<1>1. /\ \A k \in Managers : mgr[k] \in ManagerRecords /\ mgr[k].gen \in Nat
      /\ mgr \in [Managers -> ManagerRecords] /\ m \in relaunches /\ relaunches' = relaunches \ {m}
      /\ slot \in Managers \union {0} /\ (slot # 0 => Born(slot)) /\ Born(m) /\ 0 \notin Managers
  BY Known, Numbered DEF RelaunchInstalls, ManagerRecords, BridgeInv, ManagersInOrder
<1>2. ASSUME NEW k \in Managers, NEW n \in Managers, k < n, Born(n) PROVE mgr[k].gen < mgr[n].gen
  <2>1. mgr[k].gen + Budget < mgr[n].gen /\ Budget \in Nat
    BY <1>2, BudgetNat, Known DEF BridgeInv, GensApart
  <2> QED BY <1>1, <2>1
<1>3. \A n \in Managers : Newest(n) => /\ Born(n) /\ m <= n /\ (slot # 0 => slot <= n)
                                       /\ ~mgr[n].stop /\ (n \in relaunches <=> slot # n)
  <2> TAKE n \in Managers
  <2> HAVE Newest(n)
  <2>1. ~mgr[n].stop /\ (n \in relaunches <=> slot # n)
    BY DEF FollowInv, NewestServes
  <2>2. n <= n
    BY Numbered
  <2> QED BY <1>1, <2>1, <2>2 DEF Newest
<1>4. CASE overtaken
  <2> DEFINE R == [mgr[m] EXCEPT !.stop = TRUE, !.sender = 0]
  <2>1. R.exhausted = mgr[m].exhausted /\ R.sender = 0 /\ R.stop = TRUE
    BY <1>1 DEF ManagerRecords
  <2>2. mgr' = [mgr EXCEPT ![m] = R] /\ slot' = slot /\ Signal({mgr[m].sender})
    BY <1>1, <1>4 DEF RelaunchInstalls
  <2> HIDE DEF R
  <2>3. mgr'[m] = R /\ \A k \in Managers \ {m} : mgr'[k] = mgr[k]
    BY <1>1, <2>2
  <2>4. ASSUME NEW n \in Managers, Newest(n) PROVE n # m
    <3>1. CASE n = m
      <4>1. slot # m /\ slot \in Managers /\ slot <= m /\ Born(m)
        BY <1>1, <1>3, <1>4, <2>4, <3>1
      <4>2. slot < m
        BY <4>1, Numbered
      <4>3. mgr[slot].gen < mgr[m].gen
        BY <1>2, <4>1, <4>2
      <4> QED BY <1>1, <1>4, <4>1, <4>3
    <3> QED BY <3>1
  <2>5. \A n \in Managers : Newest(n) => mgr'[n].stop = mgr[n].stop /\ (n \in relaunches' <=> slot' # n)
    BY <1>1, <1>3, <2>2, <2>3, <2>4
  <2>6. \A k \in Managers : mgr'[k].exhausted = mgr[k].exhausted /\ (mgr[k].stop => mgr'[k].stop)
    BY <2>1, <2>3
  <2> QED BY <2>1, <2>2, <2>3, <2>5, <2>6
<1>5. CASE ~overtaken
  <2>1. slot' = m /\ signalled' = signalled
    BY <1>5 DEF RelaunchInstalls, Signal
  <2>2. /\ \A k \in Managers : /\ mgr'[k].exhausted = mgr[k].exhausted /\ (mgr[k].stop => mgr'[k].stop)
                               /\ mgr'[k].sender = mgr[k].sender
        /\ \A k \in Managers : k # slot => mgr'[k] = mgr[k]
    <3>1. CASE slot = 0
      <4>1. mgr' = mgr
        BY <1>5, <3>1 DEF RelaunchInstalls
      <4> QED BY <4>1
    <3>2. CASE slot # 0
      <4> DEFINE R == [mgr[slot] EXCEPT !.stop = TRUE, !.sender = mgr[slot].sender]
      <4>1. R.exhausted = mgr[slot].exhausted /\ R.sender = mgr[slot].sender /\ R.stop = TRUE
        BY <1>1, <3>2 DEF ManagerRecords
      <4>2. mgr' = [mgr EXCEPT ![slot] = R]
        BY <1>5, <3>2 DEF RelaunchInstalls
      <4> HIDE DEF R
      <4>3. mgr'[slot] = R /\ \A k \in Managers \ {slot} : mgr'[k] = mgr[k]
        BY <1>1, <3>2, <4>2
      <4> QED BY <4>1, <4>3
    <3> QED BY <3>1, <3>2
  <2>3. ASSUME NEW n \in Managers, Newest(n) PROVE slot # n
    <3>1. CASE slot = n
      <4>1. n \notin relaunches /\ m # n /\ m <= n /\ Born(n)
        BY <1>1, <1>3, <2>3, <3>1
      <4>2. m < n
        BY <4>1, Numbered
      <4>3. mgr[m].gen < mgr[n].gen
        BY <1>2, <4>1, <4>2
      <4> QED BY <1>1, <1>5, <3>1, <4>3
    <3> QED BY <3>1
  <2>4. \A n \in Managers : Newest(n) => mgr'[n].stop = mgr[n].stop /\ (n \in relaunches' <=> slot' # n)
    BY <1>1, <1>3, <2>1, <2>2, <2>3
  <2> QED BY <2>1, <2>2, <2>4
<1> QED BY <1>4, <1>5

LEMMA RelaunchInstallsFollows ==
    ASSUME FollowInv, BridgeInv', NEW m \in Managers, RelaunchInstalls(m)
    PROVE  FollowInv'
<1>1. restart = "no" /\ UNCHANGED <<restart, socket, events, store, client, starts, lost>>
  BY DEF RelaunchInstalls
<1>2. \A k \in Managers : mgr'[k].loop = mgr[k].loop /\ mgr'[k].gen = mgr[k].gen
  BY InstalledManagers, Known
<1>3. /\ \A k \in Managers : mgr'[k].exhausted = mgr[k].exhausted /\ (mgr[k].stop => mgr'[k].stop)
      /\ \A n \in Managers : Newest(n) => mgr'[n].stop = mgr[n].stop /\ (n \in relaunches' <=> slot' # n)
  BY InstalledFlags
<1>4. \A n \in Managers : Newest(n)' <=> Newest(n)
  BY <1>2 DEF Newest, Born
<1> USE DEF FollowInv
<1>5. ClientTyped'
  BY <1>1 DEF ClientTyped
<1>6. NewestServes'
  BY <1>3, <1>4 DEF NewestServes
<1>7. LoopsAgree'
  BY <1>2, <1>3 DEF LoopsAgree
<1>8. PathsBehind'
  <2>1. store.m \in Managers \union {0} /\ \A s \in Sockets : socket[s].step # "none" => socket[s].m \in Managers
    BY Known DEF BridgeTyped, EventsTyped
  <2> QED BY <1>1, <1>2, <1>4, <2>1 DEF PathsBehind
<1>9. SendersAlive'
  <2>1. CASE signalled' = signalled /\ \A k \in Managers : mgr'[k].sender = mgr[k].sender
    BY <1>1, <2>1, Known, SendersStay
  <2>2. CASE /\ Signal({mgr[m].sender}) /\ mgr'[m].sender = 0
             /\ \A k \in Managers \ {m} : mgr'[k].sender = mgr[k].sender
    BY <1>1, <2>2, Known, SendersDropped
  <2> QED BY <2>1, <2>2, InstalledFlags
<1>10. \A n \in Managers : Coming(n)' <=> Coming(n)
  BY <1>1, <1>2 DEF Coming
<1>11. \A n \in Managers : Silent(n)' <=> Silent(n)
  BY <1>1, <1>2, <1>3 DEF Silent
<1>12. Told'
  BY <1>1, <1>2, <1>4, <1>10 DEF Told, Heard
<1>13. Offered'
  <2>1. ASSUME NEW i \in 1..Len(events), ~events[i].url, events[i].gen = mgr'[events[i].m].gen PROVE Silent(events[i].m)'
    <3>1. PICK k \in Managers : k = events[i].m
      BY EventTyped, Known
    <3>2. Silent(k)
      BY <1>2, <2>1, <3>1 DEF Offered
    <3>3. Silent(k)'
      BY <1>11, <3>2
    <3> QED BY <1>1, <3>1, <3>3
  <2>2. ASSUME NEW n \in Managers, Newest(n)', store.m = 0, store.gen = mgr'[n].gen PROVE Silent(n)'
    <3>1. Silent(n)
      BY <1>2, <1>4, <2>2 DEF Offered
    <3> QED BY <1>11, <3>1
  <2> QED BY <1>1, <2>1, <2>2 DEF Offered
<1>14. StartsQueued' /\ ClientConnected'
  BY <1>1 DEF StartsQueued, ClientConnected
<1>15. EndsExplained'
  <2>1. \A s \in Sockets : socket[s].step \in {"bumped", "cleared", "gone"} => socket[s].m \in Managers
    BY Known
  <2> QED BY <1>1, <1>2, <1>3, <2>1 DEF EndsExplained
<1> QED BY <1>5, <1>6, <1>7, <1>8, <1>9, <1>12, <1>13, <1>14, <1>15

\* What a relaunch does to the flags.
LEMMA BegunFlags ==
    ASSUME FollowInv, RelaunchBegins, NEW k \in Managers, \A m \in Managers : Born(m) <=> m <= k
    PROVE  /\ ~mgr'[k + 1].stop /\ ~mgr'[k + 1].exhausted
           /\ \A n \in Managers \ {k + 1} : mgr'[n].exhausted = mgr[n].exhausted /\ (mgr[n].stop => mgr'[n].stop)
           /\ \/ /\ slot \in Managers /\ Signal({mgr[slot].sender}) /\ mgr'[slot].sender = 0
                 /\ \A n \in Managers \ {slot} : mgr'[n].sender = mgr[n].sender
              \/ signalled' = signalled /\ \A n \in Managers : mgr'[n].sender = mgr[n].sender
<1>1. /\ k + 1 \in Managers /\ ~Born(k + 1)
      /\ (CHOOSE n \in Unborn : \A j \in Unborn : n <= j) = k + 1
  BY Known, NextManager DEF RelaunchBegins
<1>2. /\ slot \in Managers \union {0} /\ (slot # 0 => Born(slot)) /\ mgr[k + 1].sender = 0
      /\ mgr \in [Managers -> ManagerRecords] /\ 0 \notin Managers
  BY <1>1, Known, Numbered DEF BridgeInv, ManagersInOrder
<1>3. k + 1 # slot
  BY <1>1, <1>2
<1> DEFINE New == [Fresh EXCEPT !.gen = Reserve, !.loop = "starting"]
<1> DEFINE Old == [mgr[slot] EXCEPT !.sender = 0, !.stop = TRUE, !.running = FALSE]
<1>4. ~New.stop /\ ~New.exhausted /\ New.sender = 0
  BY DEF Fresh
<1>5. slot # 0 => Old.sender = 0 /\ Old.stop = TRUE /\ Old.exhausted = mgr[slot].exhausted
  BY <1>2 DEF ManagerRecords
<1>6. /\ mgr' = IF slot = 0 THEN [mgr EXCEPT ![k + 1] = New] ELSE [[mgr EXCEPT ![k + 1] = New] EXCEPT ![slot] = Old]
      /\ Signal(IF slot = 0 THEN {} ELSE {mgr[slot].sender})
  BY <1>1 DEF RelaunchBegins
<1> HIDE DEF New, Old
<1>7. CASE slot = 0
  <2>1. mgr'[k + 1] = New /\ \A n \in Managers \ {k + 1} : mgr'[n] = mgr[n]
    BY <1>1, <1>2, <1>6, <1>7
  <2>2. signalled' = signalled
    BY <1>6, <1>7 DEF Signal
  <2>3. \A n \in Managers : mgr'[n].sender = mgr[n].sender
    BY <1>2, <1>4, <2>1
  <2>4. ~mgr'[k + 1].stop /\ ~mgr'[k + 1].exhausted
    BY <1>4, <2>1
  <2> QED BY <2>1, <2>2, <2>3, <2>4
<1>8. CASE slot # 0
  <2>1. /\ mgr'[k + 1] = New /\ mgr'[slot] = Old /\ \A n \in Managers \ {k + 1, slot} : mgr'[n] = mgr[n]
        /\ slot \in Managers
    BY <1>1, <1>2, <1>3, <1>6, <1>8
  <2>2. Signal({mgr[slot].sender})
    BY <1>6, <1>8
  <2>3. ~mgr'[k + 1].stop /\ ~mgr'[k + 1].exhausted /\ mgr'[slot].sender = 0
    BY <1>4, <1>5, <1>8, <2>1
  <2>4. \A n \in Managers \ {slot} : mgr'[n].sender = mgr[n].sender
    BY <1>2, <1>4, <2>1
  <2>5. \A n \in Managers \ {k + 1} : mgr'[n].exhausted = mgr[n].exhausted /\ (mgr[n].stop => mgr'[n].stop)
    BY <1>5, <1>8, <2>1
  <2> QED BY <2>1, <2>2, <2>3, <2>4, <2>5
<1> QED BY <1>7, <1>8

\* The next manager is the newest, and its generation is above all that the
\* webview has heard of.
LEMMA RelaunchBeginsFollows ==
    ASSUME FollowInv, BridgeInv', RelaunchBegins
    PROVE  FollowInv'
<1>1. restart = "no" /\ slot' = 0 /\ UNCHANGED <<restart, socket, events, store, client, starts, lost>>
  BY DEF RelaunchBegins
<1>2. PICK k \in Managers : \A m \in Managers : Born(m) <=> m <= k
  BY Known DEF BridgeInv, ManagersInOrder
<1>3. /\ k + 1 \in Managers /\ ~Born(k + 1)
      /\ mgr'[k + 1].gen = Reserve /\ mgr'[k + 1].loop = "starting"
      /\ \A n \in Managers \ {k + 1} : mgr'[n].loop = mgr[n].loop /\ mgr'[n].gen = mgr[n].gen
      /\ Reserve \in Nat /\ Reserve >= reserved /\ relaunches' = relaunches \union {k + 1}
  BY <1>2, BegunManagers, Known
<1>4. /\ ~mgr'[k + 1].stop /\ ~mgr'[k + 1].exhausted
      /\ \A n \in Managers \ {k + 1} : mgr'[n].exhausted = mgr[n].exhausted /\ (mgr[n].stop => mgr'[n].stop)
  BY <1>2, BegunFlags
<1>5. \A n \in Managers : Born(n) => n # k + 1
  BY <1>3
<1>6. Newest(k) /\ \A n \in Managers : n \in Nat
  BY <1>2, Numbered DEF Newest
<1>7. ASSUME NEW n \in Managers, Newest(n)' PROVE n = k + 1
  <2>1. Born(n)' /\ n <= n /\ (k + 1 <= n)
    <3>1. Born(k + 1)'
      BY <1>3 DEF Born
    <3>2. n <= n
      BY <1>6
    <3> QED BY <1>3, <1>7, <3>1, <3>2 DEF Newest
  <2>2. CASE n # k + 1
    <3>1. Born(n)
      BY <1>3, <2>1, <2>2 DEF Born
    <3> QED BY <1>2, <1>6, <2>1, <3>1
  <2> QED BY <2>2
<1>8. store.gen < Reserve /\ store.gen \in Nat
  <2>1. store.gen <= mgr[k].gen /\ store.gen \in Nat
    BY <1>6, Known DEF FollowInv, PathsBehind, BridgeTyped, EventsTyped
  <2>2. mgr[k].gen + Budget < reserved /\ Budget \in Nat /\ mgr[k].gen \in Nat /\ reserved \in Nat
    BY <1>6, BudgetNat, Known, <1>2 DEF BridgeInv, GensApart, ManagerRecords, ManagersTyped
  <2> QED BY <1>3, <2>1, <2>2
<1> USE DEF FollowInv
<1>9. ClientTyped'
  BY <1>1 DEF ClientTyped
<1>10. NewestServes'
  <2>1. k + 1 # 0
    BY <1>6
  <2> QED BY <1>1, <1>3, <1>4, <1>7, <2>1 DEF NewestServes
<1>11. LoopsAgree'
  BY <1>3, <1>4 DEF LoopsAgree
<1>12. PathsBehind'
  <2>1. store.m # 0 => store.gen <= mgr'[store.m].gen
    <3>1. store.m # 0 => store.m \in Managers /\ Born(store.m) /\ store.gen <= mgr[store.m].gen
      BY Known DEF BridgeInv, SocketsInOrder, BridgeTyped, EventsTyped, PathsBehind
    <3> QED BY <1>3, <1>5, <3>1
  <2>2. \A n \in Managers : Newest(n)' => store.gen <= mgr'[n].gen
    BY <1>3, <1>7, <1>8
  <2>3. ASSUME NEW s \in Sockets, socket[s].step # "none" PROVE socket[s].gen <= mgr'[socket[s].m].gen
    <3>1. socket[s].m \in Managers /\ Born(socket[s].m) /\ socket[s].gen <= mgr[socket[s].m].gen
      BY <2>3 DEF BridgeInv, SocketsInOrder, PathsBehind
    <3> QED BY <1>3, <1>5, <3>1
  <2> QED BY <1>1, <2>1, <2>2, <2>3 DEF PathsBehind
<1>13. SendersAlive'
  <2>1. CASE signalled' = signalled /\ \A n \in Managers : mgr'[n].sender = mgr[n].sender
    BY <1>1, <2>1, Known, SendersStay
  <2>2. CASE /\ slot \in Managers /\ Signal({mgr[slot].sender}) /\ mgr'[slot].sender = 0
             /\ \A n \in Managers \ {slot} : mgr'[n].sender = mgr[n].sender
    BY <1>1, <2>2, Known, SendersDropped
  <2> QED BY <1>2, <2>1, <2>2, BegunFlags
<1>14. Told'
  BY <1>3, <1>7 DEF Told, Heard, Coming
<1>15. ASSUME NEW n \in Managers, n # k + 1, Silent(n) PROVE Silent(n)'
  BY <1>1, <1>3, <1>4, <1>15 DEF Silent
<1>16. Offered'
  <2>1. ASSUME NEW i \in 1..Len(events), ~events[i].url, events[i].gen = mgr'[events[i].m].gen PROVE Silent(events[i].m)'
    <3>1. PICK n \in Managers : n = events[i].m
      BY EventTyped, Known
    <3>2. Born(n)
      BY <3>1, Known DEF BridgeInv, EventsBehind
    <3>3. n # k + 1 /\ mgr'[n].gen = mgr[n].gen
      BY <1>3, <1>5, <3>2
    <3>4. Silent(n)
      BY <2>1, <3>1, <3>3 DEF Offered
    <3>5. Silent(n)'
      BY <1>15, <3>3, <3>4
    <3> QED BY <1>1, <3>1, <3>5
  <2>2. \A n \in Managers : Newest(n)' => store.gen # mgr'[n].gen
    BY <1>3, <1>7, <1>8
  <2> QED BY <1>1, <2>1, <2>2 DEF Offered
<1>17. StartsQueued' /\ ClientConnected'
  BY <1>1 DEF StartsQueued, ClientConnected
<1>18. EndsExplained'
  <2>1. \A s \in Sockets : socket[s].step \in {"bumped", "cleared", "gone"} => socket[s].m \in Managers /\ Born(socket[s].m)
    BY Known DEF BridgeInv, SocketsInOrder
  <2> QED BY <1>1, <1>3, <1>4, <1>5, <2>1 DEF EndsExplained
<1> QED BY <1>9, <1>10, <1>11, <1>12, <1>13, <1>14, <1>16, <1>17, <1>18

-----------------------------------------------------------------------------
(* The webview and its client.                                              *)

\* Managers that are made have generations in the order in which they were made.
LEMMA GensOrdered ==
    ASSUME FollowInv, NEW n \in Managers, Newest(n), NEW k \in Managers, Born(k)
    PROVE  mgr[k].gen \in Nat /\ mgr[n].gen \in Nat /\ (k # n => mgr[k].gen < mgr[n].gen)
<1>1. mgr[k].gen \in Nat /\ mgr[n].gen \in Nat
  BY Known DEF ManagerRecords
<1>2. k <= n /\ Born(n)
  <2>1. n <= n
    BY Numbered
  <2> QED BY <2>1 DEF Newest
<1>3. CASE k # n
  <2>1. k < n
    BY <1>2, <1>3, Numbered
  <2>2. mgr[k].gen + Budget < mgr[n].gen /\ Budget \in Nat
    BY <1>2, <2>1, BudgetNat, Known DEF BridgeInv, GensApart
  <2> QED BY <1>1, <2>2
<1> QED BY <1>1, <1>3

\* The webview takes an event, or drops it for a gate that it has passed.
LEMMA ReceiveFollows ==
    ASSUME FollowInv, BridgeInv', Receive
    PROVE  FollowInv'
<1> DEFINE e == Head(events)
<1>1. /\ events # <<>> /\ events' = Tail(events)
      /\ UNCHANGED <<mgr, slot, reserved, restart, relaunches, socket, signalled, client>>
  BY DEF Receive
<1>2. /\ Len(events') = Len(events) - 1 /\ Len(events) \in Nat \ {0}
      /\ \A i \in 1..Len(events') : events'[i] = events[i + 1] /\ i + 1 \in 1..Len(events)
      /\ e = events[1] /\ 1 \in 1..Len(events)
  <2>1. events \in Seq([m : Managers, gen : Nat, kind : Kinds, url : BOOLEAN])
    BY Known DEF BridgeTyped, EventsTyped
  <2> QED BY <1>1, <2>1, HeadTailProperties
<1> PICK k \in Managers : k = e.m
  BY <1>2, EventTyped, Known
<1>3. e.gen \in Nat /\ Born(k) /\ e.gen <= mgr[k].gen /\ e.url \in BOOLEAN
  BY <1>2, EventTyped, Known DEF BridgeInv, EventsBehind
<1>4. ~e.url /\ e.gen = mgr[k].gen => Silent(k)
  BY <1>2 DEF FollowInv, Offered
<1>5. \/ /\ e.gen < store.gate /\ lost' = (IF e.gen > store.gen THEN lost \union {<<k, e.gen>>} ELSE lost)
         /\ UNCHANGED <<store, starts>>
      \/ /\ e.gen >= store.gate /\ lost' = lost
         /\ store' = [m |-> IF e.url THEN k ELSE 0, gen |-> e.gen, kind |-> e.kind, gate |-> e.gen]
         /\ starts' = IF e.url
                      THEN (IF store.m # k \/ store.gen # e.gen THEN 1 ELSE starts)
                           + (IF client.ready /\ e.gen > store.gen THEN 1 ELSE 0)
                      ELSE 0
  <2>1. store.gate \in Nat
    BY DEF FollowInv, ClientTyped
  <2> QED BY <1>3, <2>1 DEF Receive
<1> HIDE DEF e
<1>6. \A n \in Managers : mgr[n].gen \in Nat
  BY Known DEF ManagerRecords
<1>7. ASSUME NEW n \in Managers, Newest(n)
      PROVE  store.gen <= mgr[n].gen /\ e.gen <= mgr[n].gen /\ (e.gen = mgr[n].gen => k = n)
  <2>1. store.gen <= mgr[n].gen
    BY <1>7 DEF FollowInv, PathsBehind
  <2>2. k # n => mgr[k].gen < mgr[n].gen
    BY <1>3, <1>7, GensOrdered
  <2> QED BY <1>3, <1>6, <2>1, <2>2
<1>8. /\ lost \subseteq lost' /\ store.gen \in Nat /\ store.gate \in Nat /\ store.gen <= store.gate
      /\ store.m \in Managers \union {0} /\ starts \in Nat /\ 0 \notin Managers
  BY <1>5, Known, Numbered DEF FollowInv, ClientTyped, BridgeTyped, EventsTyped
<1>9. \/ store'.m = store.m /\ store'.gen = store.gen /\ store'.gate = store.gate /\ starts' = starts
      \/ /\ store'.m = (IF e.url THEN k ELSE 0) /\ store'.gen = e.gen /\ store'.gate = e.gen /\ e.gen >= store.gate
         /\ e.url => starts' = (IF store.m # k \/ store.gen # e.gen THEN 1 ELSE starts)
                               + (IF client.ready /\ e.gen > store.gen THEN 1 ELSE 0)
  BY <1>5
<1>10. \A n \in Managers : (Newest(n)' <=> Newest(n)) /\ (Coming(n)' <=> Coming(n)) /\ (Silent(n) => Silent(n)')
  BY <1>1, <1>8 DEF Newest, Born, Coming, Silent
<1> USE DEF FollowInv
<1>11. ClientTyped'
  BY <1>1, <1>3, <1>8, <1>9 DEF ClientTyped
<1>12. NewestServes'
  BY <1>1, <1>10 DEF NewestServes
<1>13. LoopsAgree' /\ ClientConnected'
  BY <1>1 DEF LoopsAgree, ClientConnected
<1>14. SendersAlive'
  BY <1>1, Known, SendersStay
<1>15. PathsBehind'
  <2>1. store'.m # 0 => store'.gen <= mgr[store'.m].gen
    BY <1>3, <1>9 DEF PathsBehind
  <2>2. ASSUME NEW n \in Managers, Newest(n) PROVE store'.gen <= mgr[n].gen
    BY <1>7, <1>9, <2>2
  <2> QED BY <1>1, <1>10, <2>1, <2>2 DEF PathsBehind
<1>16. Told'
  <2> SUFFICES ASSUME NEW n \in Managers, Newest(n), ~(Heard(n)') PROVE store'.gen = mgr[n].gen
    BY <1>1, <1>10 DEF Told
  <2>1. store.gen <= mgr[n].gen /\ e.gen <= mgr[n].gen /\ mgr[n].gen \in Nat
    BY <1>6, <1>7
  <2>2. <<n, mgr[n].gen>> \notin lost' /\ ~Coming(n)
    BY <1>1, <1>10 DEF Heard
  <2>3. store.gen = mgr[n].gen \/ (k = n /\ e.gen = mgr[n].gen)
    <3>1. ASSUME NEW i \in 1..Len(events), events[i].m = n, events[i].gen = mgr[n].gen, i # 1 PROVE FALSE
      <4>1. i - 1 \in 1..Len(events') /\ events'[i - 1] = events[i]
        BY <1>2, <3>1
      <4> QED BY <1>1, <3>1, <4>1 DEF Heard
    <3>2. store.gen = mgr[n].gen \/ \E i \in 1..Len(events) : events[i].m = n /\ events[i].gen = mgr[n].gen
      BY <1>8, <2>2 DEF Told, Heard
    <3> QED BY <1>2, <3>1, <3>2
  <2>4. CASE e.gen < store.gate
    <3>1. UNCHANGED store /\ (e.gen > store.gen => <<k, e.gen>> \in lost')
      BY <1>3, <1>5, <1>8, <2>4
    <3> QED BY <1>3, <1>8, <2>1, <2>2, <2>3, <3>1
  <2>5. CASE e.gen >= store.gate
    <3>1. store'.gen = e.gen
      BY <1>3, <1>5, <1>8, <2>5
    <3> QED BY <1>3, <1>8, <2>1, <2>3, <2>5, <3>1
  <2> QED BY <1>3, <1>8, <2>4, <2>5
<1>17. Offered'
  <2>1. ASSUME NEW i \in 1..Len(events'), ~events'[i].url, events'[i].gen = mgr'[events'[i].m].gen
        PROVE  Silent(events[i].m)'
    <3>1. i + 1 \in 1..Len(events) /\ events'[i] = events[i + 1]
      BY <1>2
    <3>2. PICK n \in Managers : n = events[i + 1].m
      BY <3>1, EventTyped, Known
    <3>3. Silent(n)
      BY <1>1, <2>1, <3>1, <3>2 DEF Offered
    <3>4. Silent(n)'
      BY <1>10, <3>3
    <3> QED BY <3>1, <3>2, <3>4
  <2>2. ASSUME NEW n \in Managers, Newest(n), store'.m = 0, store'.gen = mgr[n].gen PROVE Silent(n)'
    <3>1. CASE store'.m = store.m /\ store'.gen = store.gen
      <4>1. Silent(n)
        BY <2>2, <3>1 DEF Offered
      <4> QED BY <1>10, <4>1
    <3>2. CASE store'.m = (IF e.url THEN k ELSE 0) /\ store'.gen = e.gen
      <4>1. ~e.url /\ e.gen = mgr[n].gen /\ k = n
        BY <1>7, <1>8, <2>2, <3>2
      <4>2. Silent(n)
        BY <1>4, <4>1
      <4> QED BY <1>10, <4>2
    <3> QED BY <1>9, <3>1, <3>2
  <2> QED BY <1>1, <1>10, <2>1, <2>2 DEF Offered
<1>18. StartsQueued'
  <2>1. CASE store'.m = store.m /\ store'.gen = store.gen /\ starts' = starts
    BY <1>1, <2>1 DEF StartsQueued
  <2>2. CASE /\ store'.m = (IF e.url THEN k ELSE 0) /\ store'.gen = e.gen
             /\ e.url => starts' = (IF store.m # k \/ store.gen # e.gen THEN 1 ELSE starts)
                                   + (IF client.ready /\ e.gen > store.gen THEN 1 ELSE 0)
    <3>1. CASE ~e.url
      BY <2>2, <3>1 DEF StartsQueued
    <3>2. CASE e.url /\ (store.m # k \/ store.gen # e.gen)
      BY <1>8, <2>2, <3>2 DEF StartsQueued
    <3>3. CASE e.url /\ store.m = k /\ store.gen = e.gen
      <4>1. starts' >= starts /\ starts' \in Nat /\ store'.m = store.m /\ store'.gen = store.gen /\ store.m # 0
        BY <1>8, <2>2, <3>3
      <4> QED BY <1>1, <1>8, <4>1 DEF StartsQueued
    <3> QED BY <3>1, <3>2, <3>3
  <2> QED BY <1>9, <2>1, <2>2
<1>19. EndsExplained'
  BY <1>1, <1>8 DEF EndsExplained
<1> QED BY <1>11, <1>12, <1>13, <1>14, <1>15, <1>16, <1>17, <1>18, <1>19

\* What the client does by itself.
LEMMA ClientFollowsAlone ==
    ASSUME FollowInv, BridgeInv', ClientTyped', StartsQueued', ClientConnected', LoopsAgree, EndsExplained',
           UNCHANGED <<mgr, slot, restart, relaunches, signalled, events, lost>>, store'.m = store.m, store'.gen = store.gen,
           \A s \in Sockets :
               \/ socket'[s] = socket[s]
               \/ /\ socket[s].step = "none" /\ socket'[s].step \in {"gone", "dialled"}
                  /\ socket'[s].gen = store.gen /\ socket'[s].m = store.m /\ store.m # 0
    PROVE  FollowInv'
<1> USE DEF FollowInv
<1>1. NewestServes' /\ LoopsAgree'
  BY DEF NewestServes, LoopsAgree, Newest, Born
<1>2. PathsBehind'
  BY DEF PathsBehind, Newest, Born
<1>3. SendersAlive'
  <2>1. ASSUME NEW m \in Managers, mgr[m].sender # 0
        PROVE  /\ socket'[mgr[m].sender].step \in Held /\ socket'[mgr[m].sender].m = m
               /\ mgr[m].sender \notin signalled
    <3>1. mgr[m].sender \in Sockets
      BY <2>1, Known DEF ManagerRecords
    <3>2. socket[mgr[m].sender].step \in Held /\ socket[mgr[m].sender].m = m /\ mgr[m].sender \notin signalled
      BY <2>1 DEF SendersAlive, Held
    <3> QED BY <3>1, <3>2 DEF Held
  <2>2. ASSUME NEW s \in signalled PROVE socket'[s].step \notin Early
    <3>1. s \in Sockets /\ socket[s].step \notin Early
      BY <2>2, Known DEF SendersAlive, Early, BridgeTyped, SocketsTyped
    <3> QED BY <3>1 DEF Early
  <2> QED BY <2>1, <2>2 DEF SendersAlive, Held, Early
<1>4. \A n \in Managers : Coming(n)' <=> Coming(n)
  BY DEF Coming
<1>5. Told'
  BY <1>4 DEF Told, Heard, Newest, Born
<1>6. Offered'
  BY DEF Offered, Silent, Newest, Born
<1> QED BY <1>1, <1>2, <1>3, <1>5, <1>6

LEMMA StartClientFollows ==
    ASSUME FollowInv, BridgeInv', StartClient
    PROVE  FollowInv'
<1>1. /\ starts > 0 /\ starts' = starts - 1 /\ client.state # "dialling"
      /\ UNCHANGED <<mgr, slot, restart, relaunches, signalled, events, lost>>
  BY DEF StartClient
<1>2. /\ store = [m |-> store.m, gen |-> store.gen, kind |-> store.kind, gate |-> store.gate]
      /\ store.m \in Managers /\ store.m # 0 /\ store.gen \in Nat /\ store.gate \in Nat /\ store.gen <= store.gate
      /\ client \in [state : ClientStates, socket : Sockets \union {0}, m : Managers \union {0}, gen : Nat,
                     generation : Nat, ready : BOOLEAN]
  BY <1>1, Known, Numbered DEF FollowInv, ClientTyped, BridgeInv, SocketsInOrder, BridgeTyped, EventsTyped
<1>3. CASE UNCHANGED <<client, socket, store>> /\ client.state = "ready" /\ client.m = store.m /\ client.gen = store.gen
  <2>1. ClientTyped' /\ ClientConnected'
    BY <1>3 DEF FollowInv, ClientTyped, ClientConnected
  <2>2. EndsExplained'
    BY <1>1, <1>3 DEF FollowInv, EndsExplained
  <2>3. StartsQueued'
    BY <1>3 DEF StartsQueued
  <2> QED BY <1>1, <1>3, <2>1, <2>2, <2>3, ClientFollowsAlone DEF FollowInv
<1>4. CASE ~(client.state = "ready" /\ client.m = store.m /\ client.gen = store.gen)
  <2>1. PICK j \in Nat : \A s \in Sockets : socket[s].step # "none" <=> s <= j
    BY Known DEF BridgeInv, SocketsInOrder
  <2>2. Unused # {}
    BY <1>4 DEF StartClient
  <2>3. PICK s \in Sockets : socket[s].step = "none" /\ (CHOOSE n \in Unused : \A i \in Unused : n <= i) = s
    BY <2>1, <2>2, Known, NextSocket
  <2> DEFINE step == IF mgr[store.m].loop = "stopped" THEN "gone" ELSE "dialled"
             R == [step |-> step, m |-> store.m, gen |-> store.gen]
             gate == Largest({store.gate, client.generation + 1})
  <2>4. /\ socket' = [socket EXCEPT ![s] = R]
        /\ client' = [client EXCEPT !.state = "dialling", !.socket = s, !.m = store.m,
                                    !.gen = store.gen, !.generation = @ + 1]
        /\ store' = [store EXCEPT !.gate = gate]
    BY <1>4, <2>3 DEF StartClient
  <2>5. gate \in Nat /\ store.gen <= gate
    <3>1. client.generation + 1 \in Nat
      BY <1>2
    <3>2. gate \in {store.gate, client.generation + 1} /\ gate >= store.gate
      BY <1>2, <3>1, LargerOfTwo
    <3> HIDE DEF gate
    <3> QED BY <1>2, <3>1, <3>2
  <2> HIDE DEF gate
  <2>6. store'.m = store.m /\ store'.gen = store.gen /\ store'.gate = gate
    BY <1>2, <2>4
  <2>7. /\ client'.state = "dialling" /\ client'.socket = s /\ client'.m = store.m /\ client'.gen = store.gen
        /\ client' \in [state : ClientStates, socket : Sockets \union {0}, m : Managers \union {0}, gen : Nat,
                        generation : Nat, ready : BOOLEAN]
    <3>1. client.generation + 1 \in Nat /\ "dialling" \in ClientStates
      BY <1>2 DEF ClientStates
    <3> DEFINE next == client.generation + 1
    <3>2. client' = [client EXCEPT !.state = "dialling", !.socket = s, !.m = store.m, !.gen = store.gen,
                                   !.generation = next]
      BY <2>4
    <3>3. next \in Nat
      BY <3>1
    <3> HIDE DEF next
    <3> QED BY <1>2, <3>1, <3>2, <3>3
  <2>8. R.step = step /\ R.m = store.m /\ R.gen = store.gen
    OBVIOUS
  <2> HIDE DEF R
  <2>9. socket'[s] = R /\ \A q \in Sockets \ {s} : socket'[q] = socket[q]
    BY <2>4, Known DEF BridgeTyped, SocketsTyped
  <2>10. ClientTyped'
    BY <2>5, <2>6, <2>7 DEF ClientTyped
  <2>11. StartsQueued'
    BY <2>6, <2>7 DEF StartsQueued
  <2>12. ClientConnected'
    BY <2>7, <2>8, <2>9 DEF ClientConnected
  <2>13. EndsExplained'
    <3>1. ASSUME NEW q \in Sockets, socket'[q].step \in {"bumped", "cleared", "gone"}
          PROVE  \/ socket'[q].gen < mgr[socket'[q].m].gen \/ mgr[socket'[q].m].stop
                 \/ <<socket'[q].m, socket'[q].gen>> \in lost
      <4>1. CASE q = s
        <5>1. mgr[store.m].loop = "stopped"
          BY <2>8, <2>9, <3>1, <4>1
        <5>2. mgr[store.m].stop
          BY <1>2, <5>1 DEF FollowInv, LoopsAgree
        <5> QED BY <2>8, <2>9, <4>1, <5>2
      <4>2. CASE q # s
        BY <2>9, <3>1, <4>2 DEF FollowInv, EndsExplained
      <4> QED BY <4>1, <4>2
    <3> QED BY <1>1, <3>1 DEF EndsExplained
  <2>14. \A q \in Sockets :
             \/ socket'[q] = socket[q]
             \/ /\ socket[q].step = "none" /\ socket'[q].step \in {"gone", "dialled"}
                /\ socket'[q].gen = store.gen /\ socket'[q].m = store.m /\ store.m # 0
    BY <1>2, <2>3, <2>8, <2>9
  <2> HIDE DEF step
  <2> QED BY <1>1, <2>6, <2>10, <2>11, <2>12, <2>13, <2>14, ClientFollowsAlone DEF FollowInv
<1> QED BY <1>3, <1>4 DEF StartClient

LEMMA ClientReadyFollows ==
    ASSUME FollowInv, BridgeInv', ClientReady
    PROVE  FollowInv'
<1>1. /\ client.state = "dialling" /\ client' = [client EXCEPT !.state = "ready", !.ready = TRUE]
      /\ UNCHANGED <<mgr, slot, restart, relaunches, socket, signalled, events, store, starts, lost>>
  BY DEF ClientReady
<1>2. ClientTyped' /\ client'.state = "ready" /\ client'.socket = client.socket /\ client'.m = client.m /\ client'.gen = client.gen
  BY <1>1 DEF FollowInv, ClientTyped, ClientStates
<1>3. StartsQueued' /\ ClientConnected'
  BY <1>1, <1>2 DEF FollowInv, StartsQueued, ClientConnected
<1>4. EndsExplained'
  BY <1>1 DEF FollowInv, EndsExplained
<1> QED BY <1>1, <1>2, <1>3, <1>4, ClientFollowsAlone DEF FollowInv

LEMMA ClientFailsFollows ==
    ASSUME FollowInv, BridgeInv', ClientFails
    PROVE  FollowInv'
<1>1. /\ client.state \in {"dialling", "ready"} /\ client' = [client EXCEPT !.state = "failed", !.socket = 0]
      /\ socket[client.socket].step \in Ending
      /\ UNCHANGED <<mgr, slot, restart, relaunches, socket, signalled, events, store, starts, lost>>
  BY DEF ClientFails, Ending
<1>2. ClientTyped' /\ client'.state = "failed" /\ client'.m = client.m /\ client'.gen = client.gen
  BY <1>1 DEF FollowInv, ClientTyped, ClientStates
<1>3. StartsQueued' /\ ClientConnected'
  BY <1>1, <1>2 DEF FollowInv, StartsQueued, ClientConnected
<1>4. EndsExplained'
  BY <1>1 DEF FollowInv, EndsExplained
<1> QED BY <1>1, <1>2, <1>3, <1>4, ClientFollowsAlone DEF FollowInv

-----------------------------------------------------------------------------
(* The second theorem.                                                      *)

\* The webview starts with what the first manager has to offer.
LEMMA FollowStarts == LspInit => FollowInv
<1> SUFFICES ASSUME LspInit PROVE FollowInv
  OBVIOUS
<1>1. BridgeInv
  BY BridgeStarts
<1>2. PICK ok \in BOOLEAN :
          /\ mgr = [m \in Managers |-> IF m = 1 THEN Started(Fresh, 1, ok) ELSE Fresh]
          /\ store = [m |-> IF ok THEN 1 ELSE 0, gen |-> 1, gate |-> 1,
                      kind |-> IF ok THEN "awaitingClient" ELSE "unavailable"]
          /\ starts = IF ok THEN 1 ELSE 0
  BY DEF LspInit
<1>3. /\ slot = 1 /\ restart = "no" /\ relaunches = {}
      /\ socket = [s \in Sockets |-> [step |-> "none", m |-> 0, gen |-> 0]] /\ signalled = {} /\ events = <<>>
      /\ client = [state |-> "off", socket |-> 0, m |-> 0, gen |-> 0, generation |-> 0, ready |-> FALSE]
  BY DEF LspInit
<1>4. 1 \in Managers /\ 0 \notin Managers /\ Managers \subseteq Nat
  BY LspAssumption, Numbered
<1>5. /\ mgr[1].loop = (IF ok THEN "accept" ELSE "degraded") /\ mgr[1].gen = 1
      /\ \A m \in Managers : /\ ~mgr[m].stop /\ ~mgr[m].exhausted /\ mgr[m].sender = 0
                             /\ mgr[m].loop \in {"accept", "degraded", "unborn"}
                             /\ m # 1 => mgr[m].loop = "unborn"
  <2>1. CASE ok = TRUE
    BY <1>2, <1>4, <2>1 DEF Started, Fresh
  <2>2. CASE ok = FALSE
    BY <1>2, <1>4, <2>2 DEF Started, Fresh
  <2> QED BY <2>1, <2>2
<1>6. ASSUME NEW n \in Managers, Newest(n) PROVE n = 1
  <2>1. n <= n
    BY <1>4
  <2> QED BY <1>5, <1>6, <2>1 DEF Newest, Born
<1>7. store.gen = 1 /\ store.gate = 1 /\ store.m = (IF ok THEN 1 ELSE 0)
  BY <1>2
<1>8. ClientTyped
  BY <1>3, <1>7 DEF ClientTyped, ClientStates
<1>9. NewestServes /\ LoopsAgree
  BY <1>3, <1>5, <1>6 DEF NewestServes, LoopsAgree
<1>10. PathsBehind
  <2>1. \A s \in Sockets : socket[s].step = "none"
    BY <1>3
  <2> QED BY <1>4, <1>5, <1>6, <1>7, <2>1 DEF PathsBehind
<1>11. SendersAlive
  BY <1>3, <1>5 DEF SendersAlive
<1>12. Told
  BY <1>5, <1>6, <1>7 DEF Told
<1>13. Offered
  <2>1. Len(events) = 0
    BY <1>3
  <2>2. ASSUME NEW n \in Managers, Newest(n), store.m = 0 PROVE Silent(n)
    BY <1>4, <1>5, <1>6, <1>7, <2>2 DEF Silent
  <2> QED BY <2>1, <2>2 DEF Offered
<1>14. StartsQueued
  BY <1>2, <1>7 DEF StartsQueued
<1>15. ClientConnected
  BY <1>3 DEF ClientConnected
<1>16. EndsExplained
  BY <1>3 DEF EndsExplained
<1> QED BY <1>1, <1>8, <1>9, <1>10, <1>11, <1>12, <1>13, <1>14, <1>15, <1>16 DEF FollowInv

LEMMA FollowRests ==
    ASSUME FollowInv, UNCHANGED lspVars
    PROVE  FollowInv'
<1>1. BridgeInv'
  BY QuietKeeps DEF lspVars, FollowInv
<1>2. ClientTyped' /\ StartsQueued' /\ ClientConnected'
  BY DEF FollowInv, lspVars, ClientTyped, StartsQueued, ClientConnected
<1>3. EndsExplained'
  BY DEF FollowInv, lspVars, EndsExplained
<1> QED BY <1>1, <1>2, <1>3, ClientFollowsAlone DEF FollowInv, lspVars

\* Every step keeps it.
LEMMA FollowKept ==
    ASSUME FollowInv, [LspNext]_lspVars
    PROVE  FollowInv'
<1>1. BridgeInv'
  BY BridgeKept DEF FollowInv
<1>2. CASE UNCHANGED lspVars
  BY <1>2, FollowRests
<1>3. ASSUME NEW m \in Managers, \/ Handshake(m) \/ Spawn(m) \/ PublishRunning(m) \/ Register(m)
                                 \/ AcceptFails(m) \/ GiveUp(m) \/ Retry(m) \/ Stop(m)
                                 \/ RelaunchStarts(m) \/ RelaunchInstalls(m)
                                 \/ \E s \in Sockets : Accept(m, s)
      PROVE  FollowInv'
  BY <1>1, <1>3, HandshakeFollows, SpawnFollows, PublishRunningFollows, RegisterFollows, AcceptFailsFollows,
     GiveUpFollows, RetryFollows, StopFollows, RelaunchStartsFollows, RelaunchInstallsFollows, AcceptFollows
<1>4. ASSUME NEW s \in Sockets, \/ Superseded(s) \/ RelayEnds(s) \/ EndBumps(s) \/ EndClears(s) \/ EndPublishes(s)
      PROVE  FollowInv'
  BY <1>1, <1>4, SupersededFollows, RelayEndsFollows, EndBumpsFollows, EndClearsFollows, EndPublishesFollows
<1>5. CASE RestartBegins \/ RestartBumps \/ RestartSupersedes \/ RestartPublishes \/ RelaunchBegins
  BY <1>1, <1>5, RestartBeginsFollows, RestartBumpsFollows, RestartSupersedesFollows, RestartPublishesFollows,
     RelaunchBeginsFollows
<1>6. CASE Receive \/ StartClient \/ ClientReady \/ ClientFails
  BY <1>1, <1>6, ReceiveFollows, StartClientFollows, ClientReadyFollows, ClientFailsFollows
<1> QED BY <1>2, <1>3, <1>4, <1>5, <1>6 DEF LspNext

\* At rest nothing is coming: what the webview has been told is all there is, and
\* a client that failed would have failed with a connection that is explained.
LEMMA FollowInvGives == FollowInv => ClientFollows
<1> SUFFICES ASSUME FollowInv, LspAtRest, slot # 0, <<slot, mgr[slot].gen>> \notin lost
             PROVE  /\ store.gen = mgr[slot].gen
                    /\ Available(slot) /\ ~mgr[slot].exhausted =>
                          client.state = "ready" /\ client.m = slot /\ client.gen = mgr[slot].gen
  BY DEF ClientFollows
<1> PICK n \in Managers : n = slot
  BY Known
<1>1. Newest(n)
  <2>1. PICK k \in Managers : \A m \in Managers : Born(m) <=> m <= k
    BY Known DEF BridgeInv, ManagersInOrder
  <2>2. Newest(k)
    BY <2>1 DEF Newest
  <2>3. slot = k
    BY <2>2 DEF FollowInv, NewestServes, LspAtRest
  <2> QED BY <2>2, <2>3
<1>2. ~mgr[n].stop /\ mgr[n].gen \in Nat
  BY <1>1, Known DEF FollowInv, NewestServes, ManagerRecords
<1>3. store.gen = mgr[n].gen
  <2>1. ~Coming(n)
    BY DEF Coming, LspAtRest, Resting
  <2>2. Len(events) = 0
    BY DEF LspAtRest
  <2> QED BY <1>1, <2>1, <2>2 DEF FollowInv, Told, Heard
<1>4. ASSUME Available(n), ~mgr[n].exhausted
      PROVE  client.state = "ready" /\ client.m = n /\ client.gen = mgr[n].gen
  <2>1. ~Silent(n)
    BY <1>4 DEF Silent, Available, LspAtRest
  <2>2. store.m # 0
    BY <1>1, <1>3, <2>1 DEF FollowInv, Offered
  <2>3. store.m \in Managers /\ Born(store.m) /\ store.gen <= mgr[store.m].gen
    BY <2>2, Known DEF FollowInv, BridgeInv, SocketsInOrder, BridgeTyped, EventsTyped, PathsBehind
  <2>4. store.m = n
    BY <1>1, <1>2, <1>3, <2>3, GensOrdered
  <2>5. client.state # "off" /\ client.m = n /\ client.gen = mgr[n].gen
    <3>1. ~(starts > 0)
      BY DEF LspAtRest
    <3> QED BY <1>3, <2>2, <2>4, <3>1 DEF FollowInv, StartsQueued
  <2>6. client.state # "failed"
    <3> SUFFICES ASSUME client.state = "failed" PROVE FALSE
      OBVIOUS
    <3>1. PICK s \in Sockets : socket[s].m = n /\ socket[s].gen = mgr[n].gen /\ socket[s].step \in Ending
      BY <2>5 DEF FollowInv, ClientConnected
    <3>2. socket[s].step = "gone"
      BY <3>1 DEF Ending, LspAtRest
    <3> QED BY <1>2, <3>1, <3>2 DEF FollowInv, EndsExplained
  <2>7. client.state \in ClientStates /\ client.state # "dialling"
    BY DEF FollowInv, ClientTyped, LspAtRest
  <2> QED BY <2>5, <2>6, <2>7 DEF ClientStates
<1> QED BY <1>3, <1>4

\* When the bridge is at rest the webview knows the generation of the manager in
\* the service and its client is connected to it, unless the endpoint is one of
\* those that nobody calls back (lspStore applyPayload, startImpl, the accept
\* loop and its relays, request_restart, relaunch).
THEOREM ClientDoesFollow == LspSpec => []ClientFollows
<1>1. LspInit => FollowInv
  BY FollowStarts
<1>2. FollowInv /\ [LspNext]_lspVars => FollowInv'
  BY FollowKept
<1>3. FollowInv => ClientFollows
  BY FollowInvGives
<1> QED BY <1>1, <1>2, <1>3, PTL DEF LspSpec

=============================================================================
