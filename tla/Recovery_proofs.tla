--------------------------- MODULE Recovery_proofs ---------------------------
(***************************************************************************)
(* Theorems about Recovery, for any documents, revisions, queue and number *)
(* of sessions.                                                            *)
(***************************************************************************)
EXTENDS Recovery, SequenceTheorems, TLAPS

-----------------------------------------------------------------------------
(* What the messages under way mean for a document.                         *)

IsUpdate(m, d) == m.type = "update" /\ m.id = d
Stops(m, d)    == m.type = "clear" \/ (m.type = "discard" /\ m.id = d)

NoUpdate(q, d) == \A k \in DOMAIN q : ~IsUpdate(q[k], d)
HasClear(q)    == \E k \in DOMAIN q : q[k].type = "clear"
HasStop(q, d)  == \E k \in DOMAIN q : Stops(q[k], d)
InSession(q)   == \A k \in DOMAIN q : q[k].type \in {"update", "discard", "clear"}

\* The last update of d carries text r.
LastUpdate(q, d, r) ==
    \E j \in DOMAIN q : /\ IsUpdate(q[j], d) /\ q[j].text = r
                        /\ \A k \in DOMAIN q : k > j => ~IsUpdate(q[k], d)

\* After every update of d comes a message that takes it back.
Stopped(q, d) ==
    \A j \in DOMAIN q : IsUpdate(q[j], d) => \E k \in DOMAIN q : k > j /\ Stops(q[k], d)

\* A message that is sent is behind all the others.
LEMMA SendFacts ==
    ASSUME NEW q \in Seq(Messages), NEW m \in Messages, NEW d, NEW r
    PROVE  /\ Append(q, m) \in Seq(Messages)
           /\ NoUpdate(q, d) /\ ~IsUpdate(m, d) => NoUpdate(Append(q, m), d)
           /\ LastUpdate(q, d, r) /\ ~IsUpdate(m, d) => LastUpdate(Append(q, m), d, r)
           /\ IsUpdate(m, d) /\ m.text = r => LastUpdate(Append(q, m), d, r)
           /\ Stopped(q, d) /\ ~IsUpdate(m, d) => Stopped(Append(q, m), d)
           /\ Stops(m, d) => Stopped(Append(q, m), d) /\ HasStop(Append(q, m), d)
           /\ HasStop(q, d) => HasStop(Append(q, m), d)
           /\ HasClear(q) \/ m.type = "clear" => HasClear(Append(q, m))
           /\ InSession(q) /\ m.type \in {"update", "discard", "clear"} => InSession(Append(q, m))
<1> DEFINE n == Len(q)
           s == Append(q, m)
<1>1. /\ n \in Nat /\ DOMAIN q = 1..n /\ DOMAIN s = 1..(n + 1)
      /\ s \in Seq(Messages)
  OBVIOUS
<1>2. s[n + 1] = m /\ \A k \in 1..n : s[k] = q[k]
  OBVIOUS
<1> HIDE DEF n, s
<1>3. \A k \in 1..(n + 1) : k \in 1..n \/ k = n + 1
  BY <1>1
<1>4. n + 1 \in 1..(n + 1) /\ \A k \in 1..n : k \in 1..(n + 1) /\ n + 1 > k
  BY <1>1
<1>5. NoUpdate(q, d) /\ ~IsUpdate(m, d) => NoUpdate(s, d)
  BY <1>1, <1>2, <1>3 DEF NoUpdate
<1>6. LastUpdate(q, d, r) /\ ~IsUpdate(m, d) => LastUpdate(s, d, r)
  <2> SUFFICES ASSUME LastUpdate(q, d, r), ~IsUpdate(m, d) PROVE LastUpdate(s, d, r)
    OBVIOUS
  <2>1. PICK j \in 1..n : /\ IsUpdate(q[j], d) /\ q[j].text = r
                          /\ \A k \in 1..n : k > j => ~IsUpdate(q[k], d)
    BY <1>1 DEF LastUpdate
  <2>2. s[j] = q[j] /\ \A k \in 1..(n + 1) : k > j => ~IsUpdate(s[k], d)
    BY <1>2, <1>3, <2>1
  <2> QED
    BY <1>1, <1>4, <2>1, <2>2 DEF LastUpdate
<1>7. IsUpdate(m, d) /\ m.text = r => LastUpdate(s, d, r)
  <2>1. \A k \in 1..(n + 1) : ~(k > n + 1)
    BY <1>1
  <2> QED
    BY <1>1, <1>2, <1>4, <2>1 DEF LastUpdate
<1>8. Stopped(q, d) /\ ~IsUpdate(m, d) => Stopped(s, d)
  <2> SUFFICES ASSUME Stopped(q, d), ~IsUpdate(m, d), NEW j \in 1..(n + 1), IsUpdate(s[j], d)
               PROVE  \E k \in 1..(n + 1) : k > j /\ Stops(s[k], d)
    BY <1>1 DEF Stopped
  <2>1. j \in 1..n /\ s[j] = q[j]
    BY <1>2, <1>3
  <2>2. PICK k \in 1..n : k > j /\ Stops(q[k], d)
    BY <1>1, <2>1 DEF Stopped
  <2> QED
    BY <1>2, <1>4, <2>2
<1>9. Stops(m, d) => Stopped(s, d) /\ HasStop(s, d)
  <2>1. Stops(m, d) => ~IsUpdate(m, d)
    BY DEF Stops, IsUpdate
  <2> QED
    BY <1>1, <1>2, <1>3, <1>4, <2>1 DEF Stopped, HasStop
<1>10. HasStop(q, d) => HasStop(s, d)
  BY <1>1, <1>2, <1>4 DEF HasStop
<1>11. HasClear(q) \/ m.type = "clear" => HasClear(s)
  BY <1>1, <1>2, <1>4 DEF HasClear
<1>12. InSession(q) /\ m.type \in {"update", "discard", "clear"} => InSession(s)
  BY <1>1, <1>2, <1>3 DEF InSession
<1> QED
  BY <1>1, <1>5, <1>6, <1>7, <1>8, <1>9, <1>10, <1>11, <1>12 DEF s

\* The worker takes the message in front.
LEMMA TakeFacts ==
    ASSUME NEW q \in Seq(Messages), q # <<>>, NEW d, NEW r
    PROVE  /\ Tail(q) \in Seq(Messages) /\ Head(q) \in Messages
           /\ NoUpdate(q, d) => NoUpdate(Tail(q), d) /\ ~IsUpdate(Head(q), d)
           /\ LastUpdate(q, d, r) => \/ LastUpdate(Tail(q), d, r)
                                     \/ IsUpdate(Head(q), d) /\ Head(q).text = r /\ NoUpdate(Tail(q), d)
           /\ Stopped(q, d) => Stopped(Tail(q), d)
           /\ Stopped(q, d) /\ IsUpdate(Head(q), d) => HasStop(Tail(q), d)
           /\ HasStop(q, d) => HasStop(Tail(q), d) \/ Stops(Head(q), d)
           /\ HasClear(q) => HasClear(Tail(q)) \/ Head(q).type = "clear"
           /\ InSession(q) => InSession(Tail(q)) /\ Head(q).type \in {"update", "discard", "clear"}
<1> DEFINE n == Len(q)
           t == Tail(q)
           h == Head(q)
<1>1. /\ n \in Nat /\ n > 0 /\ DOMAIN q = 1..n
      /\ t \in Seq(Messages) /\ DOMAIN t = 1..(n - 1) /\ h \in Messages /\ h = q[1]
  OBVIOUS
<1>2. \A k \in 1..(n - 1) : t[k] = q[k + 1]
  BY HeadTailProperties, <1>1
<1> HIDE DEF n, t, h
<1>3. /\ 1 \in 1..n
      /\ \A k \in 1..(n - 1) : k + 1 \in 1..n /\ k + 1 > 1
      /\ \A k \in 1..n : k = 1 \/ (k - 1 \in 1..(n - 1) /\ (k - 1) + 1 = k)
      /\ \A k, j \in 1..n : k > j /\ j # 1 => k # 1 /\ k - 1 > j - 1
      /\ \A k, j \in 1..(n - 1) : k > j => k + 1 > j + 1
  BY <1>1
<1>4. \A k \in 1..n : k = 1 \/ t[k - 1] = q[k]
  BY <1>2, <1>3
<1>5. NoUpdate(q, d) => NoUpdate(t, d) /\ ~IsUpdate(h, d)
  BY <1>1, <1>2, <1>3 DEF NoUpdate
<1>6. LastUpdate(q, d, r) => \/ LastUpdate(t, d, r)
                             \/ IsUpdate(h, d) /\ h.text = r /\ NoUpdate(t, d)
  <2> SUFFICES ASSUME NEW j \in 1..n, IsUpdate(q[j], d), q[j].text = r,
                      \A k \in 1..n : k > j => ~IsUpdate(q[k], d)
               PROVE  \/ LastUpdate(t, d, r)
                      \/ IsUpdate(h, d) /\ h.text = r /\ NoUpdate(t, d)
    BY <1>1 DEF LastUpdate
  <2>1. CASE j = 1
    BY <2>1, <1>1, <1>2, <1>3 DEF NoUpdate
  <2>2. CASE j # 1
    <3>1. j - 1 \in 1..(n - 1) /\ t[j - 1] = q[j]
      BY <2>2, <1>3, <1>4
    <3>2. \A k \in 1..(n - 1) : k > j - 1 => k + 1 \in 1..n /\ k + 1 > j
      BY <1>1
    <3> QED
      BY <3>1, <3>2, <1>1, <1>2 DEF LastUpdate
  <2> QED
    BY <2>1, <2>2
<1>7. Stopped(q, d) => Stopped(t, d)
  <2> SUFFICES ASSUME Stopped(q, d), NEW j \in 1..(n - 1), IsUpdate(t[j], d)
               PROVE  \E k \in 1..(n - 1) : k > j /\ Stops(t[k], d)
    BY <1>1 DEF Stopped
  <2>1. j + 1 \in 1..n /\ IsUpdate(q[j + 1], d)
    BY <1>2, <1>3
  <2>2. PICK k \in 1..n : k > j + 1 /\ Stops(q[k], d)
    BY <1>1, <2>1 DEF Stopped
  <2>3. k # 1 /\ k - 1 \in 1..(n - 1) /\ k - 1 > j
    BY <2>2, <1>1
  <2> QED
    BY <2>2, <2>3, <1>4
<1>8. Stopped(q, d) /\ IsUpdate(h, d) => HasStop(t, d)
  <2> SUFFICES ASSUME Stopped(q, d), IsUpdate(h, d) PROVE HasStop(t, d)
    OBVIOUS
  <2>1. PICK k \in 1..n : k > 1 /\ Stops(q[k], d)
    BY <1>1, <1>3 DEF Stopped
  <2>2. k - 1 \in 1..(n - 1) /\ t[k - 1] = q[k]
    BY <2>1, <1>3, <1>4
  <2> QED
    BY <2>1, <2>2, <1>1 DEF HasStop
<1>9. HasStop(q, d) => HasStop(t, d) \/ Stops(h, d)
  BY <1>1, <1>3, <1>4 DEF HasStop
<1>10. HasClear(q) => HasClear(t) \/ h.type = "clear"
  BY <1>1, <1>3, <1>4 DEF HasClear
<1>11. InSession(q) => InSession(t) /\ h.type \in {"update", "discard", "clear"}
  BY <1>1, <1>2, <1>3 DEF InSession
<1> QED
  BY <1>1, <1>5, <1>6, <1>7, <1>8, <1>9, <1>10, <1>11 DEF t, h

\* What the fields of a message are.
LEMMA MessageFields ==
    ASSUME NEW m \in Messages
    PROVE  /\ m.type \in {"update", "discard", "flush", "clear", "shutdown"}
           /\ m.type = "update" => m.id \in Docs /\ m.text \in Texts
           /\ m.type = "discard" => m.id \in Docs
BY DEF Messages

LEMMA MessagesMade ==
    ASSUME NEW d \in Docs, NEW r \in Texts
    PROVE  /\ [type |-> "update", id |-> d, text |-> r] \in Messages
           /\ [type |-> "discard", id |-> d] \in Messages
           /\ \A s \in {"flush", "clear", "shutdown"} : [type |-> s] \in Messages
BY DEF Messages

\* The groups of variables that actions leave alone.
USE DEF bufVars, storeVars, workerVars, callVars, sessVars, history, Alone

-----------------------------------------------------------------------------
(* Types.                                                                   *)

LEMMA Numbers ==
    /\ 0 \in Texts /\ NoText \notin Texts /\ NoText \notin Snapshots
    /\ \A r \in Texts : r \in Nat /\ (r < MaxRev => r + 1 \in Texts)
    /\ \A r, v \in Texts : [text |-> r, version |-> v] \in Snapshots
BY RecoveryAssumption DEF Texts, Snapshots

LEMMA InitType == RecoveryInit => RecoveryTypeOK
<1> SUFFICES ASSUME RecoveryInit PROVE RecoveryTypeOK
  OBVIOUS
<1>1. Nothing \in [Docs -> Texts \union {NoText}] /\ Nothing \in [Docs -> Snapshots \union {NoText}]
  BY DEF Nothing
<1>2. queue \in Seq(Messages)
  BY DEF RecoveryInit
<1>3. session \in [up : {"up", "closing", "down"}, starts : 0..MaxSessions]
  BY RecoveryAssumption DEF RecoveryInit
<1> QED
  BY <1>1, <1>2, <1>3, Numbers DEF RecoveryInit, RecoveryTypeOK

\* A flush has the whole buffer, and whatever it still has to handle.
WorkerShape ==
    /\ LockFree => taken = Nothing /\ batch = {}
    /\ ~LockFree => pending = Nothing
    /\ batch \subseteq {d \in Docs : taken[d] # NoText}
    /\ worker \in Docs => worker \notin batch /\ taken[worker] # NoText

\* mark_clean_shutdown sends one message or two.
LEMMA QuitSends ==
    ASSUME queue \in Seq(Messages), MarkClean
    PROVE  \E q \in Seq(Messages) :
              /\ q = Append(queue, [type |-> "flush"])
              /\ queue' = q \/ queue' = Append(q, [type |-> "shutdown"])
<1>1. PICK drop \in BOOLEAN :
        queue' = queue \o <<[type |-> "flush"]>> \o (IF drop THEN <<[type |-> "shutdown"]>> ELSE <<>>)
  BY DEF MarkClean
<1>2. [type |-> "flush"] \in Messages /\ [type |-> "shutdown"] \in Messages
  BY DEF Messages
<1>3. ASSUME NEW q \in Seq(Messages), NEW m \in Messages
      PROVE  q \o <<m>> = Append(q, m) /\ q \o <<>> = q /\ Append(q, m) \in Seq(Messages)
  OBVIOUS
<1> QED
  BY <1>1, <1>2, <1>3

\* Neither is about a document.
LEMMA QuitKeeps ==
    ASSUME queue \in Seq(Messages), MarkClean, NEW d, NEW r
    PROVE  /\ queue' \in Seq(Messages)
           /\ NoUpdate(queue, d) => NoUpdate(queue', d)
           /\ LastUpdate(queue, d, r) => LastUpdate(queue', d, r)
<1>1. PICK q \in Seq(Messages) :
         /\ q = Append(queue, [type |-> "flush"])
         /\ queue' = q \/ queue' = Append(q, [type |-> "shutdown"])
  BY QuitSends
<1>2. /\ [type |-> "flush"] \in Messages /\ ~IsUpdate([type |-> "flush"], d)
      /\ [type |-> "shutdown"] \in Messages /\ ~IsUpdate([type |-> "shutdown"], d)
  BY DEF Messages, IsUpdate
<1>3. (NoUpdate(queue, d) => NoUpdate(q, d)) /\ (LastUpdate(queue, d, r) => LastUpdate(q, d, r))
  BY <1>1, <1>2, SendFacts
<1>4. CASE queue' = Append(q, [type |-> "shutdown"])
  BY <1>2, <1>3, <1>4, SendFacts
<1> QED
  BY <1>1, <1>3, <1>4

LEMMA TypeStep ==
    ASSUME RecoveryTypeOK, WorkerShape, RecoveryNext
    PROVE  RecoveryTypeOK'
<1> USE DEF RecoveryTypeOK
<1>1. ASSUME NEW d \in Docs, Open(d) PROVE RecoveryTypeOK'
  BY <1>1 DEF Open
<1>2. ASSUME NEW d \in Docs, Edit(d) PROVE RecoveryTypeOK'
  <2>1. rev' \in [Docs -> Texts] /\ rev[d] + 1 \in Texts
    BY <1>2, Numbers DEF Edit
  <2>2. queue' \in Seq(Messages)
    BY <1>2, <2>1, MessagesMade, SendFacts DEF Edit, Schedule, Send
  <2>3. forgiven' \in [Docs -> BOOLEAN] /\ fresh' \in [Docs -> BOOLEAN]
    BY <1>2 DEF Edit, Schedule
  <2> QED
    BY <1>2, <2>1, <2>2, <2>3 DEF Edit
<1>3. ASSUME NEW d \in Docs, External(d) PROVE RecoveryTypeOK'
  <2>1. disk' \in [Docs -> Texts]
    BY <1>3, Numbers DEF External
  <2> QED
    BY <1>3, <2>1 DEF External
<1>4. ASSUME NEW d \in Docs, SaveWrites(d) PROVE RecoveryTypeOK'
  BY <1>4 DEF SaveWrites
<1>5. ASSUME NEW d \in Docs, Decline(d) PROVE RecoveryTypeOK'
  BY <1>5 DEF Decline
<1>6. ASSUME NEW d \in Docs, DiscardOffered(d) PROVE RecoveryTypeOK'
  BY <1>6 DEF DiscardOffered
<1>7. ASSUME NEW d \in Docs, Close(d) PROVE RecoveryTypeOK'
  BY <1>7 DEF Close
<1>8. ASSUME NEW d \in Docs, MarkSaved(d) PROVE RecoveryTypeOK'
  BY <1>8 DEF MarkSaved
<1>9. ASSUME NEW d \in Docs, DiscardSends(d) PROVE RecoveryTypeOK'
  <2>1. queue' \in Seq(Messages)
    BY <1>9, Numbers, MessagesMade, SendFacts DEF DiscardSends, Send
  <2> QED
    BY <1>9, <2>1 DEF DiscardSends
<1>10. ASSUME NEW d \in Docs, DiscardRemoves(d) PROVE RecoveryTypeOK'
  BY <1>10 DEF DiscardRemoves
<1>11. ASSUME NEW d \in Docs, DiscardUnlists(d) PROVE RecoveryTypeOK'
  BY <1>11 DEF DiscardUnlists
<1>12. ASSUME NEW d \in Docs, FlushCheck(d) PROVE RecoveryTypeOK'
  BY <1>12 DEF FlushCheck
<1>13. ASSUME NEW d \in Docs, FlushWrite(d) PROVE RecoveryTypeOK'
  <2>1. d \in Docs /\ taken[d] \in Texts
    BY <1>13 DEF FlushWrite, WorkerShape
  <2>2. file' \in [Docs -> Snapshots \union {NoText}]
    BY <1>13, <2>1, Numbers DEF FlushWrite
  <2> QED
    BY <1>13, <2>1, <2>2 DEF FlushWrite
<1>14. CASE SyncLists
  BY <1>14 DEF SyncLists
<1>15. CASE ClearSends
  <2>1. [type |-> "clear"] \in Messages
    BY DEF Messages
  <2>2. queue' \in Seq(Messages)
    BY <1>15, <2>1, SendFacts DEF ClearSends, Send
  <2>3. forgiven' \in [Docs -> BOOLEAN] /\ fresh' \in [Docs -> BOOLEAN]
    BY <1>15 DEF ClearSends
  <2> QED
    BY <1>15, <2>1, <2>2, <2>3 DEF ClearSends
<1>16. CASE MarkClean
  <2>1. queue' \in Seq(Messages)
    BY <1>16, QuitKeeps
  <2>2. session' \in [up : {"up", "closing", "down"}, starts : 0..MaxSessions]
    BY <1>16 DEF MarkClean
  <2> QED
    BY <1>16, <2>1, <2>2 DEF MarkClean
<1>17. CASE Down
  <2>1. queue' \in Seq(Messages)
    BY <1>17 DEF Down
  <2>2. session' \in [up : {"up", "closing", "down"}, starts : 0..MaxSessions]
    BY <1>17 DEF Down
  <2>3. pending' \in [Docs -> Texts \union {NoText}] /\ taken' \in [Docs -> Texts \union {NoText}]
    BY <1>17 DEF Down, Nothing
  <2>4. status' \in [Docs -> {"new", "open", "over"}]
    BY <1>17 DEF Down
  <2>5. owed' \subseteq Docs
    BY <1>17 DEF Down, OpenDocs
  <2> QED
    BY <1>17, <2>1, <2>2, <2>3, <2>4, <2>5 DEF Down
<1>18. CASE Start
  <2>1. session' \in [up : {"up", "closing", "down"}, starts : 0..MaxSessions]
    BY <1>18, RecoveryAssumption DEF Start
  <2>2. offered' \subseteq Docs
    BY <1>18 DEF Start, Offer, Recoverable
  <2> QED
    BY <1>18, <2>1, <2>2 DEF Start
<1>19. CASE SyncWrites
  <2>1. file' \in [Docs -> Snapshots \union {NoText}]
    BY <1>19, Numbers DEF SyncWrites
  <2>2. by' \in [Docs -> {"none", "worker", "sync"}]
    BY <1>19 DEF SyncWrites
  <2>3. listed' \subseteq Docs
    BY <1>19 DEF SyncWrites, OpenDocs
  <2> QED
    BY <1>19, <2>1, <2>2, <2>3 DEF SyncWrites
<1>20. CASE ClearWipes
  <2>1. file' \in [Docs -> Snapshots \union {NoText}]
    BY <1>20 DEF ClearWipes, Wipe, Nothing
  <2> QED
    BY <1>20, <2>1 DEF ClearWipes, Wipe
<1>21. CASE ClearResets
  BY <1>21 DEF ClearResets
<1>22. CASE TakeUpdate
  <2>1. queue # <<>> /\ Head(queue) \in Messages /\ Tail(queue) \in Seq(Messages)
    BY <1>22, TakeFacts DEF TakeUpdate, Next1
  <2>2. pending' \in [Docs -> Texts \union {NoText}]
    BY <1>22, <2>1, MessageFields DEF TakeUpdate, Next1
  <2> QED
    BY <1>22, <2>1, <2>2 DEF TakeUpdate
<1>23. CASE TakeDiscard
  <2>1. queue # <<>> /\ Head(queue) \in Messages /\ Tail(queue) \in Seq(Messages)
    BY <1>23, TakeFacts DEF TakeDiscard, Next1
  <2>2. Head(queue).id \in Docs
    BY <1>23, <2>1, MessageFields DEF TakeDiscard, Next1
  <2>3. pending' \in [Docs -> Texts \union {NoText}]
    BY <1>23, <2>1 DEF TakeDiscard
  <2> QED
    BY <1>23, <2>1, <2>2, <2>3 DEF TakeDiscard
<1>24. CASE TakeClear
  <2>1. queue # <<>> /\ Head(queue) \in Messages /\ Tail(queue) \in Seq(Messages)
    BY <1>24, TakeFacts DEF TakeClear, Next1
  <2>2. pending' \in [Docs -> Texts \union {NoText}] /\ file' \in [Docs -> Snapshots \union {NoText}]
    BY <1>24 DEF TakeClear, Wipe, Nothing
  <2>3. forgiven' \in [Docs -> BOOLEAN] /\ fresh' \in [Docs -> BOOLEAN]
    BY <1>24 DEF TakeClear
  <2> QED
    BY <1>24, <2>1, <2>2, <2>3 DEF TakeClear, Wipe
<1>25. CASE TakeFlush
  <2>1. queue # <<>> /\ Head(queue) \in Messages /\ Tail(queue) \in Seq(Messages)
    BY <1>25, TakeFacts DEF TakeFlush, Next1
  <2> QED
    BY <1>25, <2>1 DEF TakeFlush
<1>26. CASE TakeShutdown
  <2>1. queue # <<>> /\ Head(queue) \in Messages /\ Tail(queue) \in Seq(Messages)
    BY <1>26, TakeFacts DEF TakeShutdown, Next1
  <2>2. queue' \in Seq(Messages) /\ worker' \in {"due", "stopped"}
    BY <1>26, <2>1 DEF TakeShutdown
  <2> QED
    BY <1>26, <2>1, <2>2 DEF TakeShutdown
<1>27. CASE DeadlineFlush
  BY <1>27 DEF DeadlineFlush
<1>28. CASE FlushLocks
  <2>1. pending' \in [Docs -> Texts \union {NoText}] /\ taken' \in [Docs -> Texts \union {NoText}]
    BY <1>28 DEF FlushLocks, Nothing
  <2>2. batch' \subseteq Docs /\ loaded' \subseteq Docs
    BY <1>28 DEF FlushLocks
  <2> QED
    BY <1>28, <2>1, <2>2 DEF FlushLocks
<1>29. CASE FlushEnd
  <2>1. taken' \in [Docs -> Texts \union {NoText}]
    BY <1>29 DEF FlushEnd, Nothing
  <2> QED
    BY <1>29, <2>1 DEF FlushEnd
<1> QED
  BY <1>1, <1>2, <1>3, <1>4, <1>5, <1>6, <1>7, <1>8, <1>9, <1>10, <1>11, <1>12, <1>13, <1>14, <1>15, <1>16, <1>17, <1>18, <1>19, <1>20, <1>21, <1>22, <1>23, <1>24, <1>25, <1>26, <1>27, <1>28, <1>29 DEF RecoveryNext, WorkerStep, CallStep, UserStep

-----------------------------------------------------------------------------
(* The worker.                                                              *)

LEMMA WorkerStarts ==
    ASSUME RecoveryTypeOK, WorkerShape, RecoveryNext
    PROVE  WorkerShape'
<1> USE RecoveryAssumption DEF RecoveryTypeOK, WorkerShape, LockFree
<1> DEFINE Left == UNCHANGED <<pending, taken, batch, worker>>
<1>1. CASE Left
  BY <1>1
<1>2. CASE TakeUpdate \/ TakeDiscard \/ TakeClear \/ TakeFlush \/ TakeShutdown \/ DeadlineFlush
  BY <1>2 DEF TakeUpdate, TakeDiscard, TakeClear, TakeFlush, TakeShutdown, DeadlineFlush, Next1
<1>3. CASE FlushLocks
  BY <1>3 DEF FlushLocks, Nothing
<1>4. ASSUME NEW d \in Docs, FlushCheck(d) PROVE WorkerShape'
  BY <1>4 DEF FlushCheck
<1>5. ASSUME NEW d \in Docs, FlushWrite(d) PROVE WorkerShape'
  BY <1>5 DEF FlushWrite
<1>6. CASE FlushEnd
  BY <1>6 DEF FlushEnd
<1>7. CASE Down
  BY <1>7 DEF Down, Nothing
<1>8. ASSUME NEW d \in Docs,
             \/ Open(d) \/ Edit(d) \/ External(d) \/ SaveWrites(d) \/ Decline(d) \/ DiscardOffered(d) \/ Close(d)
             \/ MarkSaved(d) \/ DiscardSends(d) \/ DiscardRemoves(d) \/ DiscardUnlists(d)
      PROVE  Left
  BY <1>8 DEF Open, Edit, External, SaveWrites, Decline, DiscardOffered, Close, MarkSaved,
              DiscardSends, DiscardRemoves, DiscardUnlists
<1>9. SyncWrites \/ ClearWipes \/ ClearResets \/ SyncLists \/ ClearSends \/ MarkClean \/ Start => Left
  BY DEF SyncWrites, ClearWipes, ClearResets, SyncLists, ClearSends, MarkClean, Start
<1> HIDE DEF Left
<1> QED
  BY <1>1, <1>2, <1>3, <1>4, <1>5, <1>6, <1>7, <1>8, <1>9 DEF RecoveryNext, WorkerStep, CallStep, UserStep

-----------------------------------------------------------------------------
(* Who is about to take a snapshot away.                                    *)

HandsOff ==
    \A d \in Docs :
        /\ status[d] = "new" => ~dirty[d]
        /\ d \in discarded \/ op[d] \in {"sent", "removed"} \/ clearing # "idle" => forgiven[d]
        /\ syncing # NoText => (syncing[d] = "clean" => ~dirty[d] \/ forgiven[d])

LEMMA HandsStep ==
    ASSUME RecoveryTypeOK, HandsOff, RecoveryNext
    PROVE  HandsOff'
<1> SUFFICES ASSUME NEW x \in Docs
             PROVE  /\ status'[x] = "new" => ~dirty'[x]
                    /\ x \in discarded' \/ op'[x] \in {"sent", "removed"} \/ clearing' # "idle" => forgiven'[x]
                    /\ syncing' # NoText => (syncing'[x] = "clean" => ~dirty'[x] \/ forgiven'[x])
  BY DEF HandsOff
<1> DEFINE Goal == /\ status'[x] = "new" => ~dirty'[x]
                   /\ x \in discarded' \/ op'[x] \in {"sent", "removed"} \/ clearing' # "idle" => forgiven'[x]
                   /\ syncing' # NoText => (syncing'[x] = "clean" => ~dirty'[x] \/ forgiven'[x])
<1> SUFFICES Goal
  OBVIOUS
<1> USE DEF RecoveryTypeOK, HandsOff
<1>1. ASSUME NEW d \in Docs, Open(d) PROVE Goal
  BY <1>1 DEF Open
<1>2. ASSUME NEW d \in Docs, Edit(d) PROVE Goal
  BY <1>2 DEF Edit, Schedule, Send
<1>3. ASSUME NEW d \in Docs, External(d) \/ SaveWrites(d) \/ Decline(d) \/ DiscardOffered(d) \/ Close(d) PROVE Goal
  BY <1>3 DEF External, SaveWrites, Decline, DiscardOffered, Close
<1>4. ASSUME NEW d \in Docs, MarkSaved(d) PROVE Goal
  BY <1>4 DEF MarkSaved
<1>5. ASSUME NEW d \in Docs, DiscardSends(d) PROVE Goal
  BY <1>5 DEF DiscardSends, Send
<1>6. ASSUME NEW d \in Docs, DiscardRemoves(d) \/ DiscardUnlists(d) PROVE Goal
  BY <1>6 DEF DiscardRemoves, DiscardUnlists
<1>7. CASE SyncLists
  BY <1>7 DEF SyncLists, OpenDocs
<1>8. CASE SyncWrites \/ ClearWipes \/ ClearResets
  BY <1>8 DEF SyncWrites, ClearWipes, ClearResets
<1>9. CASE ClearSends
  BY <1>9 DEF ClearSends, Send
<1>10. CASE TakeDiscard
  <2>1. Head(queue).id \in Docs
    BY <1>10, TakeFacts, MessageFields DEF TakeDiscard, Next1
  <2> QED
    BY <1>10, <2>1 DEF TakeDiscard
<1>11. CASE TakeClear
  BY <1>11 DEF TakeClear
<1>12. CASE TakeUpdate \/ TakeFlush \/ TakeShutdown \/ DeadlineFlush \/ FlushLocks \/ FlushEnd
  BY <1>12 DEF TakeUpdate, TakeFlush, TakeShutdown, DeadlineFlush, FlushLocks, FlushEnd
<1>13. ASSUME NEW d \in Docs, FlushCheck(d) \/ FlushWrite(d) PROVE Goal
  BY <1>13 DEF FlushCheck, FlushWrite
<1>14. CASE MarkClean \/ Start
  BY <1>14 DEF MarkClean, Start
<1>15. CASE Down
  BY <1>15 DEF Down
<1> HIDE DEF Goal
<1> QED
  BY <1>1, <1>2, <1>3, <1>4, <1>5, <1>6, <1>7, <1>8, <1>9, <1>10, <1>11, <1>12, <1>13, <1>14, <1>15
     DEF RecoveryNext, WorkerStep, CallStep, UserStep

-----------------------------------------------------------------------------
(* Sessions.                                                                *)

\* The marker says how the last session ended; a program that is down is quiet.
SessionShape ==
    /\ Up => /\ ~marker /\ InSession(queue)
             /\ session.starts > 0 => owed \subseteq offered
    /\ session.up = "down" =>
             /\ queue = <<>> /\ pending = Nothing /\ worker = "idle"
             /\ syncing = NoText /\ clearing = "idle"
             /\ \A d \in Docs : op[d] = "idle" /\ fresh[d] /\ status[d] # "open"
             /\ owed \subseteq Recoverable
             /\ marker => owed = {}

LEMMA SessionStep ==
    ASSUME RecoveryTypeOK, SessionShape, RecoveryNext
    PROVE  SessionShape'
<1> USE DEF RecoveryTypeOK, SessionShape, Up, Alive
<1>1. ASSUME NEW d \in Docs, Open(d) PROVE SessionShape'
  BY <1>1 DEF Open
<1>2. ASSUME NEW d \in Docs, Edit(d) PROVE SessionShape'
  <2>1. Up => InSession(queue')
    BY <1>2, Numbers, MessagesMade, SendFacts DEF Edit, Schedule, Send
  <2> QED
    BY <1>2, <2>1 DEF Edit
<1>3. ASSUME NEW d \in Docs, SaveWrites(d) \/ Decline(d) \/ DiscardOffered(d) \/ Close(d)
      PROVE  SessionShape'
  BY <1>3 DEF SaveWrites, Decline, DiscardOffered, Close
<1>4. ASSUME NEW d \in Docs, External(d) PROVE SessionShape'
  BY <1>4 DEF External, Recoverable
<1>5. ASSUME NEW d \in Docs, MarkSaved(d) PROVE SessionShape'
  BY <1>5 DEF MarkSaved
<1>6. ASSUME NEW d \in Docs, DiscardSends(d) PROVE SessionShape'
  <2>1. Up => InSession(queue')
    BY <1>6, Numbers, MessagesMade, SendFacts DEF DiscardSends, Send
  <2> QED
    BY <1>6, <2>1 DEF DiscardSends
<1>7. ASSUME NEW d \in Docs, DiscardRemoves(d) \/ DiscardUnlists(d) PROVE SessionShape'
  BY <1>7 DEF DiscardRemoves, DiscardUnlists
<1>8. CASE SyncLists \/ SyncWrites
  BY <1>8 DEF SyncLists, SyncWrites
<1>9. CASE ClearSends
  <2>1. [type |-> "clear"] \in Messages
    BY DEF Messages
  <2>2. Up => InSession(queue')
    BY <1>9, <2>1, SendFacts DEF ClearSends, Send
  <2> QED
    BY <1>9, <2>2 DEF ClearSends
<1>10. CASE ClearWipes \/ ClearResets
  BY <1>10 DEF ClearWipes, ClearResets, Wipe
<1>11. ASSUME queue # <<>> /\ queue' = Tail(queue), session' = session, offered' = offered, owed' = owed,
              marker' = marker \/ ~marker' PROVE SessionShape'
  <2>1. Up => InSession(queue')
    BY <1>11, TakeFacts
  <2> QED
    BY <1>11, <2>1
<1>12. CASE TakeUpdate \/ TakeDiscard \/ TakeClear \/ TakeFlush
  BY <1>11, <1>12 DEF TakeUpdate, TakeDiscard, TakeClear, TakeFlush, Next1, Wipe
<1>13. CASE TakeShutdown
  <2>1. CASE pending = Nothing
    BY <1>11, <1>13, <2>1 DEF TakeShutdown, Next1
  <2>2. CASE pending # Nothing
    BY <1>13, <2>2 DEF TakeShutdown, Next1
  <2> QED
    BY <2>1, <2>2
<1>14. CASE DeadlineFlush \/ FlushLocks \/ FlushEnd
  BY <1>14 DEF DeadlineFlush, FlushLocks, FlushEnd
<1>15. ASSUME NEW d \in Docs, FlushCheck(d) \/ FlushWrite(d) PROVE SessionShape'
  BY <1>15, RecoveryAssumption DEF FlushCheck, FlushWrite
<1>16. CASE MarkClean
  BY <1>16 DEF MarkClean
<1>17. CASE Down
  <2>1. session'.up = "down" /\ (marker' => owed' = {})
    BY <1>17 DEF Down
  <2>2. owed' \subseteq Recoverable'
    BY <1>17 DEF Down, Recoverable, Covered
  <2> QED
    BY <1>17, <2>1, <2>2 DEF Down
<1>18. CASE Start
  <2>1. session'.up = "up" /\ queue' = <<>> /\ ~marker'
    BY <1>18 DEF Start
  <2>2. InSession(queue')
    BY <2>1 DEF InSession
  <2>3. owed' \subseteq offered'
    BY <1>18 DEF Start, Offer
  <2> QED
    BY <2>1, <2>2, <2>3
<1> QED
  BY <1>1, <1>2, <1>3, <1>4, <1>5, <1>6, <1>7, <1>8, <1>9, <1>10, <1>12, <1>13, <1>14, <1>15, <1>16, <1>17, <1>18
     DEF RecoveryNext, WorkerStep, CallStep, UserStep

-----------------------------------------------------------------------------
(* The last text of a document is on its way to the disk.                   *)

Queued(d)   == LastUpdate(queue, d, rev[d])
Buffered(d) == NoUpdate(queue, d) /\ pending[d] = rev[d]
Flushed(d)  == /\ NoUpdate(queue, d) /\ taken[d] = rev[d] /\ ~LockFree
               /\ d \in batch \/ worker = d \/ (file[d] # NoText /\ file[d].text = rev[d] /\ d \in loaded)
Stored(d)   == /\ NoUpdate(queue, d) /\ pending[d] = NoText /\ taken[d] = NoText
               /\ Covered(d) /\ (~LockFree => d \in loaded)
OnItsWay(d) == Queued(d) \/ Buffered(d) \/ Flushed(d) \/ Stored(d)

\* The edits nothing was in the way of.
Waiting(d)  == status[d] = "open" /\ dirty[d] /\ ~forgiven[d]
Tracked     == \A d \in Docs : Waiting(d) => OnItsWay(d)

\* What a step on something else leaves alone.
Apart(d) == /\ queue' = queue /\ rev'[d] = rev[d] /\ pending'[d] = pending[d] /\ taken'[d] = taken[d]
            /\ worker' = worker /\ batch' = batch /\ loaded' = loaded

LEMMA OnTheWayStill ==
    ASSUME NEW d \in Docs, OnItsWay(d), Apart(d),
           file'[d] = file[d] \/ (file'[d] # NoText /\ file'[d].text = rev[d]),
           d \in listed => d \in listed'
    PROVE  OnItsWay(d)'
BY DEF OnItsWay, Apart, Queued, Buffered, Flushed, Stored, Covered, LockFree

\* A message about something else is sent.
LEMMA OnTheWayBehind ==
    ASSUME NEW d \in Docs, OnItsWay(d), queue \in Seq(Messages), NEW m \in Messages, ~IsUpdate(m, d),
           queue' = Append(queue, m),
           rev'[d] = rev[d], pending'[d] = pending[d], taken'[d] = taken[d],
           UNCHANGED <<worker, batch, loaded, file, listed>>
    PROVE  OnItsWay(d)'
<1>1. LastUpdate(queue, d, rev[d]) => LastUpdate(queue', d, rev[d])
  BY SendFacts
<1>2. NoUpdate(queue, d) => NoUpdate(queue', d)
  BY SendFacts
<1> QED
  BY <1>1, <1>2 DEF OnItsWay, Queued, Buffered, Flushed, Stored, Covered, LockFree

\* A message about something else is taken.
LEMMA OnTheWayTaken ==
    ASSUME NEW d \in Docs, OnItsWay(d), queue \in Seq(Messages), queue # <<>>, ~IsUpdate(Head(queue), d),
           queue' = Tail(queue), rev'[d] = rev[d], pending'[d] = pending[d], taken'[d] = taken[d],
           UNCHANGED <<batch, loaded, file, listed>>, worker = "idle", worker' \in {"idle", "due", "stopped"}
    PROVE  OnItsWay(d)'
<1>1. LastUpdate(queue, d, rev[d]) => LastUpdate(queue', d, rev[d])
  BY TakeFacts
<1>2. NoUpdate(queue, d) => NoUpdate(queue', d)
  BY TakeFacts
<1> QED
  BY <1>1, <1>2 DEF OnItsWay, Queued, Buffered, Flushed, Stored, Covered, LockFree

LEMMA TrackedStep ==
    ASSUME RecoveryTypeOK, WorkerShape, HandsOff, Tracked, RecoveryNext
    PROVE  Tracked'
<1> SUFFICES ASSUME NEW x \in Docs, Waiting(x)' PROVE OnItsWay(x)'
  BY DEF Tracked
<1> USE RecoveryAssumption DEF RecoveryTypeOK
<1>0. Waiting(x) => OnItsWay(x)
  BY DEF Tracked
<1>1. ASSUME NEW d \in Docs, Open(d) PROVE OnItsWay(x)'
  <2>1. Waiting(x) /\ Apart(x) /\ UNCHANGED <<file, listed>>
    BY <1>1 DEF Open, Waiting, HandsOff, Apart
  <2> QED
    BY <1>0, <2>1, OnTheWayStill
<1>2. ASSUME NEW d \in Docs, Edit(d) PROVE OnItsWay(x)'
  <2> DEFINE m == [type |-> "update", id |-> d, text |-> rev[d] + 1]
  <2>1. m \in Messages /\ queue' = Append(queue, m) /\ IsUpdate(m, d) /\ m.text = rev[d] + 1
    BY <1>2, Numbers, MessagesMade DEF Edit, Schedule, Send, IsUpdate
  <2>2. CASE x = d
    <3>1. rev'[x] = rev[d] + 1
      BY <1>2, <2>2 DEF Edit
    <3> QED
      BY <2>1, <2>2, <3>1, SendFacts DEF OnItsWay, Queued
  <2>3. CASE x # d
    <3>1. ~IsUpdate(m, x)
      BY <2>3 DEF IsUpdate
    <3>2. Waiting(x) /\ rev'[x] = rev[x] /\ UNCHANGED <<worker, batch, loaded, file, listed, pending, taken>>
      BY <1>2, <2>3 DEF Edit, Schedule, Waiting
    <3> HIDE DEF m
    <3> QED
      BY <1>0, <2>1, <3>1, <3>2, OnTheWayBehind
  <2> QED
    BY <2>2, <2>3
<1>3. ASSUME NEW d \in Docs,
             \/ External(d) \/ SaveWrites(d) \/ Decline(d) \/ DiscardOffered(d) \/ Close(d) \/ MarkSaved(d)
      PROVE  OnItsWay(x)'
  <2>1. Waiting(x) /\ Apart(x) /\ UNCHANGED <<file, listed>>
    BY <1>3 DEF External, SaveWrites, Decline, DiscardOffered, Close, MarkSaved, Waiting, Apart
  <2> QED
    BY <1>0, <2>1, OnTheWayStill
<1>4. ASSUME NEW d \in Docs, DiscardSends(d) PROVE OnItsWay(x)'
  <2> DEFINE m == [type |-> "discard", id |-> d]
  <2>1. m \in Messages /\ queue' = Append(queue, m) /\ ~IsUpdate(m, x)
    BY <1>4, Numbers, MessagesMade DEF DiscardSends, Send, IsUpdate
  <2>2. Waiting(x) /\ rev'[x] = rev[x] /\ UNCHANGED <<worker, batch, loaded, file, listed, pending, taken>>
    BY <1>4 DEF DiscardSends, Waiting
  <2> HIDE DEF m
  <2> QED
    BY <1>0, <2>1, <2>2, OnTheWayBehind
<1>5. ASSUME NEW d \in Docs, DiscardRemoves(d) \/ DiscardUnlists(d) PROVE OnItsWay(x)'
  <2>1. x # d /\ Waiting(x)
    BY <1>5 DEF DiscardRemoves, DiscardUnlists, Waiting, HandsOff
  <2>2. Apart(x) /\ file'[x] = file[x] /\ (x \in listed => x \in listed')
    BY <1>5, <2>1 DEF DiscardRemoves, DiscardUnlists, Apart
  <2> QED
    BY <1>0, <2>1, <2>2, OnTheWayStill
<1>6. CASE SyncLists
  <2>1. Waiting(x) /\ Apart(x) /\ UNCHANGED <<file, listed>>
    BY <1>6 DEF SyncLists, Waiting, Apart
  <2> QED
    BY <1>0, <2>1, OnTheWayStill
<1>7. CASE SyncWrites
  <2>1. Waiting(x) /\ Apart(x) /\ x \in OpenDocs /\ syncing[x] # "clean"
    BY <1>7 DEF SyncWrites, Waiting, Apart, HandsOff, OpenDocs
  <2>2. file'[x] = file[x] \/ file'[x] = [text |-> rev[x], version |-> disk[x]]
    BY <1>7, <2>1 DEF SyncWrites
  <2>3. file'[x] = file[x] \/ (file'[x] # NoText /\ file'[x].text = rev[x])
    BY <2>2, Numbers
  <2>4. x \in listed => x \in listed'
    BY <1>7, <2>1 DEF SyncWrites
  <2> QED
    BY <1>0, <2>1, <2>3, <2>4, OnTheWayStill
<1>8. CASE ClearSends
  BY <1>8 DEF ClearSends, Waiting
<1>9. CASE ClearWipes \/ ClearResets
  BY <1>9 DEF ClearWipes, ClearResets, Waiting, HandsOff
<1>10. CASE TakeUpdate
  <2>1. /\ queue # <<>> /\ queue' = Tail(queue) /\ Head(queue) \in Messages /\ Head(queue).type = "update"
        /\ pending' = [pending EXCEPT ![Head(queue).id] = Head(queue).text]
        /\ UNCHANGED <<rev, taken, batch, loaded, worker, file, listed>> /\ worker = "idle" /\ Waiting(x)
    BY <1>10, TakeFacts DEF TakeUpdate, Next1, Waiting
  <2>2. Head(queue).id \in Docs
    BY <2>1, MessageFields
  <2>3. CASE IsUpdate(Head(queue), x)
    <3>1. pending'[x] = Head(queue).text
      BY <2>1, <2>2, <2>3 DEF IsUpdate
    <3>2. Queued(x)
      BY <1>0, <2>1, <2>3, TakeFacts DEF OnItsWay, Buffered, Flushed, Stored
    <3>3. LastUpdate(queue', x, rev[x]) \/ (Head(queue).text = rev[x] /\ NoUpdate(queue', x))
      BY <2>1, <3>2, TakeFacts DEF Queued
    <3> QED
      BY <2>1, <3>1, <3>3 DEF OnItsWay, Queued, Buffered
  <2>4. CASE ~IsUpdate(Head(queue), x)
    <3>1. pending'[x] = pending[x]
      BY <2>1, <2>2, <2>4 DEF IsUpdate
    <3> QED
      BY <1>0, <2>1, <2>4, <3>1, OnTheWayTaken
  <2> QED
    BY <2>3, <2>4
<1>11. CASE TakeDiscard
  <2>1. /\ queue # <<>> /\ queue' = Tail(queue) /\ Head(queue) \in Messages /\ Head(queue).type = "discard"
        /\ pending' = [pending EXCEPT ![Head(queue).id] = NoText]
        /\ forgiven' = [forgiven EXCEPT ![Head(queue).id] = TRUE]
        /\ UNCHANGED <<status, dirty, rev, taken, batch, loaded, worker, file, listed>> /\ worker = "idle"
    BY <1>11, TakeFacts DEF TakeDiscard, Next1
  <2>2. Head(queue).id \in Docs
    BY <2>1, MessageFields
  <2>3. Waiting(x) /\ pending'[x] = pending[x] /\ ~IsUpdate(Head(queue), x)
    BY <2>1, <2>2 DEF Waiting, IsUpdate
  <2> QED
    BY <1>0, <2>1, <2>3, OnTheWayTaken
<1>12. CASE TakeClear
  <2>1. /\ queue # <<>> /\ queue' = Tail(queue) /\ Head(queue).type = "clear"
        /\ UNCHANGED <<status, dirty, rev>> /\ Waiting(x)
        /\ \E j \in 2..Len(queue) : queue[j].type = "update" /\ queue[j].id = x
    BY <1>12 DEF TakeClear, Next1, Waiting
  <2>2. PICK j \in 2..Len(queue) : IsUpdate(queue[j], x)
    BY <2>1 DEF IsUpdate
  <2>3. j \in DOMAIN queue
    OBVIOUS
  <2>4. Queued(x) /\ ~IsUpdate(Head(queue), x)
    BY <1>0, <2>1, <2>2, <2>3 DEF OnItsWay, Buffered, Flushed, Stored, NoUpdate, IsUpdate
  <2>5. LastUpdate(queue', x, rev[x])
    BY <2>1, <2>4, TakeFacts DEF Queued
  <2> QED
    BY <2>1, <2>5 DEF OnItsWay, Queued
<1>13. CASE TakeFlush
  <2>1. /\ queue # <<>> /\ queue' = Tail(queue) /\ Head(queue).type = "flush"
        /\ UNCHANGED <<rev, pending, taken, batch, loaded, file, listed>>
        /\ worker = "idle" /\ worker' = "due" /\ Waiting(x)
    BY <1>13 DEF TakeFlush, Next1, Waiting
  <2> QED
    BY <1>0, <2>1, OnTheWayTaken DEF IsUpdate
<1>14. CASE TakeShutdown
  <2>1. /\ queue # <<>> /\ Head(queue).type = "shutdown"
        /\ UNCHANGED <<rev, pending, taken, batch, loaded, file, listed>>
        /\ worker = "idle" /\ worker' \in {"due", "stopped"} /\ Waiting(x)
        /\ queue' = Tail(queue) \/ queue' = queue
    BY <1>14 DEF TakeShutdown, Next1, Waiting
  <2>2. CASE queue' = queue
    BY <1>0, <2>1, <2>2 DEF OnItsWay, Queued, Buffered, Flushed, Stored, Covered, LockFree
  <2>3. CASE queue' = Tail(queue)
    BY <1>0, <2>1, <2>3, OnTheWayTaken DEF IsUpdate
  <2> QED
    BY <2>1, <2>2, <2>3
<1>15. CASE DeadlineFlush
  BY <1>0, <1>15 DEF DeadlineFlush, Waiting, OnItsWay, Queued, Buffered, Flushed, Stored, Covered, LockFree
<1>16. CASE FlushLocks
  <2>1. /\ Waiting(x) /\ worker = "due" /\ UNCHANGED <<rev, queue, file, listed>>
        /\ taken' = pending /\ pending'[x] = NoText /\ batch' = {d \in Docs : pending[d] # NoText}
        /\ taken[x] = NoText
    BY <1>16 DEF FlushLocks, Waiting, Nothing, WorkerShape, LockFree
  <2>2. rev[x] # NoText
    BY Numbers
  <2>3. pending[x] = rev[x] => worker' = "flush" /\ x \in batch'
    BY <1>16, <2>1, <2>2 DEF FlushLocks, Nothing
  <2>4. worker' = "flush" => loaded' = listed
    BY <1>16 DEF FlushLocks
  <2>5. worker' \in {"idle", "flush"}
    BY <1>16 DEF FlushLocks
  <2>6. CASE Queued(x)
    BY <2>1, <2>6 DEF OnItsWay, Queued
  <2>7. CASE Buffered(x)
    BY <2>1, <2>3, <2>7 DEF OnItsWay, Buffered, Flushed, LockFree
  <2>8. CASE Stored(x)
    BY <2>1, <2>4, <2>5, <2>8 DEF OnItsWay, Stored, Covered, LockFree
  <2> QED
    BY <1>0, <2>1, <2>2, <2>6, <2>7, <2>8 DEF OnItsWay, Flushed
<1>17. ASSUME NEW d \in Docs, FlushCheck(d) PROVE OnItsWay(x)'
  <2>1. /\ Waiting(x) /\ worker = "flush" /\ worker' \in {"flush", d} /\ batch' = batch \ {d} /\ d \in batch
        /\ UNCHANGED <<rev, queue, pending, file, listed, loaded>>
        /\ taken' = [taken EXCEPT ![d] = IF d \in discarded THEN NoText ELSE @]
        /\ d \notin discarded => worker' = d
    BY <1>17 DEF FlushCheck, Waiting
  <2>2. x = d => d \notin discarded
    BY <1>17, <2>1 DEF Waiting, HandsOff
  <2>3. taken'[x] = taken[x]
    BY <2>1, <2>2
  <2> QED
    BY <1>0, <2>1, <2>2, <2>3 DEF OnItsWay, Queued, Buffered, Flushed, Stored, Covered, LockFree
<1>18. ASSUME NEW d \in Docs, FlushWrite(d) PROVE OnItsWay(x)'
  <2>1. /\ Waiting(x) /\ worker = d /\ worker' = "flush" /\ loaded' = loaded \union {d}
        /\ UNCHANGED <<rev, queue, pending, taken, listed, batch>>
        /\ file' = [file EXCEPT ![d] = [text |-> taken[d], version |-> disk[d]]]
        /\ d \notin batch /\ taken[d] # NoText
    BY <1>18 DEF FlushWrite, Waiting, WorkerShape
  <2>2. CASE x = d
    <3>1. file'[x] = [text |-> taken[x], version |-> disk[x]] /\ file'[x] # NoText /\ x \in loaded'
      BY <2>1, <2>2, Numbers
    <3>2. file'[x].text = taken[x]
      BY <3>1
    <3> QED
      BY <1>0, <2>1, <2>2, <3>1, <3>2 DEF OnItsWay, Queued, Buffered, Flushed, Stored, LockFree
  <2>3. CASE x # d
    <3>1. file'[x] = file[x]
      BY <2>1, <2>3
    <3> QED
      BY <1>0, <2>1, <2>3, <3>1 DEF OnItsWay, Queued, Buffered, Flushed, Stored, Covered, LockFree
  <2> QED
    BY <2>2, <2>3
<1>19. CASE FlushEnd
  <2>1. /\ Waiting(x) /\ worker = "flush" /\ worker' = "idle" /\ batch = {} /\ listed' = loaded
        /\ UNCHANGED <<rev, queue, pending, file>> /\ taken'[x] = NoText /\ pending[x] = NoText
    BY <1>19 DEF FlushEnd, Waiting, Nothing, WorkerShape, LockFree
  <2>2. rev[x] # NoText
    BY Numbers
  <2> QED
    BY <1>0, <2>1, <2>2 DEF OnItsWay, Queued, Buffered, Flushed, Stored, Covered, LockFree
<1>20. CASE MarkClean
  <2>1. Waiting(x) /\ UNCHANGED <<rev, pending, taken, worker, batch, loaded, file, listed>>
    BY <1>20 DEF MarkClean, Waiting
  <2>2. /\ LastUpdate(queue, x, rev[x]) => LastUpdate(queue', x, rev[x])
        /\ NoUpdate(queue, x) => NoUpdate(queue', x)
    BY <1>20, QuitKeeps
  <2> QED
    BY <1>0, <2>1, <2>2 DEF OnItsWay, Queued, Buffered, Flushed, Stored, Covered, LockFree
<1>21. CASE Down
  BY <1>21 DEF Down, Waiting
<1>22. CASE Start
  <2>1. Waiting(x) /\ Apart(x) /\ UNCHANGED <<file, listed>>
    BY <1>22 DEF Start, Waiting, Apart
  <2> QED
    BY <1>0, <2>1, OnTheWayStill
<1> QED
  BY <1>1, <1>2, <1>3, <1>4, <1>5, <1>6, <1>7, <1>8, <1>9, <1>10, <1>11, <1>12, <1>13, <1>14, <1>15, <1>16,
     <1>17, <1>18, <1>19, <1>20, <1>21, <1>22
     DEF RecoveryNext, WorkerStep, CallStep, UserStep

-----------------------------------------------------------------------------
(* A discarded snapshot does not come back.                                 *)

\* Somebody is yet to take away what the worker still writes of a document.
Undone(d) == op[d] \in {"sent", "removed"} \/ clearing # "idle" \/ HasClear(queue)

Gone(d) ==
    /\ Stopped(queue, d)
    /\ pending[d] # NoText => HasStop(queue, d)
    /\ pending[d] # NoText /\ worker = "due" => d \in discarded \/ HasClear(queue)
    /\ taken[d] # NoText => (d \in batch /\ d \in discarded) \/ Undone(d)
    /\ by[d] = "worker" => Undone(d)
NotBack == \A d \in Docs : Up /\ ~fresh[d] => Gone(d)

\* A document nothing is scheduled for is as it was after a step on another.
LEMMA GoneStill ==
    ASSUME NEW d \in Docs, Gone(d), Undone(d) => Undone(d)',
           queue' = queue, pending'[d] = pending[d], taken'[d] = taken[d],
           worker' = "due" => worker = "due",
           d \in discarded => d \in discarded', d \in batch => d \in batch',
           by'[d] = "worker" => by[d] = "worker"
    PROVE  Gone(d)'
BY DEF Gone

\* A message that is no edit of the document is sent.
LEMMA GoneBehind ==
    ASSUME NEW d \in Docs, Gone(d), queue \in Seq(Messages), NEW m \in Messages, ~IsUpdate(m, d),
           queue' = Append(queue, m), d \in discarded => d \in discarded',
           op'[d] = op[d] \/ op'[d] = "sent", clearing # "idle" => clearing' # "idle",
           pending'[d] = pending[d], taken'[d] = taken[d], by'[d] = by[d], UNCHANGED <<worker, batch>>
    PROVE  Gone(d)'
<1>1. Stopped(queue', d) /\ (HasStop(queue, d) => HasStop(queue', d)) /\ (HasClear(queue) => HasClear(queue'))
  BY SendFacts DEF Gone
<1> QED
  BY <1>1 DEF Gone, Undone

LEMMA NotBackStep ==
    ASSUME RecoveryTypeOK, WorkerShape, HandsOff, SessionShape, NotBack, RecoveryNext
    PROVE  NotBack'
<1> SUFFICES ASSUME NEW x \in Docs, Up', ~fresh'[x] PROVE Gone(x)'
  BY DEF NotBack
<1> USE RecoveryAssumption DEF RecoveryTypeOK
<1>0. Up /\ ~fresh[x] => Gone(x)
  BY DEF NotBack
<1>1. ASSUME NEW d \in Docs,
             \/ Open(d) \/ External(d) \/ SaveWrites(d) \/ Decline(d) \/ DiscardOffered(d) \/ Close(d) \/ MarkSaved(d)
      PROVE  Gone(x)'
  <2>1. /\ Up /\ ~fresh[x] /\ UNCHANGED <<queue, pending, taken, worker, discarded, batch, by, clearing>>
        /\ op[x] \in {"sent", "removed"} => op'[x] = op[x]
    BY <1>1 DEF Open, External, SaveWrites, Decline, DiscardOffered, Close, MarkSaved, Up
  <2> QED
    BY <1>0, <2>1, GoneStill DEF Undone
<1>2. ASSUME NEW d \in Docs, Edit(d) PROVE Gone(x)'
  <2> DEFINE m == [type |-> "update", id |-> d, text |-> rev[d] + 1]
  <2>1. m \in Messages /\ queue' = Append(queue, m)
    BY <1>2, Numbers, MessagesMade DEF Edit, Schedule, Send
  <2>2. /\ x # d /\ Up /\ ~fresh[x]
        /\ UNCHANGED <<discarded, op, clearing, pending, taken, by, worker, batch>>
    BY <1>2 DEF Edit, Schedule, Up
  <2>3. ~IsUpdate(m, x)
    BY <2>2 DEF IsUpdate
  <2> HIDE DEF m
  <2> QED
    BY <1>0, <2>1, <2>2, <2>3, GoneBehind
<1>3. ASSUME NEW d \in Docs, DiscardSends(d) PROVE Gone(x)'
  <2> DEFINE m == [type |-> "discard", id |-> d]
  <2>1. m \in Messages /\ queue' = Append(queue, m) /\ ~IsUpdate(m, x) /\ Stops(m, d)
    BY <1>3, Numbers, MessagesMade DEF DiscardSends, Send, IsUpdate, Stops
  <2>2. /\ Up /\ (x # d => ~fresh[x] /\ op'[x] = op[x]) /\ op'[d] = "sent" /\ d \in discarded'
        /\ discarded \subseteq discarded'
        /\ UNCHANGED <<clearing, pending, taken, by, worker, batch>>
    BY <1>3 DEF DiscardSends, Up
  <2> HIDE DEF m
  <2>3. CASE x # d
    BY <1>0, <2>1, <2>2, <2>3, GoneBehind
  <2>4. CASE x = d
    <3>1. Stopped(queue', x) /\ HasStop(queue', x)
      BY <2>1, <2>4, SendFacts
    <3> QED
      BY <2>2, <2>4, <3>1 DEF Gone, Undone
  <2> QED
    BY <2>3, <2>4
<1>4. ASSUME NEW d \in Docs, DiscardRemoves(d) PROVE Gone(x)'
  <2>1. /\ Up /\ ~fresh[x] /\ UNCHANGED <<queue, pending, taken, worker, discarded, batch, by, clearing>>
        /\ op[x] \in {"sent", "removed"} => op'[x] \in {"sent", "removed"}
    BY <1>4 DEF DiscardRemoves, Up
  <2> QED
    BY <1>0, <2>1, GoneStill DEF Undone
<1>5. ASSUME NEW d \in Docs, DiscardUnlists(d) PROVE Gone(x)'
  <2>1. /\ Up /\ ~fresh[x] /\ UNCHANGED <<queue, pending, taken, worker, discarded, batch, clearing>>
        /\ op' = [op EXCEPT ![d] = "idle"] /\ by' = [by EXCEPT ![d] = "none"] /\ LockFree
    BY <1>5 DEF DiscardUnlists, Up
  <2>2. CASE x # d
    BY <1>0, <2>1, <2>2, GoneStill DEF Undone
  <2>3. CASE x = d
    <3>1. taken[x] = NoText
      BY <2>1 DEF WorkerShape, Nothing
    <3> QED
      BY <1>0, <2>1, <2>3, <3>1 DEF Gone
  <2> QED
    BY <2>2, <2>3
<1>6. CASE SyncLists \/ SyncWrites
  <2>1. /\ Up /\ ~fresh[x] /\ UNCHANGED <<queue, pending, taken, worker, discarded, batch, op, clearing>>
        /\ by'[x] = "worker" => by[x] = "worker"
    BY <1>6 DEF SyncLists, SyncWrites, Up
  <2> QED
    BY <1>0, <2>1, GoneStill DEF Undone
<1>7. CASE ClearSends
  <2> DEFINE m == [type |-> "clear"]
  <2>1. m \in Messages /\ queue' = Append(queue, m) /\ Stops(m, x)
    BY <1>7 DEF ClearSends, Send, Messages, Stops
  <2>2. clearing' = "sent" /\ m.type = "clear"
    BY <1>7 DEF ClearSends
  <2> HIDE DEF m
  <2>3. Stopped(queue', x) /\ HasStop(queue', x) /\ HasClear(queue')
    BY <2>1, <2>2, SendFacts
  <2> QED
    BY <2>2, <2>3 DEF Gone, Undone
<1>8. CASE ClearWipes
  <2>1. /\ Up /\ ~fresh[x] /\ UNCHANGED <<queue, pending, taken, worker, discarded, batch, op>>
        /\ by'[x] = "none" /\ clearing' = "wiped"
    BY <1>8 DEF ClearWipes, Wipe, Up
  <2> QED
    BY <1>0, <2>1, GoneStill DEF Undone
<1>9. CASE ClearResets
  <2>1. /\ Up /\ ~fresh[x] /\ UNCHANGED <<queue, pending, taken, worker, discarded, batch, op>>
        /\ by'[x] = "none" /\ LockFree
    BY <1>9 DEF ClearResets, Up
  <2>2. taken[x] = NoText
    BY <2>1 DEF WorkerShape, Nothing
  <2> QED
    BY <1>0, <2>1, <2>2 DEF Gone
<1>10. CASE TakeUpdate
  <2>1. /\ queue # <<>> /\ queue' = Tail(queue) /\ Head(queue) \in Messages /\ Head(queue).type = "update"
        /\ pending' = [pending EXCEPT ![Head(queue).id] = Head(queue).text]
        /\ UNCHANGED <<discarded, worker, batch, taken, op, clearing, by>> /\ worker = "idle"
        /\ Up /\ ~fresh[x] /\ Head(queue).type # "clear"
    BY <1>10, TakeFacts DEF TakeUpdate, Next1, Up
  <2>2. Head(queue).id \in Docs /\ Gone(x) /\ ~Stops(Head(queue), x)
    BY <1>0, <2>1, MessageFields DEF Stops
  <2>3. Stopped(queue', x) /\ (HasStop(queue, x) => HasStop(queue', x)) /\ (HasClear(queue) => HasClear(queue'))
    BY <2>1, <2>2, TakeFacts DEF Gone
  <2>4. pending'[x] # NoText => HasStop(queue', x)
    <3>1. CASE IsUpdate(Head(queue), x)
      BY <2>1, <2>2, <3>1, TakeFacts DEF Gone
    <3>2. CASE ~IsUpdate(Head(queue), x)
      BY <2>1, <2>2, <2>3, <3>2 DEF Gone, IsUpdate
    <3> QED
      BY <3>1, <3>2
  <2> QED
    BY <2>1, <2>2, <2>3, <2>4 DEF Gone, Undone
<1>11. CASE TakeDiscard
  <2>1. /\ queue # <<>> /\ queue' = Tail(queue) /\ Head(queue) \in Messages /\ Head(queue).type = "discard"
        /\ pending' = [pending EXCEPT ![Head(queue).id] = NoText]
        /\ discarded' = discarded \union {Head(queue).id}
        /\ UNCHANGED <<worker, batch, taken, op, clearing, by>> /\ worker = "idle"
        /\ Up /\ ~fresh[x] /\ Head(queue).type # "clear"
    BY <1>11, TakeFacts DEF TakeDiscard, Next1, Up
  <2>2. Head(queue).id \in Docs /\ Gone(x)
    BY <1>0, <2>1, MessageFields
  <2>3. /\ Stopped(queue', x) /\ (HasClear(queue) => HasClear(queue'))
        /\ HasStop(queue, x) => HasStop(queue', x) \/ Head(queue).id = x
    BY <2>1, <2>2, TakeFacts DEF Gone, Stops
  <2> QED
    BY <2>1, <2>2, <2>3 DEF Gone, Undone
<1>12. CASE TakeClear
  <2>1. /\ queue # <<>> /\ queue' = Tail(queue) /\ worker = "idle"
        /\ pending'[x] = NoText /\ by'[x] = "none" /\ UNCHANGED <<taken, worker>>
    BY <1>12 DEF TakeClear, Next1, Wipe, Nothing
  <2>2. taken[x] = NoText
    BY <2>1 DEF WorkerShape, LockFree, Nothing
  <2>3. Stopped(queue', x)
    <3>1. ~fresh[x] \/ ~\E j \in 2..Len(queue) : queue[j].type = "update" /\ queue[j].id = x
      BY <1>12 DEF TakeClear
    <3>2. CASE ~fresh[x]
      <4>1. Up
        BY <1>12 DEF TakeClear, Up
      <4> QED
        BY <1>0, <2>1, <3>2, <4>1, TakeFacts DEF Gone
    <3>3. CASE ~\E j \in 2..Len(queue) : queue[j].type = "update" /\ queue[j].id = x
      <4>1. /\ DOMAIN queue' = 1..(Len(queue) - 1)
            /\ \A k \in 1..(Len(queue) - 1) : k + 1 \in 2..Len(queue) /\ queue'[k] = queue[k + 1]
        BY <2>1, HeadTailProperties
      <4>2. ASSUME NEW k \in 1..(Len(queue) - 1) PROVE ~IsUpdate(queue'[k], x)
        <5>1. k + 1 \in 2..Len(queue) /\ queue'[k] = queue[k + 1]
          BY <4>1
        <5>2. ~(queue[k + 1].type = "update" /\ queue[k + 1].id = x)
          BY <3>3, <5>1
        <5> QED
          BY <5>1, <5>2 DEF IsUpdate
      <4>3. \A k \in DOMAIN queue' : ~IsUpdate(queue'[k], x)
        BY <4>1, <4>2
      <4> QED
        BY <4>3 DEF Stopped
    <3> QED
      BY <3>1, <3>2, <3>3
  <2> QED
    BY <2>1, <2>2, <2>3 DEF Gone
<1>13. CASE TakeFlush
  <2>1. Up /\ queue # <<>> /\ Head(queue).type = "flush"
    BY <1>13 DEF TakeFlush, Next1, Up
  <2> QED
    BY <2>1, TakeFacts DEF SessionShape
<1>14. CASE TakeShutdown
  <2>1. Up /\ queue # <<>> /\ Head(queue).type = "shutdown"
    BY <1>14 DEF TakeShutdown, Next1, Up
  <2> QED
    BY <2>1, TakeFacts DEF SessionShape
<1>15. CASE DeadlineFlush
  <2>1. Up /\ ~fresh[x] /\ queue = <<>> /\ UNCHANGED <<queue, pending, taken, discarded, batch, by, op, clearing>>
    BY <1>15 DEF DeadlineFlush, Up
  <2>2. ~HasStop(queue, x)
    BY <2>1 DEF HasStop
  <2> QED
    BY <1>0, <2>1, <2>2 DEF Gone, Undone
<1>16. CASE FlushLocks
  <2>1. /\ Up /\ ~fresh[x] /\ worker = "due" /\ worker' # "due" /\ UNCHANGED <<queue, discarded, by, op, clearing>>
        /\ pending'[x] = NoText /\ taken' = pending /\ batch' = {d \in Docs : pending[d] # NoText}
    BY <1>16 DEF FlushLocks, Up, Nothing
  <2> QED
    BY <1>0, <2>1 DEF Gone, Undone
<1>17. ASSUME NEW d \in Docs, FlushCheck(d) PROVE Gone(x)'
  <2>1. /\ Up /\ ~fresh[x] /\ UNCHANGED <<queue, pending, by, op, clearing>> /\ worker' \in {"flush", d}
        /\ batch' = batch \ {d} /\ discarded' = discarded \ {d} /\ worker = "flush"
        /\ taken' = [taken EXCEPT ![d] = IF d \in discarded THEN NoText ELSE @]
    BY <1>17 DEF FlushCheck, Up
  <2>2. pending[x] = NoText
    BY <2>1 DEF WorkerShape, LockFree, Nothing
  <2> QED
    BY <1>0, <2>1, <2>2 DEF Gone, Undone
<1>18. ASSUME NEW d \in Docs, FlushWrite(d) PROVE Gone(x)'
  <2>1. /\ Up /\ ~fresh[x] /\ worker' = "flush"
        /\ UNCHANGED <<queue, pending, taken, discarded, batch, by, op, clearing>>
    BY <1>18 DEF FlushWrite, Up
  <2> QED
    BY <1>0, <2>1, GoneStill DEF Undone
<1>19. CASE FlushEnd
  <2>1. /\ Up /\ ~fresh[x] /\ worker' = "idle" /\ batch = {} /\ taken'[x] = NoText
        /\ UNCHANGED <<queue, pending, op, clearing>>
        /\ by'[x] = "worker" => taken[x] # NoText \/ by[x] = "worker"
    BY <1>19 DEF FlushEnd, Up, Nothing
  <2> QED
    BY <1>0, <2>1 DEF Gone, Undone
<1>20. CASE MarkClean \/ Down
  BY <1>20 DEF MarkClean, Down, Up
<1>21. CASE Start
  BY <1>21 DEF Start, SessionShape
<1> QED
  BY <1>1, <1>2, <1>3, <1>4, <1>5, <1>6, <1>7, <1>8, <1>9, <1>10, <1>11, <1>12, <1>13, <1>14, <1>15, <1>16,
     <1>17, <1>18, <1>19, <1>20, <1>21
     DEF RecoveryNext, WorkerStep, CallStep, UserStep

-----------------------------------------------------------------------------
(* The theorems.                                                            *)

RecoveryInv == RecoveryTypeOK /\ WorkerShape /\ HandsOff /\ SessionShape /\ Tracked /\ NotBack

LEMMA RecoveryStarts == RecoveryInit => RecoveryInv
<1> SUFFICES ASSUME RecoveryInit PROVE RecoveryInv
  OBVIOUS
<1>1. RecoveryTypeOK
  BY InitType
<1>2. WorkerShape
  BY RecoveryAssumption DEF RecoveryInit, WorkerShape, LockFree, Nothing
<1>3. HandsOff
  BY DEF RecoveryInit, HandsOff
<1>4. SessionShape
  BY DEF RecoveryInit, SessionShape, Up, InSession
<1>5. Tracked
  BY DEF RecoveryInit, Tracked, Waiting
<1>6. NotBack
  BY DEF RecoveryInit, NotBack, Gone, Stopped, Nothing
<1> QED
  BY <1>1, <1>2, <1>3, <1>4, <1>5, <1>6 DEF RecoveryInv

LEMMA RecoveryKept == RecoveryInv /\ [RecoveryNext]_recoveryVars => RecoveryInv'
<1>1. CASE RecoveryInv /\ RecoveryNext
  BY <1>1, TypeStep, WorkerStarts, HandsStep, SessionStep, TrackedStep, NotBackStep DEF RecoveryInv
<1>2. CASE RecoveryInv /\ UNCHANGED recoveryVars
  BY <1>2 DEF recoveryVars, RecoveryInv, RecoveryTypeOK, WorkerShape, HandsOff, SessionShape, Tracked, NotBack,
              LockFree, Up, Recoverable, Waiting, OnItsWay, Queued, Buffered, Flushed, Stored, Covered, Gone, Undone
<1> QED
  BY <1>1, <1>2

\* The state of crash recovery keeps its types and the five parts of the
\* inductive invariant, whatever crashes.
THEOREM RecoveryHolds == RecoverySpec => []RecoveryInv
BY RecoveryStarts, RecoveryKept, PTL DEF RecoverySpec

\* At rest, a dirty document whose last edit nothing was in the way of has a
\* listed snapshot of its last text, and nothing the worker wrote is back after
\* it was discarded (schedule_snapshot, discard_snapshot, flush_pending).
THEOREM SnapshotsDoFollow == RecoverySpec => []SnapshotsFollow
<1>1. RecoveryInv => SnapshotsFollow
  <2> SUFFICES ASSUME RecoveryInv PROVE RestingIsCovered /\ WorkerNeverResurrects
    BY DEF SnapshotsFollow
  <2> USE DEF RecoveryInv
  <2>1. ASSUME NEW d \in OpenDocs, AtRest(d), dirty[d], ~forgiven[d] PROVE Covered(d)
    <3>1. d \in Docs /\ queue = <<>> /\ pending[d] = NoText /\ LockFree /\ OnItsWay(d)
      BY <2>1 DEF OpenDocs, AtRest, Nothing, Tracked, Waiting
    <3>2. rev[d] # NoText
      BY <3>1, Numbers DEF RecoveryTypeOK
    <3> QED
      BY <3>1, <3>2 DEF OnItsWay, Queued, LastUpdate, Buffered, Flushed, Stored
  <2>2. ASSUME NEW d \in Docs, Up, AtRest(d), by[d] = "worker" PROVE fresh[d]
    BY <2>2 DEF AtRest, NotBack, Gone, Undone, HasClear
  <2> QED
    BY <2>1, <2>2 DEF RestingIsCovered, WorkerNeverResurrects
<1> QED
  BY <1>1, RecoveryHolds, PTL

\* What was at rest on disk when the program crashed is offered at the next
\* start (compute_recovery_payload, had_clean_shutdown).
THEOREM CrashIsOffered == RecoverySpec => []OwedIsOffered
<1>1. RecoveryInv => OwedIsOffered
  BY DEF RecoveryInv, SessionShape, OwedIsOffered, Up
<1> QED
  BY <1>1, RecoveryHolds, PTL
=============================================================================
