----------------------------- MODULE KafkaGroup -----------------------------
(***************************************************************************)
(* The Kafka adapter on one topic (typescript/src/adapters/kafka.ts): the  *)
(* lazily connected client, publishing to partitions, and subscriptions as *)
(* members of consumer groups that settle by committing or seeking.        *)
(*                                                                         *)
(* External: kafkajs (one handler at a time per consumer, seeks applied at *)
(* the next fetch and kept over a rejoin) and the group coordinator, which *)
(* waits for members to rejoin and fences those still in a handler: their  *)
(* commits are refused until they have rejoined.                           *)
(***************************************************************************)
EXTENDS Integers, Sequences, FiniteSets, SequencesExt

CONSTANTS
  Calls,          \* connect() and connectBus() calls
  Msgs,           \* publish(), sendNow() and schedule() calls, one record each
  Keyed,          \* the messages published with a groupId, the same for all
  Members,        \* subscribe() and consume() calls
  Groups,         \* consumer groups
  None,           \* nobody, nothing
  NumPartitions,  \* this.partitions
  Setups          \* which member is in which group, and what may happen

Partitions == 1..NumPartitions

(* group: subscriberId of a member, or its random group; sched: members    *)
(* that came by consume(); late: handlers may return before they settle;   *)
(* calls, msgs: the connect() and publish() calls that are made; faults:   *)
(* what may happen, and limit, a bound: how often, taken together.         *)
Disturbances == {"connect", "send", "kick", "crash", "nack", "leave", "dispose"}

Setup == [group: [Members -> Groups], sched: SUBSET Members, late: BOOLEAN,
          calls: SUBSET Calls, msgs: SUBSET Msgs,
          faults: SUBSET Disturbances, limit: Nat]

\* What a handler is called with: who has it, and the record's place.
Record == [sub: Members, part: Partitions, off: Nat]

ASSUME KafkaAssumption ==
  /\ Keyed \subseteq Msgs /\ Setups \subseteq Setup
  /\ NumPartitions \in Nat \ {0}
  /\ Msgs \intersect (Calls \union Members) = {}
  /\ None \notin Nat /\ None \notin Record

VARIABLES
  setup,     \* a member of Setups, never changes
  producer,  \* this.producer: not created, created, or connected
  admin,     \* this.admin
  pc,        \* where each call is
  topics,    \* the topic is in this.topics
  layout,    \* broker: number of partitions, 0 while the topic does not exist
  log,       \* broker: the records of each partition
  committed, \* broker: next offset to read, per group and partition
  owner,     \* broker: assignment of the group's current generation
  fenced,    \* members that are not of the current generation
  position,  \* next offset each member fetches
  seek,      \* pending seek of each member, None if there is none
  handling,  \* the record each member's handler is called with
  incoming,  \* IncomingMessage objects not settled yet
  settled,   \* history: offsets acked or given up, per group and partition
  seen,      \* history: messages of each group in the order of first delivery
  sent,      \* history: messages in the order they were first appended
  disposed,  \* history: asyncDispose has been called
  faults     \* history: faults so far

clientVars == <<producer, admin, topics, disposed>>
brokerVars == <<layout, log, sent>>
groupVars == <<committed, owner, fenced, position>>
handlerVars == <<seek, handling, incoming, settled, seen>>
vars == <<setup, pc, clientVars, brokerVars, groupVars, handlerVars, faults>>

Group(mb) == setup.group[mb]
Grid(v) == [p \in Partitions |-> v]

Init ==
  /\ setup \in Setups
  /\ producer = "none" /\ admin = "none" /\ topics = FALSE
  /\ pc = [c \in Calls \union Msgs \union Members |-> "idle"]
  /\ layout = 0 /\ log = Grid(<<>>) /\ sent = <<>>
  /\ committed = [g \in Groups |-> Grid(0)]
  /\ owner = [g \in Groups |-> Grid(None)]
  /\ fenced = Members
  /\ position = [mb \in Members |-> Grid(0)]
  /\ seek = [mb \in Members |-> Grid(None)]
  /\ handling = [mb \in Members |-> None] /\ incoming = {}
  /\ settled = [g \in Groups |-> Grid({})]
  /\ seen = [g \in Groups |-> <<>>]
  /\ disposed = FALSE /\ faults = 0

Goto(c, to) == pc' = [pc EXCEPT ![c] = to]
Fault(f) == f \in setup.faults /\ faults < setup.limit /\ faults' = faults + 1
-----------------------------------------------------------------------------
(* ensureClient(), from await to await.  The fields are set before the     *)
(* connect they stand for: other calls skip what is under way or failed.   *)

EnsureAdmin(c) ==
  IF admin = "none" THEN admin' = "off" /\ Goto(c, "admin")
                    ELSE UNCHANGED admin /\ Goto(c, "done")

EnsureClient(c) ==
  /\ pc[c] = "idle"
  /\ IF producer = "none"
     THEN producer' = "off" /\ Goto(c, "producer") /\ UNCHANGED admin
     ELSE EnsureAdmin(c) /\ UNCHANGED producer
  /\ UNCHANGED <<setup, topics, disposed, brokerVars, groupVars, handlerVars, faults>>

\* Unless asyncDispose came first, the connect succeeds.
ClientConnects(c) ==
  /\ \/ pc[c] = "producer" /\ producer' = "on" /\ EnsureAdmin(c)
     \/ pc[c] = "admin" /\ admin' = "on" /\ Goto(c, "done") /\ UNCHANGED producer
  /\ UNCHANGED <<setup, topics, disposed, brokerVars, groupVars, handlerVars, faults>>

ConnectFails(c) ==
  /\ pc[c] \in {"producer", "admin"}
  /\ Fault("connect")
  /\ Goto(c, "failed")
  /\ UNCHANGED <<setup, clientVars, brokerVars, groupVars, handlerVars>>

\* The users of the adapter wait for a connect() before they call anything.
Connected == \E c \in Calls : pc[c] = "done"
-----------------------------------------------------------------------------
(* Publishing                                                              *)

\* Both ways into the topic: publish() and subscribe() come by here,
\* sendNow() and schedule() too, consume() does not.
EnsureTopic(c, next) == Goto(c, IF topics THEN next ELSE "create")

Publish(m) ==
  /\ pc[m] = "idle" /\ Connected
  /\ EnsureTopic(m, "send")
  /\ UNCHANGED <<setup, clientVars, brokerVars, groupVars, handlerVars, faults>>

\* createTopics() of a topic that exists resolves and changes nothing.
CreateTopic(c) ==
  /\ pc[c] = "create"
  /\ \/ /\ topics' = TRUE
        /\ layout' = IF layout = 0 THEN NumPartitions ELSE layout
        /\ Goto(c, IF c \in Msgs THEN "send" ELSE "connect")
     \/ admin = "off" /\ Goto(c, "failed") /\ UNCHANGED <<topics, layout>>
  /\ UNCHANGED <<setup, producer, admin, disposed, log, sent, groupVars, handlerVars,
                 faults>>

\* Mutant: the record is sent without its key.
AnyPartition(m) == 1..layout

\* The groupId is the record's key, and a key has its partition.
PartitionsFor(m) == IF m \in Keyed THEN {1} ELSE 1..layout

AppendRecord(m) ==
  /\ \E p \in PartitionsFor(m) : log' = [log EXCEPT ![p] = Append(@, m)]
  /\ sent' = IF Contains(sent, m) THEN sent ELSE Append(sent, m)

\* Without a connection the send fails.  With one it may fail, too; or the
\* broker's answer is lost, and kafkajs appends the record once more.
Send(m) ==
  /\ pc[m] = "send"
  /\ \/ producer = "on" /\ AppendRecord(m) /\ Goto(m, "done") /\ UNCHANGED faults
     \/ producer = "on" /\ AppendRecord(m) /\ Fault("send") /\ UNCHANGED pc
     \/ /\ IF producer = "on" THEN Fault("send") ELSE producer = "off" /\ UNCHANGED faults
        /\ Goto(m, "failed") /\ UNCHANGED <<log, sent>>
  /\ UNCHANGED <<setup, clientVars, layout, groupVars, handlerVars>>
-----------------------------------------------------------------------------
(* subscribe(), consume() and startConsumer()                              *)

Subscribe(mb) ==
  /\ pc[mb] = "idle" /\ Connected
  /\ IF mb \in setup.sched THEN Goto(mb, "connect") ELSE EnsureTopic(mb, "connect")
  /\ UNCHANGED <<setup, clientVars, brokerVars, groupVars, handlerVars, faults>>

\* consumer.connect()
StartConsumer(mb) ==
  /\ pc[mb] = "connect"
  /\ \/ Goto(mb, "subscribe") /\ UNCHANGED faults
     \/ Goto(mb, "failed") /\ Fault("connect")
  /\ UNCHANGED <<setup, clientVars, brokerVars, groupVars, handlerVars>>

\* consumer.subscribe(), then run(): asking for a topic creates it, with one
\* partition.  A run() that fails leaves the consumer as a crash does.
RunConsumer(mb) ==
  /\ pc[mb] = "subscribe"
  /\ \/ /\ layout' = IF layout = 0 THEN 1 ELSE layout
        /\ Goto(mb, "running") /\ UNCHANGED faults
     \/ Goto(mb, "failed") /\ Fault("connect") /\ UNCHANGED layout
  /\ UNCHANGED <<setup, clientVars, log, sent, groupVars, handlerVars>>

Unsubscribe(mb) ==
  /\ pc[mb] = "running" /\ Fault("leave")
  /\ Goto(mb, "closing")
  /\ UNCHANGED <<setup, clientVars, brokerVars, groupVars, handlerVars>>

\* disconnect() waits for the handler; what is settled later throws.
Disconnect(mb) ==
  /\ pc[mb] = "closing" /\ handling[mb] = None
  /\ Goto(mb, "gone")
  /\ incoming' = {r \in incoming : r.sub # mb}
  /\ UNCHANGED <<setup, clientVars, brokerVars, groupVars, seek, handling, settled,
                 seen, faults>>

\* Only the consumers that startConsumer() has pushed are disconnected.
Dispose ==
  /\ Connected /\ ~disposed /\ disposed' = TRUE
  /\ Fault("dispose")
  /\ pc' = [c \in DOMAIN pc |-> IF c \in Members /\ pc[c] = "running"
                                THEN "closing" ELSE pc[c]]
  /\ UNCHANGED <<setup, producer, admin, topics, brokerVars, groupVars, handlerVars>>

\* The fields stay set: nothing connects the client again.
DisposeEnd ==
  /\ disposed /\ "on" \in {producer, admin}
  /\ \A mb \in Members : pc[mb] # "closing"
  /\ producer' = IF producer = "on" THEN "off" ELSE producer
  /\ admin' = IF admin = "on" THEN "off" ELSE admin
  /\ UNCHANGED <<setup, pc, topics, disposed, brokerVars, groupVars, handlerVars, faults>>
-----------------------------------------------------------------------------
(* The group: external                                                     *)

\* Somebody wants in, or the assignment names a member that is gone.
Unbalanced(g) ==
  \/ \E mb \in fenced : Group(mb) = g /\ pc[mb] = "running" /\ handling[mb] = None
  \/ \E p \in Partitions : owner[g][p] # None /\ pc[owner[g][p]] \in {"gone", "dead"}

\* Members in a handler are waited for, until a timeout.
Rebalance(g) ==
  LET ready == {mb \in Members : Group(mb) = g /\ pc[mb] = "running" /\ handling[mb] = None}
      mine == {mb \in Members : Group(mb) = g}
      awaited == {mb \in mine \ (fenced \union ready) : pc[mb] \in {"running", "closing"}}
  IN /\ IF Unbalanced(g) /\ awaited = {} THEN UNCHANGED faults ELSE Fault("kick")
     /\ ready # {}
     /\ \E assign \in [1..layout -> ready] :
          owner' = [owner EXCEPT ![g] = [p \in Partitions |->
                      IF p <= layout THEN assign[p] ELSE None]]
     /\ fenced' = (fenced \ ready) \union (mine \ ready)
     /\ position' = [mb \in Members |-> IF mb \in ready THEN committed[g] ELSE position[mb]]
     /\ UNCHANGED <<setup, pc, clientVars, brokerVars, committed, handlerVars>>

Crash(mb) ==
  /\ pc[mb] = "running"
  /\ Fault("crash")
  /\ Goto(mb, "dead")
  /\ handling' = [handling EXCEPT ![mb] = None]
  /\ incoming' = {r \in incoming : r.sub # mb}
  /\ UNCHANGED <<setup, clientVars, brokerVars, groupVars, seek, settled, seen>>
-----------------------------------------------------------------------------
(* Handlers and settlement                                                 *)

\* eachMessage for the next record, which a pending seek decides.
Poll(mb, p) ==
  LET g == Group(mb)
      off == IF seek[mb][p] = None THEN position[mb][p] ELSE seek[mb][p]
      r == [sub |-> mb, part |-> p, off |-> off]
  IN /\ pc[mb] = "running" /\ mb \notin fenced /\ owner[g][p] = mb
     /\ handling[mb] = None /\ off < Len(log[p])
     /\ handling' = [handling EXCEPT ![mb] = r]
     /\ incoming' = incoming \union {r}
     /\ position' = [position EXCEPT ![mb][p] = off + 1]
     /\ seek' = [seek EXCEPT ![mb][p] = None]
     /\ seen' = IF Contains(seen[g], log[p][off + 1]) THEN seen
                ELSE [seen EXCEPT ![g] = Append(@, log[p][off + 1])]
     /\ UNCHANGED <<setup, pc, clientVars, brokerVars, committed, owner, fenced,
                    settled, faults>>

\* Mutant: nack(true) leaves the position after the record.
SeekNowhere(r) == UNCHANGED seek

\* nack(true) reads the record again.
SeekBack(r) == seek' = [seek EXCEPT ![r.sub][r.part] = r.off]

\* Commit the offset after the record; refused from an old generation.
Commit(r) ==
  LET g == Group(r.sub) IN
  /\ committed' = IF r.sub \in fenced THEN committed
                  ELSE [committed EXCEPT ![g][r.part] = r.off + 1]
  /\ settled' = [settled EXCEPT ![g][r.part] = @ \union {r.off}]

\* ack() and nack(false) of a handler of subscribe(); consume() commits when
\* the handler is back.
Ack(r) ==
  /\ r.sub \in setup.sched => handling[r.sub] = r
  /\ Commit(r)
  /\ incoming' = incoming \ {r}
  /\ UNCHANGED <<setup, pc, clientVars, brokerVars, owner, fenced, position, seek,
                 handling, seen, faults>>

Nacking(r) ==
  /\ Fault("nack")
  /\ SeekBack(r)
  /\ incoming' = incoming \ {r}

Nack(r) ==
  /\ r.sub \notin setup.sched
  /\ Nacking(r)
  /\ UNCHANGED <<setup, pc, clientVars, brokerVars, groupVars, handling, settled, seen>>

\* Mutant: the exception is contained, the message is not nacked.
ThrowSwallowed(mb) ==
  /\ handling[mb] \in incoming
  /\ Fault("nack")
  /\ handling' = [handling EXCEPT ![mb] = None]
  /\ incoming' = incoming \ {handling[mb]}
  /\ UNCHANGED <<setup, pc, clientVars, brokerVars, groupVars, seek, settled, seen>>

\* A handler that throws has its message nacked; one of consume() stops the
\* fetch loop, which starts again at the record.
Throw(mb) ==
  /\ handling[mb] \in incoming
  /\ Nacking(handling[mb])
  /\ handling' = [handling EXCEPT ![mb] = None]
  /\ UNCHANGED <<setup, pc, clientVars, brokerVars, groupVars, settled, seen>>

Return(mb) ==
  /\ handling[mb] # None
  /\ (setup.late /\ mb \notin setup.sched) \/ handling[mb] \notin incoming
  /\ handling' = [handling EXCEPT ![mb] = None]
  /\ UNCHANGED <<setup, pc, clientVars, brokerVars, groupVars, seek, incoming, settled,
                 seen, faults>>
-----------------------------------------------------------------------------
Next ==
  \/ \E c \in setup.calls : EnsureClient(c) \/ ClientConnects(c) \/ ConnectFails(c)
  \/ \E c \in Msgs \union Members : CreateTopic(c)
  \/ \E m \in setup.msgs : Publish(m) \/ Send(m)
  \/ \E mb \in Members :
       \/ Subscribe(mb) \/ StartConsumer(mb) \/ RunConsumer(mb) \/ Unsubscribe(mb)
       \/ Disconnect(mb) \/ Crash(mb) \/ Throw(mb) \/ Return(mb)
       \/ \E p \in Partitions : Poll(mb, p)
  \/ \E g \in Groups : Rebalance(g)
  \/ \E r \in incoming : Ack(r) \/ Nack(r)
  \/ Dispose \/ DisposeEnd

(* The coordinator completes the rebalances it owes, fetch loops fetch,    *)
(* and a handler settles what it was given and returns.  Nobody has to     *)
(* publish, subscribe, leave or fail.                                      *)
Fairness ==
  /\ \A g \in Groups : WF_vars(Rebalance(g) /\ UNCHANGED faults)
  /\ \A mb \in Members :
       /\ WF_vars(StartConsumer(mb)) /\ WF_vars(RunConsumer(mb))
       /\ WF_vars(Disconnect(mb)) /\ WF_vars(Return(mb))
       /\ WF_vars(handling[mb] \in incoming /\ Ack(handling[mb]))
       /\ \A p \in Partitions : WF_vars(Poll(mb, p))

Spec == Init /\ [][Next]_vars
FairSpec == Spec /\ Fairness
-----------------------------------------------------------------------------
(* Properties                                                              *)

(* Committing an offset acknowledges every earlier record of the partition *)
(* (commit): whatever rebalances, crashes, refused commits and seeks come  *)
(* in between, a group has been given each of those records, and has       *)
(* settled each of them if handlers settle before they return.             *)
NothingSkipped ==
  \A g \in Groups, p \in Partitions : \A o \in 0..(committed[g][p] - 1) :
    /\ Contains(seen[g], log[p][o + 1])
    /\ ~setup.late => o \in settled[g][p]

Before(s, a, b) == \E i, j \in DOMAIN s : i < j /\ s[i] = a /\ s[j] = b

(* Messages published with the same groupId reach the handlers of a group  *)
(* for the first time in the order they were sent, whichever member gets   *)
(* them (publish, subscribe).                                              *)
GroupOrder ==
  \A m, n \in Keyed, g \in Groups :
    Before(sent, m, n) /\ Contains(seen[g], n) => Before(seen[g], m, n)

(* A group in which some member keeps running settles every record of the  *)
(* topic, also those of members that crashed, left or were fenced with the *)
(* record in hand, if handlers settle before they return.                  *)
EventuallySettled ==
  \A g \in Groups :
    (~setup.late /\ \E mb \in Members : Group(mb) = g /\ pc[mb] = "running")
      ~> \/ \A p \in Partitions : settled[g][p] = 0..(Len(log[p]) - 1)
         \/ \A mb \in Members : Group(mb) = g => pc[mb] # "running"
=============================================================================
