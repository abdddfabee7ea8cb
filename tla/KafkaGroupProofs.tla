-------------------------- MODULE KafkaGroupProofs --------------------------
(***************************************************************************)
(* What the Kafka adapter guarantees for any number of messages, members,  *)
(* groups, partitions and disturbances.                                    *)
(***************************************************************************)
EXTENDS KafkaGroup, ArrayLemmas

Places == {"idle", "producer", "admin", "done", "failed", "create", "send", "connect",
           "subscribe", "running", "closing", "gone", "dead"}

(* The values the state of the client and of the groups takes.             *)
Typed ==
  /\ setup \in Setup
  /\ pc \in [Calls \union Msgs \union Members -> Places]
  /\ layout \in 0 .. NumPartitions
  /\ log \in [Partitions -> Seq(Msgs)] /\ sent \in Seq(Msgs)
  /\ committed \in [Groups -> [Partitions -> Nat]]
  /\ position \in [Members -> [Partitions -> Nat]]
  /\ seek \in [Members -> [Partitions -> Nat \union {None}]]
  /\ handling \in [Members -> Record \union {None}]
  /\ \A mb \in Members : handling[mb] # None => handling[mb].sub = mb
  /\ incoming \subseteq Record
  /\ settled \in [Groups -> [Partitions -> SUBSET Nat]]
  /\ seen \in [Groups -> Seq(Msgs)]

-----------------------------------------------------------------------------
(* Types                                                                   *)

(* An assignment to one cell of a table.                                   *)
LEMMA CellExcept ==
  ASSUME NEW A, NEW B, NEW V, NEW f \in [A -> [B -> V]], NEW a \in A, NEW b \in B, NEW v \in V
  PROVE  LET h == [f EXCEPT ![a][b] = v] IN
         /\ h \in [A -> [B -> V]]
         /\ \A x \in A, y \in B : h[x][y] = IF x = a /\ y = b THEN v ELSE f[x][y]
OBVIOUS

(* A call only moves on to a named place, and only the call that moves.    *)
LEMMA GotoType ==
  ASSUME Typed, NEW c \in Calls \union Msgs \union Members, NEW to \in Places, Goto(c, to)
  PROVE  /\ pc' \in [Calls \union Msgs \union Members -> Places]
         /\ \A d \in Calls \union Msgs \union Members : pc'[d] = IF d = c THEN to ELSE pc[d]
BY DEF Typed, Goto

(* The group of a member is a group.                                       *)
LEMMA GroupType == ASSUME Typed, NEW mb \in Members PROVE Group(mb) \in Groups
BY DEF Typed, Setup, Group

(* The parts of a record.                                                  *)
LEMMA RecordParts ==
  ASSUME NEW r \in Record
  PROVE  r.sub \in Members /\ r.part \in Partitions /\ r.off \in Nat /\ r # None
BY KafkaAssumption DEF Record

(* Everything but the calls, the topic and the client.                     *)
readVars == <<committed, position, seek, handling, incoming, settled, seen>>

(* A step of a call: it may create the topic, and start or stop a consumer *)
(* that is not dead.                                                       *)
Calling ==
  /\ UNCHANGED <<setup, log, sent, readVars>>
  /\ pc' \in [Calls \union Msgs \union Members -> Places]
  /\ layout' \in 0 .. NumPartitions
  /\ \A mb \in Members : pc'[mb] = "dead" <=> pc[mb] = "dead"

(* One call moves.                                                         *)
LEMMA CallingMove ==
  ASSUME Typed, NEW c \in Calls \union Msgs \union Members, NEW to \in Places \ {"dead"},
         Goto(c, to), pc[c] # "dead", UNCHANGED <<setup, log, sent, readVars>>,
         layout' \in 0 .. NumPartitions
  PROVE  Calling
<1>1. /\ pc' \in [Calls \union Msgs \union Members -> Places]
      /\ \A d \in Calls \union Msgs \union Members : pc'[d] = IF d = c THEN to ELSE pc[d]
  BY GotoType
<1>2. \A mb \in Members : pc'[mb] = "dead" <=> pc[mb] = "dead"
  BY <1>1
<1> QED BY <1>1, <1>2 DEF Calling

(* What a step may be.                                                     *)
Stepping ==
  \/ \E m \in Msgs : Send(m)
  \/ \E mb \in Members :
       \/ Disconnect(mb) \/ Crash(mb) \/ Throw(mb) \/ Return(mb)
       \/ \E p \in Partitions : Poll(mb, p)
  \/ \E g \in Groups : Rebalance(g)
  \/ \E r \in incoming : Ack(r) \/ Nack(r)
  \/ Calling

(* Every step is one of those.                                             *)
LEMMA StepCases == Typed /\ [Next]_vars => Stepping
<1> SUFFICES ASSUME Typed, [Next]_vars PROVE Stepping
  OBVIOUS
<1> USE DEF readVars
<1>0. layout \in 0 .. NumPartitions /\ 1 \in 0 .. NumPartitions /\ NumPartitions \in 0 .. NumPartitions
  BY KafkaAssumption DEF Typed
<1>s. setup.calls \subseteq Calls /\ setup.msgs \subseteq Msgs
  BY DEF Typed, Setup
<1>1. ASSUME NEW c \in setup.calls, EnsureClient(c) \/ ClientConnects(c) \/ ConnectFails(c) PROVE Calling
  <2>1. /\ UNCHANGED <<setup, layout, log, sent, readVars>>
        /\ pc[c] \in {"idle", "producer", "admin"}
    BY <1>1 DEF EnsureClient, ClientConnects, ConnectFails, brokerVars, groupVars, handlerVars
  <2>2. \E to \in Places \ {"dead"} : Goto(c, to)
    BY <1>1 DEF EnsureClient, ClientConnects, ConnectFails, EnsureAdmin, Places
  <2> QED BY <1>0, <1>s, <2>1, <2>2, CallingMove
<1>2. ASSUME NEW c \in Msgs \union Members, CreateTopic(c) PROVE Calling
  <2>1. UNCHANGED <<setup, log, sent, readVars>> /\ pc[c] = "create"
    BY <1>2 DEF CreateTopic, groupVars, handlerVars
  <2>2. \E to \in Places \ {"dead"} : Goto(c, to)
    BY <1>2 DEF CreateTopic, Places
  <2>3. layout' \in 0 .. NumPartitions
    BY <1>0, <1>2 DEF CreateTopic
  <2> QED BY <2>1, <2>2, <2>3, CallingMove
<1>3. ASSUME NEW m \in setup.msgs, Publish(m) PROVE Calling
  <2>1. UNCHANGED <<setup, layout, log, sent, readVars>> /\ pc[m] = "idle"
    BY <1>3 DEF Publish, brokerVars, groupVars, handlerVars
  <2>2. \E to \in Places \ {"dead"} : Goto(m, to)
    BY <1>3 DEF Publish, EnsureTopic, Places
  <2> QED BY <1>0, <1>s, <2>1, <2>2, CallingMove
<1>4. ASSUME NEW mb \in Members, Subscribe(mb) \/ StartConsumer(mb) \/ RunConsumer(mb) \/ Unsubscribe(mb) PROVE Calling
  <2>1. /\ UNCHANGED <<setup, log, sent, readVars>>
        /\ pc[mb] \in {"idle", "connect", "subscribe", "running"}
    BY <1>4 DEF Subscribe, StartConsumer, RunConsumer, Unsubscribe, brokerVars, groupVars, handlerVars
  <2>2. \E to \in Places \ {"dead"} : Goto(mb, to)
    BY <1>4 DEF Subscribe, StartConsumer, RunConsumer, Unsubscribe, EnsureTopic, Places
  <2>3. layout' \in 0 .. NumPartitions
    BY <1>0, <1>4 DEF Subscribe, StartConsumer, RunConsumer, Unsubscribe, brokerVars
  <2> QED BY <2>1, <2>2, <2>3, CallingMove
<1>5. CASE Dispose
  <2>1. UNCHANGED <<setup, layout, log, sent, readVars>>
    BY <1>5 DEF Dispose, brokerVars, groupVars, handlerVars
  <2>2. /\ pc' = [c \in Calls \union Msgs \union Members |->
                    IF c \in Members /\ pc[c] = "running" THEN "closing" ELSE pc[c]]
    BY <1>5 DEF Dispose, Typed
  <2>3. pc' \in [Calls \union Msgs \union Members -> Places]
    BY <2>2 DEF Typed, Places
  <2>4. \A mb \in Members : pc'[mb] = "dead" <=> pc[mb] = "dead"
    BY <2>2
  <2>5. layout' \in 0 .. NumPartitions
    BY <1>0, <2>1
  <2> QED BY <2>1, <2>3, <2>4, <2>5 DEF Calling, Stepping
<1>6. CASE DisposeEnd \/ UNCHANGED vars
  <2>1. UNCHANGED <<setup, pc, layout, log, sent, readVars>>
    BY <1>6 DEF DisposeEnd, vars, brokerVars, groupVars, handlerVars
  <2>2. layout' \in 0 .. NumPartitions /\ pc' \in [Calls \union Msgs \union Members -> Places]
    BY <1>0, <2>1 DEF Typed
  <2> QED BY <2>1, <2>2 DEF Calling, Stepping
<1> QED BY <1>s, <1>1, <1>2, <1>3, <1>4, <1>5, <1>6 DEF Next, Stepping

(* A record is sent to one partition, a keyed one to the first, however    *)
(* often it is sent.                                                       *)
LEMMA SendFacts ==
  ASSUME Typed, NEW m \in Msgs, Send(m)
  PROVE  \/ Calling
         \/ /\ UNCHANGED <<setup, layout, readVars>>
            /\ pc' \in [Calls \union Msgs \union Members -> Places]
            /\ \A mb \in Members : pc'[mb] = pc[mb]
            /\ sent' = IF Contains(sent, m) THEN sent ELSE Append(sent, m)
            /\ \E p \in Partitions :
                 /\ m \in Keyed => p = 1
                 /\ log' = [log EXCEPT ![p] = Append(log[p], m)]
<1> USE DEF readVars
<1>1. UNCHANGED <<setup, layout, readVars>> /\ pc[m] = "send"
  BY DEF Send, groupVars, handlerVars
<1>2. CASE Goto(m, "failed") /\ UNCHANGED <<log, sent>>
  <2>1. layout' \in 0 .. NumPartitions
    BY <1>1 DEF Typed
  <2> QED BY <1>1, <1>2, <2>1, CallingMove DEF Places
<1>3. CASE AppendRecord(m) /\ (Goto(m, "done") \/ UNCHANGED pc)
  <2>1. pc' \in [Calls \union Msgs \union Members -> Places] /\ \A mb \in Members : pc'[mb] = pc[mb]
    <3>1. \A mb \in Members : mb # m
      BY KafkaAssumption
    <3>2. CASE Goto(m, "done")
      BY <3>1, <3>2, GotoType DEF Places
    <3>3. CASE UNCHANGED pc
      BY <3>3 DEF Typed
    <3> QED BY <1>3, <3>2, <3>3
  <2>2. \A p \in PartitionsFor(m) : p \in Partitions /\ (m \in Keyed => p = 1)
    <3>1. \A n \in 0 .. NumPartitions : \A p \in 1 .. n : p \in 1 .. NumPartitions
      BY KafkaAssumption
    <3>2. 1 \in 1 .. NumPartitions
      BY KafkaAssumption
    <3> QED BY <3>1, <3>2 DEF PartitionsFor, Partitions, Typed
  <2>3. /\ sent' = IF Contains(sent, m) THEN sent ELSE Append(sent, m)
        /\ \E p \in PartitionsFor(m) : log' = [log EXCEPT ![p] = Append(log[p], m)]
    BY <1>3 DEF AppendRecord
  <2> QED BY <1>1, <2>1, <2>2, <2>3
<1> QED BY <1>2, <1>3 DEF Send

(* The record a member gets next: where a pending seek says, or else the   *)
(* one at its position.                                                    *)
NextOffset(mb, p) == IF seek[mb][p] = None THEN position[mb][p] ELSE seek[mb][p]

(* A handler is called with the next record of a partition.                *)
LEMMA PollFacts ==
  ASSUME Typed, NEW mb \in Members, NEW p \in Partitions, Poll(mb, p)
  PROVE  LET off == NextOffset(mb, p)
             r == [sub |-> mb, part |-> p, off |-> off] IN
         /\ off \in Nat /\ off < Len(log[p]) /\ log[p][off + 1] \in Msgs
         /\ off + 1 \in DOMAIN log[p] /\ r \in Record
         /\ handling[mb] = None /\ pc[mb] = "running"
         /\ handling' \in [Members -> Record \union {None}]
         /\ \A x \in Members : handling'[x] = IF x = mb THEN r ELSE handling[x]
         /\ incoming' = incoming \union {r}
         /\ \/ Contains(seen[Group(mb)], log[p][off + 1]) /\ seen' = seen
            \/ /\ ~Contains(seen[Group(mb)], log[p][off + 1])
               /\ seen' = [seen EXCEPT ![Group(mb)] = Append(seen[Group(mb)], log[p][off + 1])]
         /\ UNCHANGED <<setup, pc, layout, log, sent, committed, settled>>
<1> DEFINE off == NextOffset(mb, p)
           r == [sub |-> mb, part |-> p, off |-> off]
<1>1. off \in Nat
  BY DEF NextOffset, Typed
<1>2. /\ pc[mb] = "running" /\ handling[mb] = None /\ off < Len(log[p])
      /\ handling' = [handling EXCEPT ![mb] = r]
      /\ incoming' = incoming \union {r}
      /\ UNCHANGED <<setup, pc, layout, log, sent, committed, settled>>
  BY DEF Poll, NextOffset, brokerVars
<1>3. \/ Contains(seen[Group(mb)], log[p][off + 1]) /\ seen' = seen
      \/ /\ ~Contains(seen[Group(mb)], log[p][off + 1])
         /\ seen' = [seen EXCEPT ![Group(mb)] = Append(seen[Group(mb)], log[p][off + 1])]
  BY DEF Poll, NextOffset
<1>4. r \in Record
  BY <1>1 DEF Record
<1>5. log[p] \in Seq(Msgs)
  BY DEF Typed
<1> HIDE DEF off
<1>6. off + 1 \in DOMAIN log[p] /\ log[p][off + 1] \in Msgs
  BY <1>1, <1>2, <1>5
<1> HIDE DEF r
<1>7. /\ handling' \in [Members -> Record \union {None}]
      /\ \A x \in Members : handling'[x] = IF x = mb THEN r ELSE handling[x]
  BY <1>2, <1>4 DEF Typed
<1> QED BY <1>1, <1>2, <1>3, <1>4, <1>6, <1>7 DEF off, r

(* The member's position comes after the record, and its seek is done.     *)
LEMMA PollMoves ==
  ASSUME Typed, NEW mb \in Members, NEW p \in Partitions, Poll(mb, p)
  PROVE  /\ position' \in [Members -> [Partitions -> Nat]]
         /\ position'[mb][p] = NextOffset(mb, p) + 1
         /\ seek' \in [Members -> [Partitions -> Nat \union {None}]]
         /\ seek'[mb][p] = None
         /\ \A x \in Members, q \in Partitions :
              x # mb \/ q # p => position'[x][q] = position[x][q] /\ seek'[x][q] = seek[x][q]
<1>1. NextOffset(mb, p) + 1 \in Nat
  BY DEF NextOffset, Typed
<1>2. /\ position' = [position EXCEPT ![mb][p] = NextOffset(mb, p) + 1]
      /\ seek' = [seek EXCEPT ![mb][p] = None]
  BY DEF Poll, NextOffset
<1>3. /\ position' \in [Members -> [Partitions -> Nat]]
      /\ \A x \in Members, q \in Partitions :
           position'[x][q] = IF x = mb /\ q = p THEN NextOffset(mb, p) + 1 ELSE position[x][q]
  BY <1>1, <1>2, CellExcept DEF Typed
<1>4. /\ seek' \in [Members -> [Partitions -> Nat \union {None}]]
      /\ \A x \in Members, q \in Partitions :
           seek'[x][q] = IF x = mb /\ q = p THEN None ELSE seek[x][q]
  BY <1>2, CellExcept DEF Typed
<1> QED BY <1>3, <1>4

(* A rebalance lets members that are in no handler start at what the group *)
(* has committed.                                                          *)
LEMMA RebalanceFacts ==
  ASSUME Typed, NEW g \in Groups, Rebalance(g)
  PROVE  /\ UNCHANGED <<setup, pc, layout, log, sent, committed, seek, handling, incoming, settled, seen>>
         /\ position' \in [Members -> [Partitions -> Nat]]
         /\ \A mb \in Members : \/ position'[mb] = position[mb]
                                \/ position'[mb] = committed[Group(mb)] /\ handling[mb] = None
<1>1. UNCHANGED <<setup, pc, layout, log, sent, committed, seek, handling, incoming, settled, seen>>
  BY DEF Rebalance, brokerVars, handlerVars
<1>2. PICK ready : /\ \A mb \in ready : Group(mb) = g /\ handling[mb] = None
                   /\ position' = [mb \in Members |-> IF mb \in ready THEN committed[g] ELSE position[mb]]
  BY DEF Rebalance
<1>3. position' \in [Members -> [Partitions -> Nat]]
  BY <1>2 DEF Typed
<1> QED BY <1>1, <1>2, <1>3

(* An ack settles the record for the group, and commits unless the member  *)
(* is fenced.                                                              *)
LEMMA AckFacts ==
  ASSUME Typed, NEW r \in incoming, Ack(r)
  PROVE  /\ r \in Record /\ incoming' = incoming \ {r}
         /\ UNCHANGED <<setup, pc, layout, log, sent, position, seek, handling, seen>>
         /\ settled' \in [Groups -> [Partitions -> SUBSET Nat]]
         /\ \A g \in Groups, p \in Partitions :
              settled'[g][p] = IF g = Group(r.sub) /\ p = r.part THEN settled[g][p] \union {r.off}
                               ELSE settled[g][p]
         /\ committed' \in [Groups -> [Partitions -> Nat]]
         /\ \A g \in Groups, p \in Partitions :
              \/ committed'[g][p] = committed[g][p]
              \/ g = Group(r.sub) /\ p = r.part /\ committed'[g][p] = r.off + 1
<1> DEFINE g == Group(r.sub)
           p == r.part
<1>1. r \in Record /\ g \in Groups /\ p \in Partitions /\ r.off \in Nat
  BY RecordParts, GroupType DEF Typed
<1>2. /\ incoming' = incoming \ {r}
      /\ UNCHANGED <<setup, pc, layout, log, sent, position, seek, handling, seen>>
      /\ committed' = committed \/ committed' = [committed EXCEPT ![g][p] = r.off + 1]
      /\ settled' = [settled EXCEPT ![g][p] = settled[g][p] \union {r.off}]
  BY DEF Ack, Commit, brokerVars
<1> HIDE DEF g, p
<1>3. /\ settled' \in [Groups -> [Partitions -> SUBSET Nat]]
      /\ \A x \in Groups, y \in Partitions :
           settled'[x][y] = IF x = g /\ y = p THEN settled[g][p] \union {r.off} ELSE settled[x][y]
  <2>1. settled[g][p] \union {r.off} \in SUBSET Nat
    BY <1>1 DEF Typed
  <2> QED BY <1>1, <1>2, <2>1, CellExcept DEF Typed
<1>4. /\ committed' \in [Groups -> [Partitions -> Nat]]
      /\ \A x \in Groups, y \in Partitions :
           \/ committed'[x][y] = committed[x][y]
           \/ x = g /\ y = p /\ committed'[x][y] = r.off + 1
  <2>1. CASE committed' = committed
    BY <2>1 DEF Typed
  <2>2. CASE committed' = [committed EXCEPT ![g][p] = r.off + 1]
    <3>1. r.off + 1 \in Nat
      BY <1>1
    <3>2. /\ committed' \in [Groups -> [Partitions -> Nat]]
          /\ \A x \in Groups, y \in Partitions :
               committed'[x][y] = IF x = g /\ y = p THEN r.off + 1 ELSE committed[x][y]
      BY <1>1, <2>2, <3>1, CellExcept DEF Typed
    <3> QED BY <3>2
  <2> QED BY <1>2, <2>1, <2>2
<1> QED BY <1>1, <1>2, <1>3, <1>4 DEF g, p

(* A nack, by the handler or because it threw, seeks back to the record.   *)
LEMMA NackFacts ==
  ASSUME Typed, NEW r \in incoming, Nacking(r)
  PROVE  /\ r \in Record /\ incoming' = incoming \ {r}
         /\ seek' \in [Members -> [Partitions -> Nat \union {None}]]
         /\ \A x \in Members, q \in Partitions :
              seek'[x][q] = IF x = r.sub /\ q = r.part THEN r.off ELSE seek[x][q]
<1>1. r \in Record /\ r.sub \in Members /\ r.part \in Partitions /\ r.off \in Nat
  BY RecordParts DEF Typed
<1>2. incoming' = incoming \ {r} /\ seek' = [seek EXCEPT ![r.sub][r.part] = r.off]
  BY DEF Nacking, SeekBack
<1>3. r.off \in Nat \union {None}
  BY <1>1
<1> QED BY <1>1, <1>2, <1>3, CellExcept DEF Typed

(* What the steps that only end a handler leave alone.                     *)
LEMMA HandlerFacts ==
  ASSUME Typed, NEW mb \in Members, Disconnect(mb) \/ Crash(mb) \/ Throw(mb) \/ Return(mb)
  PROVE  /\ UNCHANGED <<setup, layout, log, sent, committed, position, settled, seen>>
         /\ handling' \in [Members -> Record \union {None}] /\ handling'[mb] = None
         /\ \A x \in Members : x # mb => handling'[x] = handling[x]
         /\ pc' \in [Calls \union Msgs \union Members -> Places]
         /\ \A x \in Calls \union Msgs \union Members : x # mb => pc'[x] = pc[x]
<1>1. UNCHANGED <<setup, layout, log, sent, committed, position, settled, seen>>
  BY DEF Disconnect, Crash, Throw, Return, brokerVars, groupVars
<1>2. handling' = [handling EXCEPT ![mb] = None] \/ (handling' = handling /\ handling[mb] = None)
  BY DEF Disconnect, Crash, Throw, Return
<1>3. pc' = pc \/ \E to \in Places : Goto(mb, to)
  BY DEF Disconnect, Crash, Throw, Return, Places
<1>4. /\ pc' \in [Calls \union Msgs \union Members -> Places]
      /\ \A x \in Calls \union Msgs \union Members : x # mb => pc'[x] = pc[x]
  BY <1>3, GotoType DEF Typed
<1>5. /\ handling' \in [Members -> Record \union {None}] /\ handling'[mb] = None
      /\ \A x \in Members : x # mb => handling'[x] = handling[x]
  BY <1>2 DEF Typed
<1> QED BY <1>1, <1>4, <1>5

(* Every step keeps the types.                                             *)
LEMMA TypedStep == Typed /\ [Next]_vars => Typed'
<1> SUFFICES ASSUME Typed, [Next]_vars PROVE Typed'
  OBVIOUS
<1>1. CASE Calling
  BY <1>1 DEF Calling, Typed, readVars
<1>2. ASSUME NEW m \in Msgs, Send(m) PROVE Typed'
  <2>1. CASE /\ UNCHANGED <<setup, layout, readVars>>
             /\ pc' \in [Calls \union Msgs \union Members -> Places]
             /\ sent' = IF Contains(sent, m) THEN sent ELSE Append(sent, m)
             /\ \E p \in Partitions : log' = [log EXCEPT ![p] = Append(log[p], m)]
    <3>1. PICK p \in Partitions : log' = [log EXCEPT ![p] = Append(log[p], m)]
      BY <2>1
    <3>2. Append(log[p], m) \in Seq(Msgs) /\ Append(sent, m) \in Seq(Msgs)
      BY DEF Typed
    <3>3. log' \in [Partitions -> Seq(Msgs)]
      BY <3>1, <3>2 DEF Typed
    <3>4. sent' \in Seq(Msgs)
      BY <2>1, <3>2 DEF Typed
    <3> QED BY <2>1, <3>3, <3>4 DEF Typed, readVars
  <2> QED BY <1>1, <1>2, <2>1, SendFacts
<1>3. ASSUME NEW mb \in Members, Disconnect(mb) \/ Crash(mb) \/ Throw(mb) \/ Return(mb) PROVE Typed'
  <2>1. /\ UNCHANGED <<setup, layout, log, sent, committed, position, settled, seen>>
        /\ handling' \in [Members -> Record \union {None}] /\ handling'[mb] = None
        /\ \A x \in Members : x # mb => handling'[x] = handling[x]
        /\ pc' \in [Calls \union Msgs \union Members -> Places]
    BY <1>3, HandlerFacts
  <2>2. incoming' \subseteq Record /\ seek' \in [Members -> [Partitions -> Nat \union {None}]]
    <3>1. CASE Throw(mb)
      <4>1. handling[mb] \in incoming /\ Nacking(handling[mb])
        BY <3>1 DEF Throw
      <4> QED BY <4>1, NackFacts DEF Typed
    <3>2. CASE incoming' \subseteq incoming /\ UNCHANGED seek
      BY <3>2 DEF Typed
    <3> QED BY <1>3, <3>1, <3>2 DEF Disconnect, Crash, Return
  <2>3. \A x \in Members : handling'[x] # None => handling'[x].sub = x
    BY <2>1 DEF Typed
  <2> QED BY <2>1, <2>2, <2>3 DEF Typed
<1>4. ASSUME NEW mb \in Members, NEW p \in Partitions, Poll(mb, p) PROVE Typed'
  <2> DEFINE off == NextOffset(mb, p)
             r == [sub |-> mb, part |-> p, off |-> off]
  <2>1. /\ r \in Record /\ log[p][off + 1] \in Msgs
        /\ handling' \in [Members -> Record \union {None}]
        /\ \A x \in Members : handling'[x] = IF x = mb THEN r ELSE handling[x]
        /\ incoming' = incoming \union {r}
        /\ position' \in [Members -> [Partitions -> Nat]]
        /\ seek' \in [Members -> [Partitions -> Nat \union {None}]]
        /\ UNCHANGED <<setup, pc, layout, log, sent, committed, settled>>
    BY <1>4, PollFacts, PollMoves
  <2>2. seen' = seen \/ seen' = [seen EXCEPT ![Group(mb)] = Append(seen[Group(mb)], log[p][off + 1])]
    BY <1>4, PollFacts
  <2>3. seen' \in [Groups -> Seq(Msgs)]
    <3>1. Group(mb) \in Groups
      BY GroupType
    <3>2. Append(seen[Group(mb)], log[p][off + 1]) \in Seq(Msgs)
      BY <2>1, <3>1 DEF Typed
    <3> QED BY <2>2, <3>1, <3>2 DEF Typed
  <2>4. \A x \in Members : handling'[x] # None => handling'[x].sub = x
    <3>1. r.sub = mb
      OBVIOUS
    <3> HIDE DEF r
    <3> QED BY <2>1, <3>1 DEF Typed
  <2>5. incoming' \subseteq Record
    BY <2>1 DEF Typed
  <2> QED BY <2>1, <2>3, <2>4, <2>5 DEF Typed
<1>5. ASSUME NEW g \in Groups, Rebalance(g) PROVE Typed'
  <2>1. /\ UNCHANGED <<setup, pc, layout, log, sent, committed, seek, handling, incoming, settled, seen>>
        /\ position' \in [Members -> [Partitions -> Nat]]
    BY <1>5, RebalanceFacts
  <2> QED BY <2>1 DEF Typed
<1>6. ASSUME NEW r \in incoming, Ack(r) PROVE Typed'
  <2>1. /\ incoming' \subseteq incoming
        /\ UNCHANGED <<setup, pc, layout, log, sent, position, seek, handling, seen>>
        /\ settled' \in [Groups -> [Partitions -> SUBSET Nat]]
        /\ committed' \in [Groups -> [Partitions -> Nat]]
    BY <1>6, AckFacts
  <2> QED BY <2>1 DEF Typed
<1>7. ASSUME NEW r \in incoming, Nack(r) PROVE Typed'
  <2>1. /\ UNCHANGED <<setup, pc, layout, log, sent, committed, position, handling, settled, seen>>
        /\ Nacking(r)
    BY <1>7 DEF Nack, brokerVars, groupVars
  <2>2. incoming' \subseteq incoming /\ seek' \in [Members -> [Partitions -> Nat \union {None}]]
    BY <2>1, NackFacts
  <2> QED BY <2>1, <2>2 DEF Typed
<1> QED BY <1>1, <1>2, <1>3, <1>4, <1>5, <1>6, <1>7, StepCases DEF Stepping

(* The types hold throughout.                                              *)
LEMMA TypedInvariant == Spec => []Typed
<1>1. Init => Typed
  <2> SUFFICES ASSUME Init PROVE Typed
    OBVIOUS
  <2>1. setup \in Setup /\ 0 \in 0 .. NumPartitions
    BY KafkaAssumption DEF Init
  <2>2. pc \in [Calls \union Msgs \union Members -> Places]
    BY DEF Init, Places
  <2>3. log \in [Partitions -> Seq(Msgs)] /\ seen \in [Groups -> Seq(Msgs)] /\ sent \in Seq(Msgs)
    <3>1. <<>> \in Seq(Msgs)
      OBVIOUS
    <3> QED BY <3>1 DEF Init, Grid
  <2>4. committed \in [Groups -> [Partitions -> Nat]] /\ position \in [Members -> [Partitions -> Nat]]
    BY DEF Init, Grid
  <2>5. seek \in [Members -> [Partitions -> Nat \union {None}]]
    BY DEF Init, Grid
  <2>6. settled \in [Groups -> [Partitions -> SUBSET Nat]]
    BY DEF Init, Grid
  <2>7. handling \in [Members -> Record \union {None}] /\ \A mb \in Members : handling[mb] = None
    BY DEF Init
  <2> QED BY <2>1, <2>2, <2>3, <2>4, <2>5, <2>6, <2>7 DEF Init, Typed
<1> QED BY <1>1, TypedStep, PTL DEF Spec

-----------------------------------------------------------------------------
(* What a group has been given and has settled                             *)

(* The first n records of log l are among the messages s.                  *)
SeenBelow(s, l, n) == n <= Len(l) /\ \A o \in 0 .. (n - 1) : Contains(s, l[o + 1])

(* Whatever a group has committed, a member may start or seek to, or has   *)
(* in hand, the group has been given everything before it.                 *)
Given ==
  /\ \A g \in Groups, p \in Partitions : SeenBelow(seen[g], log[p], committed[g][p])
  /\ \A mb \in Members, p \in Partitions :
       /\ SeenBelow(seen[Group(mb)], log[p], position[mb][p])
       /\ seek[mb][p] # None => SeenBelow(seen[Group(mb)], log[p], seek[mb][p])
  /\ \A r \in incoming : SeenBelow(seen[Group(r.sub)], log[r.part], r.off + 1)

(* The offsets below n are in S.                                           *)
SettledBelow(S, n) == \A o \in 0 .. (n - 1) : o \in S

(* The member has advanced over the record its handler has not settled.    *)
InHand(mb, p) ==
  handling[mb] \in incoming /\ handling[mb].part = p /\ position[mb][p] = handling[mb].off + 1

(* The same for what the group has settled, when handlers settle before    *)
(* they return: each member has at most one message in hand.               *)
Finished ==
  ~setup.late =>
    /\ \A g \in Groups, p \in Partitions : SettledBelow(settled[g][p], committed[g][p])
    /\ \A mb \in Members, p \in Partitions :
         /\ seek[mb][p] # None => SettledBelow(settled[Group(mb)][p], seek[mb][p])
         /\ pc[mb] # "dead" /\ seek[mb][p] = None =>
              SettledBelow(settled[Group(mb)][p], position[mb][p]) \/ InHand(mb, p)
    /\ \A r \in incoming : handling[r.sub] = r /\ SettledBelow(settled[Group(r.sub)][r.part], r.off)

(* A prefix stays seen when messages and records are added.                *)
LEMMA SeenGrows ==
  ASSUME NEW s \in Seq(Msgs), NEW l \in Seq(Msgs), NEW n \in Nat, SeenBelow(s, l, n),
         NEW e \in Msgs
  PROVE  SeenBelow(Append(s, e), l, n) /\ SeenBelow(s, Append(l, e), n)
<1>1. \A x : Contains(s, x) => Contains(Append(s, e), x)
  BY DEF Contains
<1>2. SeenBelow(Append(s, e), l, n)
  BY <1>1 DEF SeenBelow
<1>3. Len(Append(l, e)) = Len(l) + 1 /\ \A i \in 1 .. Len(l) : Append(l, e)[i] = l[i]
  OBVIOUS
<1>4. \A k \in Nat : n <= k => n <= k + 1 /\ \A o \in 0 .. (n - 1) : o + 1 \in 1 .. k
  OBVIOUS
<1>5. Len(l) \in Nat
  OBVIOUS
<1>6. n <= Len(Append(l, e)) /\ \A o \in 0 .. (n - 1) : Append(l, e)[o + 1] = l[o + 1]
  BY <1>3, <1>4, <1>5 DEF SeenBelow
<1> QED BY <1>2, <1>6 DEF SeenBelow

(* A prefix grows by a record that is seen, and may be cut.                *)
LEMMA SeenNext ==
  ASSUME NEW s, NEW l \in Seq(Msgs), NEW n \in Nat
  PROVE  /\ SeenBelow(s, l, n) /\ n < Len(l) /\ Contains(s, l[n + 1]) => SeenBelow(s, l, n + 1)
         /\ SeenBelow(s, l, n + 1) => SeenBelow(s, l, n)
<1>1. \A k \in Nat : /\ n < k => n + 1 <= k
                     /\ n + 1 <= k => n <= k
  OBVIOUS
<1>2. /\ \A o \in 0 .. ((n + 1) - 1) : o \in 0 .. (n - 1) \/ o = n
      /\ \A o \in 0 .. (n - 1) : o \in 0 .. ((n + 1) - 1)
  OBVIOUS
<1>3. Len(l) \in Nat
  OBVIOUS
<1> QED BY <1>1, <1>2, <1>3 DEF SeenBelow

(* The same of settled offsets.                                            *)
LEMMA SettledNext ==
  ASSUME NEW S, NEW n \in Nat
  PROVE  /\ SettledBelow(S, n) /\ n \in S => SettledBelow(S, n + 1)
         /\ \A T : S \subseteq T /\ SettledBelow(S, n) => SettledBelow(T, n)
<1>1. \A o \in 0 .. ((n + 1) - 1) : o \in 0 .. (n - 1) \/ o = n
  OBVIOUS
<1> QED BY <1>1 DEF SettledBelow

(* Every step keeps what the groups were given.                            *)
LEMMA GivenStep == Typed /\ Given /\ [Next]_vars => Given'
<1> SUFFICES ASSUME Typed, Given, [Next]_vars PROVE Given'
  OBVIOUS
<1>t. /\ \A g \in Groups : seen[g] \in Seq(Msgs)
      /\ \A p \in Partitions : log[p] \in Seq(Msgs)
      /\ \A g \in Groups, p \in Partitions : committed[g][p] \in Nat
      /\ \A mb \in Members, p \in Partitions :
           position[mb][p] \in Nat /\ (seek[mb][p] # None => seek[mb][p] \in Nat) /\ Group(mb) \in Groups
      /\ \A r \in incoming : /\ r.sub \in Members /\ r.part \in Partitions /\ r.off \in Nat
                             /\ r.off + 1 \in Nat /\ Group(r.sub) \in Groups
  BY GroupType, RecordParts DEF Typed
<1>1. CASE Calling
  BY <1>1 DEF Calling, readVars, Given, Group
<1>2. ASSUME NEW m \in Msgs, Send(m) PROVE Given'
  <2>1. CASE /\ UNCHANGED <<setup, readVars>>
             /\ \E p \in Partitions : log' = [log EXCEPT ![p] = Append(log[p], m)]
    <3>1. \A p \in Partitions : log'[p] = log[p] \/ log'[p] = Append(log[p], m)
      BY <2>1 DEF Typed
    <3>2. \A p \in Partitions, g \in Groups : \A n \in Nat : SeenBelow(seen[g], log[p], n) => SeenBelow(seen[g], log'[p], n)
      BY <1>t, <3>1, SeenGrows
    <3>3. UNCHANGED <<setup, committed, position, seek, incoming, seen>>
      BY <2>1 DEF readVars
    <3>4. \A g \in Groups, p \in Partitions : SeenBelow(seen'[g], log'[p], committed'[g][p])
      BY <1>t, <3>2, <3>3 DEF Given
    <3>5. \A mb \in Members, p \in Partitions :
            /\ SeenBelow(seen'[Group(mb)], log'[p], position'[mb][p])
            /\ seek'[mb][p] # None => SeenBelow(seen'[Group(mb)], log'[p], seek'[mb][p])
      BY <1>t, <3>2, <3>3 DEF Given
    <3>6. \A r \in incoming' : SeenBelow(seen'[Group(r.sub)], log'[r.part], r.off + 1)
      BY <1>t, <3>2, <3>3 DEF Given
    <3> QED BY <3>3, <3>4, <3>5, <3>6 DEF Given, Group
  <2> QED BY <1>1, <1>2, <2>1, SendFacts
<1>3. ASSUME NEW r \in incoming, Nacking(r), UNCHANGED <<setup, log, committed, position, seen>> PROVE Given'
  <2>1. /\ incoming' = incoming \ {r}
        /\ \A x \in Members, q \in Partitions :
             seek'[x][q] = IF x = r.sub /\ q = r.part THEN r.off ELSE seek[x][q]
    BY <1>3, NackFacts
  <2>2. SeenBelow(seen[Group(r.sub)], log[r.part], r.off)
    BY <1>t, SeenNext DEF Given
  <2>3. \A mb \in Members, p \in Partitions :
          seek'[mb][p] # None => SeenBelow(seen[Group(mb)], log[p], seek'[mb][p])
    BY <2>1, <2>2 DEF Given
  <2> QED BY <1>3, <2>1, <2>3 DEF Given, Group
<1>4. ASSUME NEW mb \in Members, Disconnect(mb) \/ Crash(mb) \/ Throw(mb) \/ Return(mb) PROVE Given'
  <2>1. UNCHANGED <<setup, log, committed, position, seen>>
    BY <1>4, HandlerFacts
  <2>2. CASE Throw(mb)
    BY <1>3, <2>1, <2>2 DEF Throw
  <2>3. CASE incoming' \subseteq incoming /\ UNCHANGED seek
    BY <2>1, <2>3 DEF Given, Group
  <2> QED BY <1>4, <2>2, <2>3 DEF Disconnect, Crash, Return
<1>5. ASSUME NEW mb \in Members, NEW p \in Partitions, Poll(mb, p) PROVE Given'
  <2> DEFINE off == NextOffset(mb, p)
             r == [sub |-> mb, part |-> p, off |-> off]
             g == Group(mb)
             e == log[p][off + 1]
  <2>1. /\ off \in Nat /\ off < Len(log[p]) /\ e \in Msgs
        /\ incoming' = incoming \union {r}
        /\ UNCHANGED <<setup, log, committed>>
    BY <1>5, PollFacts
  <2>b. /\ position'[mb][p] = off + 1 /\ seek'[mb][p] = None
        /\ \A x \in Members, q \in Partitions :
             x # mb \/ q # p => position'[x][q] = position[x][q] /\ seek'[x][q] = seek[x][q]
    BY <1>5, PollMoves
  <2>a. \/ Contains(seen[g], e) /\ seen' = seen
        \/ seen' = [seen EXCEPT ![g] = Append(seen[g], e)]
    BY <1>5, PollFacts
  <2>2. g \in Groups
    BY GroupType
  <2>3. /\ \A h \in Groups : seen'[h] = seen[h] \/ seen'[h] = Append(seen[h], e)
        /\ Contains(seen'[g], e)
    <3>1. CASE Contains(seen[g], e) /\ seen' = seen
      BY <3>1
    <3>2. CASE seen' = [seen EXCEPT ![g] = Append(seen[g], e)]
      <4>1. seen'[g] = Append(seen[g], e)
        BY <2>2, <3>2 DEF Typed
      <4>2. Contains(Append(seen[g], e), e)
        <5>1. /\ Len(seen[g]) + 1 \in 1 .. Len(Append(seen[g], e))
              /\ Append(seen[g], e)[Len(seen[g]) + 1] = e
          BY <1>t, <2>1, <2>2
        <5> QED BY <5>1 DEF Contains
      <4> QED BY <3>2, <4>1, <4>2 DEF Typed
    <3> QED BY <2>a, <3>1, <3>2
  <2>4. SeenBelow(seen[g], log[p], off)
    BY DEF NextOffset, Given
  <2> HIDE DEF off, e
  <2>5. \A h \in Groups, q \in Partitions : \A n \in Nat :
          SeenBelow(seen[h], log[q], n) => SeenBelow(seen'[h], log[q], n)
    <3> TAKE h \in Groups, q \in Partitions
    <3> TAKE n \in Nat
    <3>1. SeenBelow(seen[h], log[q], n) => SeenBelow(Append(seen[h], e), log[q], n)
      BY <1>t, <2>1, SeenGrows
    <3> QED BY <2>3, <3>1
  <2>6. SeenBelow(seen'[g], log[p], off + 1)
    <3>1. SeenBelow(seen'[g], log[p], off)
      BY <2>1, <2>2, <2>4, <2>5
    <3> QED BY <1>t, <2>1, <2>3, <3>1, SeenNext DEF e
  <2>7. r.sub = mb /\ r.part = p /\ r.off = off
    OBVIOUS
  <2> HIDE DEF r
  <2>8. \A h \in Groups, q \in Partitions : SeenBelow(seen'[h], log'[q], committed'[h][q])
    BY <1>t, <2>1, <2>5 DEF Given
  <2>9. \A x \in Members, q \in Partitions :
          /\ SeenBelow(seen'[Group(x)], log'[q], position'[x][q])
          /\ seek'[x][q] # None => SeenBelow(seen'[Group(x)], log'[q], seek'[x][q])
    <3> TAKE x \in Members, q \in Partitions
    <3>1. CASE x = mb /\ q = p
      BY <2>1, <2>b, <2>6, <3>1
    <3>2. CASE ~(x = mb /\ q = p)
      <4>1. position'[x][q] = position[x][q] /\ seek'[x][q] = seek[x][q] /\ log'[q] = log[q]
        BY <2>1, <2>b, <3>2
      <4>2. SeenBelow(seen'[Group(x)], log[q], position[x][q])
        BY <1>t, <2>5 DEF Given
      <4>3. seek[x][q] # None => SeenBelow(seen'[Group(x)], log[q], seek[x][q])
        BY <1>t, <2>5 DEF Given
      <4> QED BY <4>1, <4>2, <4>3
    <3> QED BY <3>1, <3>2
  <2>10. \A i \in incoming' : SeenBelow(seen'[Group(i.sub)], log'[i.part], i.off + 1)
    BY <1>t, <2>1, <2>5, <2>6, <2>7 DEF Given
  <2>11. \A x : Group(x)' = Group(x)
    BY <2>1 DEF Group
  <2> QED BY <2>8, <2>9, <2>10, <2>11 DEF Given
<1>6. ASSUME NEW g \in Groups, Rebalance(g) PROVE Given'
  <2>1. /\ UNCHANGED <<setup, log, committed, seek, incoming, seen>>
        /\ \A mb \in Members : position'[mb] = position[mb] \/ position'[mb] = committed[Group(mb)]
    BY <1>6, RebalanceFacts
  <2>2. \A mb \in Members, p \in Partitions : SeenBelow(seen[Group(mb)], log[p], position'[mb][p])
    BY <1>t, <2>1 DEF Given
  <2> QED BY <2>1, <2>2 DEF Given, Group
<1>7. ASSUME NEW r \in incoming, Ack(r) PROVE Given'
  <2>1. /\ incoming' \subseteq incoming
        /\ UNCHANGED <<setup, log, position, seek, seen>>
        /\ \A g \in Groups, p \in Partitions :
             \/ committed'[g][p] = committed[g][p]
             \/ g = Group(r.sub) /\ p = r.part /\ committed'[g][p] = r.off + 1
    BY <1>7, AckFacts
  <2>2. \A g \in Groups, p \in Partitions : SeenBelow(seen[g], log[p], committed'[g][p])
    BY <2>1 DEF Given
  <2> QED BY <2>1, <2>2 DEF Given, Group
<1>8. ASSUME NEW r \in incoming, Nack(r) PROVE Given'
  BY <1>3, <1>8 DEF Nack, brokerVars, groupVars
<1> QED BY <1>1, <1>2, <1>4, <1>5, <1>6, <1>7, <1>8, StepCases DEF Stepping

(* The parts of Finished: what is committed, what member mb is to read     *)
(* next from partition p, and a message in hand.                           *)
CommitDone(g, p) == SettledBelow(settled[g][p], committed[g][p])

ReadDone(mb, p) ==
  /\ seek[mb][p] # None => SettledBelow(settled[Group(mb)][p], seek[mb][p])
  /\ pc[mb] # "dead" /\ seek[mb][p] = None =>
       SettledBelow(settled[Group(mb)][p], position[mb][p]) \/ InHand(mb, p)

HandDone(r) == handling[r.sub] = r /\ SettledBelow(settled[Group(r.sub)][r.part], r.off)

(* A step that leaves what a member reads alone.                           *)
LEMMA ReadQuiet ==
  ASSUME NEW mb, NEW p, ReadDone(mb, p), UNCHANGED <<setup, settled>>,
         position'[mb][p] = position[mb][p], seek'[mb][p] = seek[mb][p],
         pc'[mb] # "dead" => pc[mb] # "dead", InHand(mb, p) => InHand(mb, p)' \/ pc'[mb] = "dead"
  PROVE  ReadDone(mb, p)'
BY DEF ReadDone, Group

(* Every step keeps what is settled ahead of what is read and committed.   *)
LEMMA FinishedStep == Typed /\ Finished /\ [Next]_vars => Finished'
<1> SUFFICES ASSUME Typed, Finished, [Next]_vars, ~setup'.late
             PROVE  /\ \A g \in Groups, p \in Partitions : CommitDone(g, p)'
                    /\ \A mb \in Members, p \in Partitions : ReadDone(mb, p)'
                    /\ \A r \in incoming' : HandDone(r)'
  BY DEF Finished, CommitDone, ReadDone, HandDone
<1> DEFINE Committing == \A g \in Groups, p \in Partitions : CommitDone(g, p)'
           Reading == \A mb \in Members, p \in Partitions : ReadDone(mb, p)'
           Holding == \A r \in incoming' : HandDone(r)'
           Goal == Committing /\ Reading /\ Holding
<1> SUFFICES Goal
  OBVIOUS
<1>a. ASSUME UNCHANGED setup
      PROVE  /\ ~setup.late /\ \A mb : Group(mb)' = Group(mb)
             /\ \A g \in Groups, p \in Partitions : CommitDone(g, p)
             /\ \A mb \in Members, p \in Partitions : ReadDone(mb, p)
             /\ \A r \in incoming : HandDone(r)
  BY <1>a DEF Finished, CommitDone, ReadDone, HandDone, Group
<1>t. /\ \A g \in Groups, p \in Partitions : committed[g][p] \in Nat
      /\ \A mb \in Members, p \in Partitions :
           position[mb][p] \in Nat /\ (seek[mb][p] # None => seek[mb][p] \in Nat) /\ Group(mb) \in Groups
      /\ \A r \in incoming : /\ r.sub \in Members /\ r.part \in Partitions /\ r.off \in Nat /\ r # None
                             /\ Group(r.sub) \in Groups
      /\ \A mb \in Members : handling[mb] # None => handling[mb].sub = mb
  BY GroupType, RecordParts DEF Typed
<1>c. ASSUME UNCHANGED <<setup, committed, settled>> PROVE Committing
  BY <1>a, <1>c DEF CommitDone
<1>q. ASSUME UNCHANGED <<setup, committed, position, seek, handling, incoming, settled>>,
             \A mb \in Members : pc'[mb] # "dead" => pc[mb] # "dead"
      PROVE  Goal
  <2>1. Reading
    BY <1>a, <1>q, ReadQuiet DEF InHand
  <2>2. Holding
    BY <1>a, <1>q DEF HandDone
  <2> QED BY <1>c, <1>q, <2>1, <2>2
<1>1. CASE Calling
  BY <1>q, <1>1 DEF Calling, readVars
<1>2. ASSUME NEW m \in Msgs, Send(m) PROVE Goal
  <2>1. CASE UNCHANGED <<setup, readVars>> /\ \A mb \in Members : pc'[mb] = pc[mb]
    BY <1>q, <2>1 DEF readVars
  <2> QED BY <1>1, <1>2, <2>1, SendFacts
<1>3. ASSUME NEW r \in incoming, Nacking(r), UNCHANGED <<setup, pc, committed, position, settled>>,
             \A x \in Members : handling'[x] = handling[x] \/ (x = r.sub /\ handling[x] = r)
      PROVE  Goal
  <2>1. /\ incoming' = incoming \ {r}
        /\ \A x \in Members, q \in Partitions :
             seek'[x][q] = IF x = r.sub /\ q = r.part THEN r.off ELSE seek[x][q]
    BY <1>3, NackFacts
  <2>2. HandDone(r) /\ r.off # None /\ r.part \in Partitions /\ r.sub \in Members
    BY <1>a, <1>3, <1>t, KafkaAssumption
  <2>3. ASSUME NEW x \in Members, NEW q \in Partitions PROVE ReadDone(x, q)'
    <3>1. CASE x = r.sub /\ q = r.part
      <4>1. seek'[x][q] = r.off
        BY <2>1, <3>1
      <4>2. SettledBelow(settled'[Group(x)'][q], seek'[x][q])
        BY <1>a, <1>3, <2>2, <3>1, <4>1 DEF HandDone
      <4> QED BY <2>2, <4>1, <4>2 DEF ReadDone
    <3>2. CASE ~(x = r.sub /\ q = r.part)
      <4>1. seek'[x][q] = seek[x][q] /\ position'[x][q] = position[x][q]
        BY <1>3, <2>1, <3>2
      <4>2. ReadDone(x, q) /\ pc' = pc
        BY <1>a, <1>3
      <4>3. ASSUME InHand(x, q) PROVE InHand(x, q)'
        <5>1. handling[x] \in incoming /\ handling[x].part = q
          BY <4>3 DEF InHand
        <5>2. handling[x].sub = x
          BY <1>t, <5>1
        <5>3. handling[x] # r
          BY <3>2, <5>1, <5>2
        <5>4. handling'[x] = handling[x]
          BY <1>3, <5>3
        <5> QED BY <2>1, <4>1, <4>3, <5>3, <5>4 DEF InHand
      <4> QED BY <1>3, <4>1, <4>2, <4>3, ReadQuiet
    <3> QED BY <3>1, <3>2
  <2>4. ASSUME NEW i \in incoming' PROVE HandDone(i)'
    <3>1. i \in incoming /\ i # r /\ HandDone(i) /\ i.sub \in Members
      BY <1>a, <1>3, <1>t, <2>1, <2>4
    <3>2. handling'[i.sub] = i
      BY <1>3, <3>1 DEF HandDone
    <3> QED BY <1>a, <1>3, <3>1, <3>2 DEF HandDone
  <2> QED BY <1>c, <1>3, <2>3, <2>4
<1>4. ASSUME NEW mb \in Members, Throw(mb) PROVE Goal
  <2>1. /\ handling[mb] \in incoming /\ Nacking(handling[mb])
        /\ UNCHANGED <<setup, pc, committed, position, settled>>
    BY <1>4 DEF Throw, groupVars
  <2>2. handling[mb].sub = mb
    BY <1>t, <2>1
  <2>3. \A x \in Members : x # mb => handling'[x] = handling[x]
    BY <1>4, HandlerFacts
  <2> QED BY <1>3, <2>1, <2>2, <2>3
<1>5. ASSUME NEW r \in incoming, Nack(r) PROVE Goal
  BY <1>3, <1>5 DEF Nack, groupVars
<1>6. ASSUME NEW mb \in Members, Disconnect(mb) PROVE Goal
  <2>1. /\ UNCHANGED <<setup, committed, position, seek, handling, settled>> /\ handling[mb] = None
        /\ incoming' = {r \in incoming : r.sub # mb} /\ pc[mb] = "closing"
    BY <1>6 DEF Disconnect, groupVars
  <2>2. \A r \in incoming : r.sub # mb
    BY <1>a, <1>t, <2>1 DEF HandDone
  <2>3. incoming' = incoming
    BY <2>1, <2>2
  <2>4. \A x \in Members : pc'[x] # "dead" => pc[x] # "dead"
    BY <1>6, <2>1, HandlerFacts
  <2> QED BY <1>q, <2>1, <2>3, <2>4
<1>7. ASSUME NEW mb \in Members, Crash(mb) PROVE Goal
  <2>1. /\ UNCHANGED <<setup, committed, position, seek, settled>>
        /\ incoming' = {r \in incoming : r.sub # mb}
        /\ pc' = [pc EXCEPT ![mb] = "dead"]
        /\ handling' = [handling EXCEPT ![mb] = None]
    BY <1>7 DEF Crash, Goto, groupVars
  <2>2. pc'[mb] = "dead" /\ \A x \in Members : x # mb => pc'[x] = pc[x] /\ handling'[x] = handling[x]
    BY <2>1 DEF Typed
  <2>3. ASSUME NEW x \in Members, NEW q \in Partitions PROVE ReadDone(x, q)'
    <3>1. InHand(x, q) => InHand(x, q)' \/ pc'[x] = "dead"
      <4>1. ASSUME InHand(x, q), x # mb PROVE InHand(x, q)'
        <5>1. handling[x] \in incoming /\ handling'[x] = handling[x]
          BY <2>2, <4>1 DEF InHand
        <5>2. handling[x].sub = x
          BY <1>t, <5>1
        <5>3. handling[x] \in incoming'
          BY <2>1, <4>1, <5>1, <5>2
        <5> QED BY <2>1, <4>1, <5>1, <5>3 DEF InHand
      <4> QED BY <2>2, <4>1
    <3>2. pc'[x] # "dead" => pc[x] # "dead"
      BY <2>2
    <3> QED BY <1>a, <2>1, <3>1, <3>2, ReadQuiet
  <2>4. ASSUME NEW i \in incoming' PROVE HandDone(i)'
    <3>1. i \in incoming /\ i.sub # mb /\ i.sub \in Members
      BY <1>t, <2>1, <2>4
    <3> QED BY <1>a, <2>1, <2>2, <3>1 DEF HandDone
  <2> QED BY <1>c, <2>1, <2>3, <2>4
<1>8. ASSUME NEW mb \in Members, Return(mb) PROVE Goal
  <2>1. UNCHANGED <<setup, pc, committed, position, seek, incoming, settled>>
    BY <1>8 DEF Return, groupVars
  <2>2. handling[mb] \notin incoming
    BY <1>a, <1>8, <2>1 DEF Return
  <2>3. \A x \in Members : x # mb => handling'[x] = handling[x]
    BY <1>8, HandlerFacts
  <2>4. \A x \in Members, q \in Partitions : InHand(x, q) => InHand(x, q)'
    BY <2>1, <2>2, <2>3 DEF InHand
  <2>5. Reading
    BY <1>a, <2>1, <2>4, ReadQuiet
  <2>6. \A i \in incoming : i.sub \in Members /\ i.sub # mb
    BY <1>a, <1>t, <2>1, <2>2 DEF HandDone
  <2>7. Holding
    BY <1>a, <2>1, <2>3, <2>6 DEF HandDone
  <2> QED BY <1>c, <2>1, <2>5, <2>7
<1>9. ASSUME NEW mb \in Members, NEW p \in Partitions, Poll(mb, p) PROVE Goal
  <2> DEFINE off == NextOffset(mb, p)
             r == [sub |-> mb, part |-> p, off |-> off]
  <2>1. /\ handling[mb] = None /\ pc[mb] = "running"
        /\ \A x \in Members : handling'[x] = IF x = mb THEN r ELSE handling[x]
        /\ incoming' = incoming \union {r}
        /\ UNCHANGED <<setup, pc, committed, settled>>
    BY <1>9, PollFacts
  <2>2. /\ position'[mb][p] = off + 1 /\ seek'[mb][p] = None
        /\ \A x \in Members, q \in Partitions :
             x # mb \/ q # p => position'[x][q] = position[x][q] /\ seek'[x][q] = seek[x][q]
    BY <1>9, PollMoves
  <2>3. \A q \in Partitions : ~InHand(mb, q)
    BY <1>t, <2>1 DEF InHand
  <2>4. SettledBelow(settled[Group(mb)][p], off)
    BY <1>a, <2>1, <2>3 DEF NextOffset, ReadDone
  <2>5. r.sub = mb /\ r.part = p /\ r.off = off
    OBVIOUS
  <2> HIDE DEF r, off
  <2>6. ASSUME NEW x \in Members, NEW q \in Partitions PROVE ReadDone(x, q)'
    <3>1. CASE x = mb /\ q = p
      <4>1. InHand(x, q)'
        BY <2>1, <2>2, <2>5, <3>1 DEF InHand
      <4> QED BY <2>2, <3>1, <4>1 DEF ReadDone
    <3>2. CASE x # mb \/ q # p
      <4>1. position'[x][q] = position[x][q] /\ seek'[x][q] = seek[x][q]
        BY <2>2, <3>2
      <4>2. InHand(x, q) => InHand(x, q)'
        BY <2>1, <2>3, <4>1 DEF InHand
      <4> QED BY <1>a, <2>1, <4>1, <4>2, ReadQuiet
    <3> QED BY <3>1, <3>2
  <2>7. ASSUME NEW i \in incoming' PROVE HandDone(i)'
    <3>1. CASE i = r
      BY <1>a, <2>1, <2>4, <2>5, <3>1 DEF HandDone
    <3>2. CASE i \in incoming
      <4>1. HandDone(i) /\ i.sub \in Members /\ i.sub # mb
        BY <1>a, <1>t, <2>1, <3>2 DEF HandDone
      <4> QED BY <1>a, <2>1, <4>1 DEF HandDone
    <3> QED BY <2>1, <2>7, <3>1, <3>2
  <2> QED BY <1>c, <2>1, <2>6, <2>7
<1>10. ASSUME NEW g \in Groups, Rebalance(g) PROVE Goal
  <2>1. /\ UNCHANGED <<setup, pc, committed, seek, handling, incoming, settled>>
        /\ \A mb \in Members : \/ position'[mb] = position[mb]
                               \/ position'[mb] = committed[Group(mb)] /\ handling[mb] = None
    BY <1>10, RebalanceFacts
  <2>2. ASSUME NEW x \in Members, NEW q \in Partitions PROVE ReadDone(x, q)'
    <3>1. CASE position'[x] = position[x]
      <4>1. InHand(x, q) => InHand(x, q)'
        BY <2>1, <3>1 DEF InHand
      <4> QED BY <1>a, <2>1, <3>1, <4>1, ReadQuiet
    <3>2. CASE position'[x] = committed[Group(x)]
      <4>1. SettledBelow(settled[Group(x)][q], committed[Group(x)][q])
        BY <1>a, <1>t, <2>1 DEF CommitDone
      <4>2. ReadDone(x, q)
        BY <1>a, <2>1
      <4> QED BY <1>a, <2>1, <3>2, <4>1, <4>2 DEF ReadDone
    <3> QED BY <2>1, <3>1, <3>2
  <2>3. Holding
    BY <1>a, <2>1 DEF HandDone
  <2> QED BY <1>c, <2>1, <2>2, <2>3
<1>11. ASSUME NEW r \in incoming, Ack(r) PROVE Goal
  <2>1. incoming' = incoming \ {r} /\ UNCHANGED <<setup, pc, position, seek, handling>>
    BY <1>11, AckFacts
  <2>2. \A g \in Groups, p \in Partitions :
          settled'[g][p] = IF g = Group(r.sub) /\ p = r.part THEN settled[g][p] \union {r.off}
                           ELSE settled[g][p]
    BY <1>11, AckFacts
  <2>3. \A g \in Groups, p \in Partitions :
          \/ committed'[g][p] = committed[g][p]
          \/ g = Group(r.sub) /\ p = r.part /\ committed'[g][p] = r.off + 1
    BY <1>11, AckFacts
  <2>4. \A g \in Groups, p \in Partitions : settled[g][p] \subseteq settled'[g][p]
    BY <2>2
  <2>5. \A g \in Groups, p \in Partitions : \A n \in Nat :
          SettledBelow(settled[g][p], n) => SettledBelow(settled'[g][p], n)
    BY <2>4, SettledNext
  <2>6. SettledBelow(settled'[Group(r.sub)][r.part], r.off + 1)
    <3>1. r.off \in settled'[Group(r.sub)][r.part]
      BY <1>t, <2>2
    <3>2. SettledBelow(settled'[Group(r.sub)][r.part], r.off)
      BY <1>a, <1>t, <2>1, <2>5 DEF HandDone
    <3> QED BY <1>t, <3>1, <3>2, SettledNext
  <2>7. ASSUME NEW g \in Groups, NEW p \in Partitions PROVE CommitDone(g, p)'
    <3>1. CASE committed'[g][p] = committed[g][p]
      BY <1>a, <1>t, <2>1, <2>5, <3>1 DEF CommitDone
    <3>2. CASE g = Group(r.sub) /\ p = r.part /\ committed'[g][p] = r.off + 1
      BY <2>6, <3>2 DEF CommitDone
    <3> QED BY <2>3, <3>1, <3>2
  <2>8. ASSUME NEW x \in Members, NEW q \in Partitions PROVE ReadDone(x, q)'
    <3>1. ReadDone(x, q) /\ Group(x)' = Group(x) /\ Group(x) \in Groups
      BY <1>a, <1>t, <2>1
    <3>2. seek[x][q] # None => SettledBelow(settled'[Group(x)][q], seek[x][q])
      BY <1>t, <2>5, <3>1 DEF ReadDone
    <3>3. CASE SettledBelow(settled[Group(x)][q], position[x][q])
      <4>1. SettledBelow(settled'[Group(x)][q], position[x][q])
        BY <1>t, <2>5, <3>1, <3>3
      <4> QED BY <2>1, <3>1, <3>2, <4>1 DEF ReadDone
    <3>4. CASE InHand(x, q) /\ handling[x] = r
      <4>1. r.sub = x /\ r.part = q /\ position[x][q] = r.off + 1
        BY <1>t, <3>4 DEF InHand
      <4>2. SettledBelow(settled'[Group(x)][q], position[x][q])
        BY <2>6, <4>1
      <4> QED BY <2>1, <3>1, <3>2, <4>2 DEF ReadDone
    <3>5. CASE InHand(x, q) /\ handling[x] # r
      <4>1. InHand(x, q)'
        BY <2>1, <3>5 DEF InHand
      <4> QED BY <2>1, <3>1, <3>2, <4>1 DEF ReadDone
    <3>6. CASE pc[x] = "dead" \/ seek[x][q] # None
      BY <2>1, <3>1, <3>2, <3>6 DEF ReadDone
    <3> QED BY <3>1, <3>3, <3>4, <3>5, <3>6 DEF ReadDone
  <2>9. ASSUME NEW i \in incoming' PROVE HandDone(i)'
    <3>1. HandDone(i) /\ i \in incoming
      BY <1>a, <2>1, <2>9
    <3>2. SettledBelow(settled'[Group(i.sub)][i.part], i.off)
      BY <1>t, <2>5, <3>1 DEF HandDone
    <3> QED BY <1>a, <2>1, <3>1, <3>2 DEF HandDone
  <2> QED BY <2>7, <2>8, <2>9
<1> QED BY <1>1, <1>2, <1>4, <1>5, <1>6, <1>7, <1>8, <1>9, <1>10, <1>11, StepCases DEF Stepping

(* What groups were given holds throughout.                                *)
LEMMA GivenInvariant == Spec => []Given
<1>1. Init => Given
  <2> SUFFICES ASSUME Init PROVE Given
    OBVIOUS
  <2>1. \A g \in Groups, p \in Partitions : log[p] = <<>> /\ committed[g][p] = 0
    BY DEF Init, Grid
  <2>2. \A mb \in Members, p \in Partitions : log[p] = <<>> /\ position[mb][p] = 0 /\ seek[mb][p] = None
    BY DEF Init, Grid
  <2>3. \A s : SeenBelow(s, <<>>, 0)
    BY DEF SeenBelow
  <2> QED BY <2>1, <2>2, <2>3 DEF Init, Given
<1> QED BY <1>1, GivenStep, TypedInvariant, PTL DEF Spec

(* Nothing below a committed offset was skipped, whatever rebalances,      *)
(* crashes, refused commits and seeks happened: see NothingSkipped.        *)
THEOREM CommitSafety == Spec => []NothingSkipped
<1>1. Init => Finished
  <2> SUFFICES ASSUME Init PROVE Finished
    OBVIOUS
  <2>1. \A g \in Groups, p \in Partitions : committed[g][p] = 0
    BY DEF Init, Grid
  <2>2. \A mb \in Members, p \in Partitions : position[mb][p] = 0 /\ seek[mb][p] = None
    BY DEF Init, Grid
  <2>3. \A S : SettledBelow(S, 0)
    BY DEF SettledBelow
  <2> QED BY <2>1, <2>2, <2>3 DEF Init, Finished
<1>2. Given /\ Finished => NothingSkipped
  BY DEF Given, Finished, SeenBelow, SettledBelow, NothingSkipped
<1> QED BY <1>1, <1>2, FinishedStep, GivenInvariant, TypedInvariant, PTL DEF Spec

-----------------------------------------------------------------------------
(* The order of a key's messages                                           *)

(* Some a comes before every b of a sequence that has one.                 *)
First(s, a, b) ==
  /\ b \in Range(s)
  /\ \E i \in DOMAIN s : s[i] = a /\ \A j \in DOMAIN s : s[j] = b => i < j

(* Keyed messages go to the first partition, where they are first found in *)
(* the order they are first sent; a group is given them in that order.     *)
Ordered ==
  /\ \A p \in Partitions : \A m \in Range(log[p]) : m \in Keyed => p = 1
  /\ \A m \in Keyed : m \in Range(sent) <=> m \in Range(log[1])
  /\ \A g \in Groups : \A m \in Range(seen[g]) \intersect Keyed : m \in Range(log[1])
  /\ \A m, n \in Keyed : Before(sent, m, n) => First(log[1], m, n)
  /\ \A m, n \in Keyed, g \in Groups :
       First(log[1], m, n) /\ n \in Range(seen[g]) => Before(seen[g], m, n)

(* What a pushed element comes after.                                      *)
LEMMA BeforeAppend ==
  ASSUME NEW S, NEW s \in Seq(S), NEW e \in S
  PROVE  /\ \A a, b : Before(s, a, b) => Before(Append(s, e), a, b)
         /\ \A a \in Range(s) : Before(Append(s, e), a, e)
         /\ \A a, b : Before(Append(s, e), a, b) => Before(s, a, b) \/ (b = e /\ a \in Range(s))
<1>1. \A t, a, b : Before(t, a, b) <=> Precedes(t, a, b)
  BY DEF Before, Precedes
<1> QED BY <1>1, PrecedesAppend

(* A second copy of a record changes no order of first copies.             *)
LEMMA FirstAppend ==
  ASSUME NEW S, NEW s \in Seq(S), NEW e \in S
  PROVE  /\ \A a, b : First(s, a, b) => First(Append(s, e), a, b)
         /\ e \notin Range(s) => \A a \in Range(s) : First(Append(s, e), a, e)
         /\ \A a, b : First(Append(s, e), a, b) => First(s, a, b) \/ (b = e /\ e \notin Range(s))
<1> DEFINE t == Append(s, e)
           last == Len(s) + 1
<1>1. /\ DOMAIN t = DOMAIN s \union {last}
      /\ t[last] = e /\ ~(last < last)
      /\ \A i \in DOMAIN s : i < last /\ ~(last < i) /\ t[i] = s[i]
      /\ Range(t) = Range(s) \union {e}
  BY AppendElements, AppendRange
<1> HIDE DEF t, last
<1>2. ASSUME NEW a, NEW b, First(s, a, b) PROVE First(t, a, b)
  <2>1. PICK i \in DOMAIN s : s[i] = a /\ \A j \in DOMAIN s : s[j] = b => i < j
    BY <1>2 DEF First
  <2>2. i \in DOMAIN t /\ t[i] = a /\ \A j \in DOMAIN t : t[j] = b => i < j
    BY <1>1, <2>1
  <2>3. b \in Range(t)
    BY <1>1, <1>2 DEF First
  <2> QED BY <2>2, <2>3 DEF First
<1>3. ASSUME e \notin Range(s), NEW a \in Range(s) PROVE First(t, a, e)
  <2>1. PICK i \in DOMAIN s : s[i] = a
    BY DEF Range
  <2>2. \A j \in DOMAIN s : s[j] # e
    BY <1>3 DEF Range
  <2>3. i \in DOMAIN t /\ t[i] = a /\ \A j \in DOMAIN t : t[j] = e => i < j
    BY <1>1, <2>1, <2>2
  <2>4. e \in Range(t)
    BY <1>1
  <2> QED BY <2>3, <2>4 DEF First
<1>4. ASSUME NEW a, NEW b, First(t, a, b), ~(b = e /\ e \notin Range(s)) PROVE First(s, a, b)
  <2>1. b \in Range(s)
    BY <1>1, <1>4 DEF First
  <2>2. PICK i \in DOMAIN t : t[i] = a /\ \A j \in DOMAIN t : t[j] = b => i < j
    BY <1>4 DEF First
  <2>3. PICK k \in DOMAIN s : s[k] = b
    BY <2>1 DEF Range
  <2>4. k \in DOMAIN t /\ t[k] = b /\ i < k
    BY <1>1, <2>2, <2>3
  <2>5. i \in DOMAIN s
    BY <1>1, <2>3, <2>4
  <2> QED BY <1>1, <2>1, <2>2, <2>5 DEF First
<1> QED BY <1>2, <1>3, <1>4 DEF t

(* Containing is being in the range.                                       *)
LEMMA ContainsRange ==
  ASSUME NEW S, NEW s \in Seq(S) PROVE \A e : Contains(s, e) <=> e \in Range(s)
BY DEF Contains, Range

(* Every step keeps the order.                                             *)
LEMMA OrderedStep == Typed /\ Given /\ Ordered /\ [Next]_vars => Ordered'
<1> SUFFICES ASSUME Typed, Given, Ordered, [Next]_vars PROVE Ordered'
  OBVIOUS
<1>t. /\ 1 \in Partitions /\ Keyed \subseteq Msgs
      /\ \A p \in Partitions : log[p] \in Seq(Msgs) /\ Range(log[p]) \subseteq Msgs
      /\ \A g \in Groups : seen[g] \in Seq(Msgs)
      /\ sent \in Seq(Msgs) /\ Range(sent) \subseteq Msgs
  <2>1. 1 \in Partitions /\ Keyed \subseteq Msgs
    BY KafkaAssumption DEF Partitions
  <2>2. \A s \in Seq(Msgs) : Range(s) \subseteq Msgs
    BY DEF Range
  <2> QED BY <2>1, <2>2 DEF Typed
<1>1. ASSUME UNCHANGED <<log, sent, seen>> PROVE Ordered'
  BY <1>t, <1>1 DEF Ordered
<1>2. CASE Calling
  BY <1>1, <1>2 DEF Calling, readVars
<1>3. ASSUME NEW m \in Msgs, Send(m) PROVE Ordered'
  <2>1. CASE /\ UNCHANGED <<setup, readVars>>
             /\ sent' = IF Contains(sent, m) THEN sent ELSE Append(sent, m)
             /\ \E p \in Partitions :
                  /\ m \in Keyed => p = 1
                  /\ log' = [log EXCEPT ![p] = Append(log[p], m)]
    <3>1. PICK p \in Partitions : /\ m \in Keyed => p = 1
                                  /\ log' = [log EXCEPT ![p] = Append(log[p], m)]
      BY <2>1
    <3>2. /\ \A q \in Partitions : q # p => log'[q] = log[q]
          /\ log'[p] = Append(log[p], m)
      BY <3>1 DEF Typed
    <3>3. Range(log'[p]) = Range(log[p]) \union {m}
      BY <1>t, <3>2, AppendRange
    <3>4. /\ Range(sent') = Range(sent) \union {m}
          /\ \A a, b : Before(sent', a, b) =>
               Before(sent, a, b) \/ (b = m /\ m \notin Range(sent) /\ a \in Range(sent))
      <4>1. CASE m \in Range(sent)
        <5>1. sent' = sent
          BY <1>t, <2>1, <4>1, ContainsRange
        <5> QED BY <4>1, <5>1
      <4>2. CASE m \notin Range(sent)
        <5>1. sent' = Append(sent, m)
          BY <1>t, <2>1, <4>2, ContainsRange
        <5>2. Range(Append(sent, m)) = Range(sent) \union {m}
          BY <1>t, AppendRange
        <5>3. \A a, b : Before(Append(sent, m), a, b) => Before(sent, a, b) \/ (b = m /\ a \in Range(sent))
          BY <1>t, BeforeAppend
        <5> QED BY <4>2, <5>1, <5>2, <5>3
      <4> QED BY <4>1, <4>2
    <3>5. \A q \in Partitions : \A n \in Range(log'[q]) : n \in Keyed => q = 1
      BY <1>t, <3>1, <3>2, <3>3 DEF Ordered
    <3>6. /\ p = 1 => Range(log'[1]) = Range(log[1]) \union {m}
          /\ p # 1 => Range(log'[1]) = Range(log[1]) /\ m \notin Keyed
      BY <1>t, <3>1, <3>2, <3>3
    <3>7. \A n \in Keyed : n \in Range(sent') <=> n \in Range(log'[1])
      BY <3>1, <3>4, <3>6 DEF Ordered
    <3>8. /\ \A a, b : First(log[1], a, b) => First(log'[1], a, b)
          /\ \A a, b : First(log'[1], a, b) => First(log[1], a, b) \/ b \notin Range(log[1])
          /\ p = 1 /\ m \notin Range(log[1]) => \A a \in Range(log[1]) : First(log'[1], a, m)
      <4>1. CASE p = 1
        <5>1. log[1] \in Seq(Msgs) /\ log'[1] = Append(log[1], m)
          BY <1>t, <3>2, <4>1
        <5>2. /\ \A a, b : First(log[1], a, b) => First(log'[1], a, b)
              /\ m \notin Range(log[1]) => \A a \in Range(log[1]) : First(log'[1], a, m)
              /\ \A a, b : First(log'[1], a, b) => First(log[1], a, b) \/ (b = m /\ m \notin Range(log[1]))
          BY <5>1, FirstAppend
        <5> QED BY <5>2
      <4>2. CASE p # 1
        BY <1>t, <3>2, <4>2
      <4> QED BY <4>1, <4>2
    <3>9. \A a, b \in Keyed : Before(sent', a, b) => First(log'[1], a, b)
      <4> SUFFICES ASSUME NEW a \in Keyed, NEW b \in Keyed, Before(sent', a, b) PROVE First(log'[1], a, b)
        OBVIOUS
      <4>1. CASE Before(sent, a, b)
        BY <3>8, <4>1 DEF Ordered
      <4>2. CASE b = m /\ m \notin Range(sent) /\ a \in Range(sent)
        <5>1. p = 1 /\ m \notin Range(log[1]) /\ a \in Range(log[1])
          BY <3>1, <4>2 DEF Ordered
        <5> QED BY <3>8, <4>2, <5>1
      <4> QED BY <3>4, <4>1, <4>2
    <3>10. seen' = seen
      BY <2>1 DEF readVars
    <3>11. \A g \in Groups : \A n \in Range(seen'[g]) \intersect Keyed : n \in Range(log[1]) /\ n \in Range(log'[1])
      BY <3>6, <3>10 DEF Ordered
    <3>12. \A a, b \in Keyed, g \in Groups :
             First(log'[1], a, b) /\ b \in Range(seen'[g]) => Before(seen'[g], a, b)
      BY <3>8, <3>10, <3>11 DEF Ordered
    <3> QED BY <3>5, <3>7, <3>9, <3>11, <3>12 DEF Ordered
  <2> QED BY <1>2, <1>3, <2>1, SendFacts
<1>4. ASSUME NEW mb \in Members, Disconnect(mb) \/ Crash(mb) \/ Throw(mb) \/ Return(mb) PROVE Ordered'
  BY <1>1, <1>4, HandlerFacts
<1>5. ASSUME NEW mb \in Members, NEW p \in Partitions, Poll(mb, p) PROVE Ordered'
  <2> DEFINE off == NextOffset(mb, p)
             g == Group(mb)
             e == log[p][off + 1]
  <2>1. /\ off \in Nat /\ off + 1 \in DOMAIN log[p] /\ e \in Msgs
        /\ UNCHANGED <<log, sent>>
        /\ \/ seen' = seen
           \/ seen' = [seen EXCEPT ![g] = Append(seen[g], e)]
    BY <1>5, PollFacts
  <2>2. g \in Groups
    BY GroupType
  <2>3. SeenBelow(seen[g], log[p], off)
    BY DEF NextOffset, Given
  <2> HIDE DEF off, g
  <2>4. e \in Range(log[p]) /\ (e \in Keyed => p = 1)
    BY <2>1 DEF Range, Ordered
  <2>5. ASSUME NEW a, e \in Keyed, First(log[1], a, e) PROVE a \in Range(seen[g])
    <3>1. PICK i \in DOMAIN log[1] : log[1][i] = a /\ \A j \in DOMAIN log[1] : log[1][j] = e => i < j
      BY <2>5 DEF First
    <3>2. i < off + 1
      BY <2>1, <2>4, <2>5, <3>1
    <3>3. i - 1 \in 0 .. (off - 1) /\ (i - 1) + 1 = i
      <4>1. DOMAIN log[1] = 1 .. Len(log[1]) /\ Len(log[1]) \in Nat
        BY <1>t
      <4> QED BY <2>1, <3>1, <3>2, <4>1
    <3>4. Contains(seen[g], a)
      BY <2>3, <2>4, <2>5, <3>1, <3>3 DEF SeenBelow
    <3> QED BY <1>t, <2>2, <3>4, ContainsRange
  <2> HIDE DEF e
  <2>6. CASE seen' = seen
    BY <1>1, <2>1, <2>6
  <2>7. CASE seen' = [seen EXCEPT ![g] = Append(seen[g], e)]
    <3>1. /\ seen'[g] = Append(seen[g], e)
          /\ \A h \in Groups : h # g => seen'[h] = seen[h]
      BY <2>2, <2>7 DEF Typed
    <3>2. Range(seen'[g]) = Range(seen[g]) \union {e}
      BY <1>t, <2>1, <2>2, <3>1, AppendRange
    <3>3. \A h \in Groups : \A n \in Range(seen'[h]) \intersect Keyed : n \in Range(log[1])
      <4> TAKE h \in Groups
      <4>1. CASE h = g
        <5>1. e \in Keyed => e \in Range(log[1])
          BY <2>4
        <5> QED BY <3>2, <4>1, <5>1 DEF Ordered
      <4>2. CASE h # g
        BY <3>1, <4>2 DEF Ordered
      <4> QED BY <4>1, <4>2
    <3>4. ASSUME NEW a \in Keyed, NEW b \in Keyed, First(log[1], a, b), b \in Range(seen'[g])
          PROVE  Before(seen'[g], a, b)
      <4>1. CASE b \in Range(seen[g])
        <5>1. Before(seen[g], a, b)
          BY <2>2, <3>4, <4>1 DEF Ordered
        <5> QED BY <1>t, <2>1, <2>2, <3>1, <5>1, BeforeAppend
      <4>2. CASE b = e
        <5>1. a \in Range(seen[g])
          BY <2>5, <3>4, <4>2
        <5> QED BY <1>t, <2>1, <2>2, <3>1, <4>2, <5>1, BeforeAppend
      <4> QED BY <3>2, <3>4, <4>1, <4>2
    <3>5. \A a, b \in Keyed, h \in Groups :
            First(log[1], a, b) /\ b \in Range(seen'[h]) => Before(seen'[h], a, b)
      BY <3>1, <3>4 DEF Ordered
    <3> QED BY <2>1, <3>3, <3>5 DEF Ordered
  <2> QED BY <2>1, <2>6, <2>7
<1>6. ASSUME NEW g \in Groups, Rebalance(g) PROVE Ordered'
  BY <1>1, <1>6 DEF Rebalance, brokerVars, handlerVars
<1>7. ASSUME NEW r \in incoming, Ack(r) PROVE Ordered'
  BY <1>1, <1>7 DEF Ack, brokerVars
<1>8. ASSUME NEW r \in incoming, Nack(r) PROVE Ordered'
  BY <1>1, <1>8 DEF Nack, brokerVars
<1> QED BY <1>2, <1>3, <1>4, <1>5, <1>6, <1>7, <1>8, StepCases DEF Stepping

(* A group gets the messages of a key for the first time in the order they *)
(* were sent, whatever its members do and whatever happens to them: see    *)
(* GroupOrder.                                                             *)
THEOREM OrderSafety == Spec => []GroupOrder
<1>1. Init => Ordered
  <2> SUFFICES ASSUME Init PROVE Ordered
    OBVIOUS
  <2>1. 1 \in Partitions
    BY KafkaAssumption DEF Partitions
  <2>2. /\ \A p \in Partitions : log[p] = <<>>
        /\ \A g \in Groups : seen[g] = <<>>
        /\ sent = <<>>
    BY DEF Init, Grid
  <2>3. Range(<<>>) = {} /\ \A a, b : ~Before(<<>>, a, b) /\ ~First(<<>>, a, b)
    BY DEF Range, Before, First
  <2> QED BY <2>1, <2>2, <2>3 DEF Ordered
<1>2. Typed /\ Ordered => GroupOrder
  <2> SUFFICES ASSUME Typed, Ordered PROVE GroupOrder
    OBVIOUS
  <2>1. \A g \in Groups : \A n : Contains(seen[g], n) => n \in Range(seen[g])
    BY ContainsRange DEF Typed
  <2> QED BY <2>1 DEF Ordered, GroupOrder
<1> QED BY <1>1, <1>2, OrderedStep, GivenInvariant, TypedInvariant, PTL DEF Spec
=============================================================================
