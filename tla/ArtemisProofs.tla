--------------------------- MODULE ArtemisProofs ----------------------------
(***************************************************************************)
(* Safety of the Artemis adapter on one destination, for any calls,        *)
(* messages and subscriptions and every setup the two ports allow.         *)
(***************************************************************************)
EXTENDS Artemis, ArrayLemmas

-----------------------------------------------------------------------------
(* Types                                                                   *)

Sends == [type: {"send"}, msg: Msgs]
Dispositions == [type: {"accept", "modified", "reject"}, msg: Msgs, sub: Subs]
Frames == Sends \union Dispositions

Steps == {"idle", "opening", "done", "retrying", "late", "reconnecting", "disposed",
          "sendable", "send", "sent", "receiving", "closed"}
Endings == {"no", "unrouted", "deleted", "accepted", "removed"}

Deliveries == [sub: Subs, msg: Msgs, settled: BOOLEAN]

(* The values the adapter's and the broker's state take, as far as the     *)
(* theorems depend on it.                                                  *)
TypeOK ==
  /\ setup \in Setups
  /\ pc \in [Calls \union Msgs \union Subs -> Steps]
  /\ cancelling \in [Msgs -> {"no", "find", "remove", "done"}]
  /\ up \subseteq Calls
  /\ wire \in [Calls -> Seq(Frames)]
  /\ exists \subseteq Addresses
  /\ queue \in [Addresses -> Seq(Msgs)]
  /\ scheduled \subseteq Msgs
  /\ unsettled \in [Subs -> SUBSET Msgs]
  /\ incoming \subseteq Deliveries
  /\ over \in [Msgs -> Endings]
  /\ early \subseteq Msgs

(* A frame carries a message or settles one a receiver was given.          *)
LEMMA FrameFacts ==
  /\ \A m \in Msgs : [type |-> "send", msg |-> m] \in Frames
  /\ \A how \in {"accept", "modified", "reject"}, r \in Deliveries : Frame(how, r) \in Frames
  /\ \A f \in Frames : f.msg \in Msgs /\ (f.type # "send" => f.sub \in Subs)
<1>1. \A m \in Msgs : [type |-> "send", msg |-> m] \in Sends
  BY DEF Sends
<1>2. \A how \in {"accept", "modified", "reject"}, r \in Deliveries : Frame(how, r) \in Dispositions
  BY DEF Dispositions, Deliveries, Frame
<1>3. \A f \in Sends : f.msg \in Msgs /\ f.type = "send"
  BY DEF Sends
<1>4. \A f \in Dispositions : f.msg \in Msgs /\ f.sub \in Subs
  BY DEF Dispositions
<1> QED BY <1>1, <1>2, <1>3, <1>4 DEF Frames

(* Every subscription has one of the four addresses.                       *)
LEMMA AddressType == ASSUME TypeOK, NEW s \in Subs PROVE Address(s) \in Addresses
<1>1. setup.topic[s] \in {"queue", "topic", ".dlq", ".expiry"}
  BY ArtemisAssumption DEF TypeOK, Setup
<1> QED BY <1>1 DEF Address, Addresses

(* A connection takes a frame at its end, or is down.                      *)
LEMMA WriteType ==
  ASSUME TypeOK, NEW s, NEW f \in Frames, Write(s, f)
  PROVE  wire' \in [Calls -> Seq(Frames)]
<1>1. CASE link[s] \in up /\ pc[s] = "receiving"
  <2>1. link[s] \in Calls
    BY <1>1 DEF TypeOK
  <2>2. Append(wire[link[s]], f) \in Seq(Frames)
    BY <2>1 DEF TypeOK
  <2> QED BY <1>1, <2>1, <2>2 DEF Write, TypeOK
<1> QED BY <1>1 DEF Write, TypeOK

-----------------------------------------------------------------------------
(* What the broker does to its queues                                      *)

(* One queue is rewritten with what was in it and what is nowhere else.    *)
LEMMA RewriteApart ==
  ASSUME NEW q \in [Addresses -> Seq(Msgs)], NEW u \in [Subs -> SUBSET Msgs],
         NEW v \in [Subs -> SUBSET Msgs], NEW b \in Addresses, NEW t \in Seq(Msgs),
         Apart(q, u), IsInjective(t), \A s \in Subs : v[s] \subseteq u[s],
         \A m \in Range(t) : \/ m \in Range(q[b])
                             \/ /\ \A a \in Addresses : m \notin Range(q[a])
                                /\ \A s \in Subs : m \notin v[s]
  PROVE  Apart([q EXCEPT ![b] = t], v)
<1> DEFINE r == [q EXCEPT ![b] = t]
<1>1. r[b] = t /\ \A a \in Addresses : a # b => r[a] = q[a]
  OBVIOUS
<1>2. \A a \in Addresses : IsInjective(r[a])
  BY <1>1 DEF Apart
<1> HIDE DEF r
<1>3. \A a, c \in Addresses, m \in Msgs : m \in Range(r[a]) /\ m \in Range(r[c]) => a = c
  BY <1>1 DEF Apart
<1>4. \A a \in Addresses, s \in Subs, m \in Msgs : ~(m \in Range(r[a]) /\ m \in v[s])
  BY <1>1 DEF Apart
<1>5. \A s, x \in Subs, m \in Msgs : m \in v[s] /\ m \in v[x] => s = x
  BY DEF Apart
<1>6. Apart(r, v)
  BY <1>2, <1>3, <1>4, <1>5 DEF Apart
<1> QED BY <1>6 DEF r

(* A receiver gets the head of a queue.                                    *)
LEMMA DeliverApart ==
  ASSUME NEW q \in [Addresses -> Seq(Msgs)], NEW u \in [Subs -> SUBSET Msgs],
         NEW b \in Addresses, NEW s \in Subs, Apart(q, u), q[b] # <<>>
  PROVE  Apart([q EXCEPT ![b] = Tail(@)], [u EXCEPT ![s] = @ \union {Head(q[b])}])
<1> DEFINE m == Head(q[b])
           r == [q EXCEPT ![b] = Tail(@)]
           v == [u EXCEPT ![s] = @ \union {m}]
<1>1. /\ q[b] \in Seq(Msgs) /\ IsInjective(q[b])
  BY DEF Apart
<1>2. /\ m \in Range(q[b]) /\ IsInjective(Tail(q[b])) /\ Range(Tail(q[b])) = Range(q[b]) \ {m}
      /\ m \in Msgs
  BY <1>1, TailRange, TailElements
<1>3. r[b] = Tail(q[b]) /\ \A a \in Addresses : a # b => r[a] = q[a]
  OBVIOUS
<1>4. \A x \in Subs, n \in Msgs : n \in v[x] <=> n \in u[x] \/ (x = s /\ n = m)
  OBVIOUS
<1> HIDE DEF r, v, m
<1>5. \A a \in Addresses : IsInjective(r[a])
  BY <1>2, <1>3 DEF Apart
<1>6. \A a \in Addresses, n \in Msgs :
        /\ n \in Range(r[a]) => n \in Range(q[a])
        /\ m \notin Range(r[a])
  BY <1>2, <1>3 DEF Apart
<1>7. \A a, c \in Addresses, n \in Msgs : n \in Range(r[a]) /\ n \in Range(r[c]) => a = c
  BY <1>6 DEF Apart
<1>8. \A a \in Addresses, x \in Subs, n \in Msgs : ~(n \in Range(r[a]) /\ n \in v[x])
  BY <1>4, <1>6 DEF Apart
<1>9. \A x, y \in Subs, n \in Msgs : n \in v[x] /\ n \in v[y] => x = y
  BY <1>2, <1>4 DEF Apart
<1>10. Apart(r, v)
  BY <1>5, <1>7, <1>8, <1>9 DEF Apart
<1> QED BY <1>10 DEF r, v, m

(* A routed message goes to the end of one queue, or is gone.              *)
LEMMA RouteQueues ==
  ASSUME TypeOK, NEW m \in Msgs, NEW a \in Addresses \union {"nowhere"},
         Route(m, a)
  PROVE  /\ queue' \in [Addresses -> Seq(Msgs)] /\ over' \in [Msgs -> Endings]
         /\ \A x \in Msgs : over'[x] = "accepted" => over[x] = "accepted"
         /\ \/ queue' = queue
            \/ \E b \in Addresses : queue' = [queue EXCEPT ![b] = Append(@, m)]
<1>1. CASE a \in exists
  <2>1. a \in Addresses /\ queue' = [queue EXCEPT ![a] = Append(@, m)] /\ over' = over
    BY <1>1 DEF Route, TypeOK
  <2>2. Append(queue[a], m) \in Seq(Msgs)
    BY <2>1 DEF TypeOK
  <2> QED BY <2>1, <2>2 DEF TypeOK
<1>2. CASE a \notin exists
  <2>1. queue' = queue /\ over' = [over EXCEPT ![m] = "unrouted"]
    BY <1>2 DEF Route
  <2>2. \A x \in Msgs : over'[x] = "accepted" => over[x] = "accepted"
    BY <2>1 DEF TypeOK
  <2>3. over' \in [Msgs -> Endings]
    BY <2>1 DEF TypeOK, Endings
  <2> QED BY <2>1, <2>2, <2>3 DEF TypeOK
<1> QED BY <1>1, <1>2

(* A step of the broker that brings in at most the messages of X, keeps    *)
(* every message in one place and records none as consumed.                *)
Moves(X) ==
  /\ queue' \in [Addresses -> Seq(Msgs)] /\ unsettled' \in [Subs -> SUBSET Msgs]
  /\ \A m \in Msgs : Stored(m)' => Stored(m) \/ m \in X
  /\ Apart(queue, unsettled) => Apart(queue', unsettled')

(* How a message ended is recorded, but not that it was consumed.          *)
Ends == over' \in [Msgs -> Endings] /\ \A m \in Msgs : over'[m] = "accepted" => over[m] = "accepted"

(* One queue is rewritten and receivers give up what they hold; the new    *)
(* elements were in no queue and are with no receiver any more.            *)
LEMMA RewriteMoves ==
  ASSUME TypeOK, NEW b \in Addresses, NEW t \in Seq(Msgs), NEW X \in SUBSET Msgs,
         queue' = [queue EXCEPT ![b] = t], unsettled' \in [Subs -> SUBSET Msgs],
         \A s \in Subs : unsettled'[s] \subseteq unsettled[s],
         Range(t) \subseteq Range(queue[b]) \union X,
         Apart(queue, unsettled) =>
           /\ IsInjective(t)
           /\ \A m \in X : /\ \A a \in Addresses : m \notin Range(queue[a])
                           /\ \A s \in Subs : m \notin unsettled'[s]
  PROVE  Moves(X)
<1>1. queue \in [Addresses -> Seq(Msgs)] /\ unsettled \in [Subs -> SUBSET Msgs]
  BY DEF TypeOK
<1>2. queue' \in [Addresses -> Seq(Msgs)]
  BY <1>1
<1>3. ASSUME Apart(queue, unsettled) PROVE Apart(queue', unsettled')
  BY <1>1, <1>3, RewriteApart
<1>4. queue'[b] = t /\ \A a \in Addresses : a # b => queue'[a] = queue[a]
  BY <1>1
<1>5. \A m \in Msgs, a \in Addresses : m \in Range(queue'[a]) => m \in Range(queue[a]) \/ m \in X
  BY <1>4
<1>6. \A m \in Msgs : Stored(m)' => Stored(m) \/ m \in X
  BY <1>5 DEF Stored
<1> QED BY <1>2, <1>3, <1>6 DEF Moves

(* A message that is nowhere, or that its receiver gives up, is routed.    *)
LEMMA RouteMoves ==
  ASSUME TypeOK, NEW m \in Msgs, NEW a \in Addresses \union {"nowhere"}, Route(m, a),
         unsettled' \in [Subs -> SUBSET Msgs],
         \A s \in Subs : unsettled'[s] \subseteq unsettled[s],
         Apart(queue, unsettled) =>
           /\ \A b \in Addresses : m \notin Range(queue[b])
           /\ \A s \in Subs : m \notin unsettled'[s]
  PROVE  Moves({m}) /\ Ends
<1>1. Ends
  BY RouteQueues DEF Ends
<1>2. CASE queue' = queue
  <2>1. queue \in [Addresses -> Seq(Msgs)] /\ unsettled \in [Subs -> SUBSET Msgs]
    BY DEF TypeOK
  <2>2. Apart(queue, unsettled) => Apart(queue', unsettled')
    BY <1>2, <2>1 DEF Apart
  <2>3. \A n \in Msgs : Stored(n)' => Stored(n)
    BY <1>2 DEF Stored
  <2> QED BY <1>1, <1>2, <2>1, <2>2, <2>3 DEF Moves
<1>3. ASSUME NEW b \in Addresses, queue' = [queue EXCEPT ![b] = Append(@, m)] PROVE Moves({m})
  <2>1. queue[b] \in Seq(Msgs)
    BY DEF TypeOK
  <2>2. queue' = [queue EXCEPT ![b] = Append(queue[b], m)]
    BY <1>3
  <2>3. /\ Append(queue[b], m) \in Seq(Msgs)
        /\ Range(Append(queue[b], m)) = Range(queue[b]) \union {m}
        /\ m \notin Range(queue[b]) /\ IsInjective(queue[b]) => IsInjective(Append(queue[b], m))
    BY <2>1, AppendRange
  <2>4. Apart(queue, unsettled) => IsInjective(queue[b])
    BY DEF Apart
  <2> QED BY <2>2, <2>3, <2>4, RewriteMoves
<1> QED BY <1>1, <1>2, <1>3, RouteQueues

(* receiver.close(): the messages go back to the head of the queue, or     *)
(* with the queue.                                                         *)
LEMMA UnsubscribeMoves ==
  ASSUME TypeOK, NEW s \in Subs, Unsubscribe(s)
  PROVE  Moves({}) /\ Ends
<1> DEFINE a == Address(s)
           gone == AutoDeleted(s)
           back == SetToSeq(unsettled[s])
           q == IF gone THEN <<>> ELSE back \o queue[a]
<1>1. /\ a \in Addresses /\ queue[a] \in Seq(Msgs) /\ unsettled[s] \in SUBSET Msgs
  BY AddressType DEF TypeOK
<1>2. unsettled' = [unsettled EXCEPT ![s] = {}]
  BY DEF Unsubscribe
<1>3. /\ unsettled' \in [Subs -> SUBSET Msgs] /\ unsettled'[s] = {}
      /\ \A t \in Subs : unsettled'[t] \subseteq unsettled[t]
      /\ \A t \in Subs : t # s => unsettled'[t] = unsettled[t]
  BY <1>2 DEF TypeOK
<1>4. IsFiniteSet(unsettled[s])
  BY <1>1, ArtemisAssumption, FS_Subset
<1>5. /\ back \in Seq(unsettled[s]) /\ Range(back) \subseteq unsettled[s] /\ IsInjective(back)
  BY <1>4, SetToSeqElements
<1>6. back \in Seq(Msgs)
  BY <1>1, <1>5
<1>7. queue' = [queue EXCEPT ![a] = q]
  BY DEF Unsubscribe
<1>8. Ends
  <2>1. \A m \in Msgs : over'[m] = over[m] \/ over'[m] = "deleted"
    BY DEF Unsubscribe
  <2>2. over' = [m \in Msgs |-> over'[m]]
    BY DEF Unsubscribe
  <2> QED BY <2>1, <2>2 DEF Ends, TypeOK, Endings
<1>9. CASE gone
  <2>1. q = <<>>
    BY <1>9
  <2> HIDE DEF q, back, gone, a
  <2>2. DOMAIN q = {} /\ q \in Seq(Msgs)
    BY <2>1
  <2>3. Range(q) = {} /\ IsInjective(q)
    BY <2>2 DEF Range, IsInjective
  <2> QED BY <1>1, <1>3, <1>7, <1>8, <2>2, <2>3, RewriteMoves
<1>10. CASE ~gone
  <2>1. q = back \o queue[a]
    BY <1>10
  <2> HIDE DEF q, back, gone, a
  <2>2. q \in Seq(Msgs) /\ Range(q) = Range(back) \union Range(queue[a])
    BY <1>1, <1>6, <2>1, ConcatRange
  <2>3. ASSUME Apart(queue, unsettled)
        PROVE  /\ IsInjective(q)
               /\ \A m \in unsettled[s] : /\ \A b \in Addresses : m \notin Range(queue[b])
                                          /\ \A t \in Subs : m \notin unsettled'[t]
    <3>1. \A m \in unsettled[s], b \in Addresses : m \notin Range(queue[b])
      BY <1>1, <2>3 DEF Apart
    <3>2. \A m \in unsettled[s], t \in Subs : m \notin unsettled'[t]
      BY <1>1, <1>3, <2>3 DEF Apart
    <3>3. Range(back) \intersect Range(queue[a]) = {} /\ IsInjective(queue[a])
      BY <1>1, <1>5, <2>3, <3>1 DEF Apart
    <3>4. IsInjective(q)
      BY <1>1, <1>5, <1>6, <2>1, <3>3, ConcatInjective
    <3> QED BY <3>1, <3>2, <3>4
  <2>4. Moves(unsettled[s])
    BY <1>1, <1>3, <1>5, <1>7, <2>2, <2>3, RewriteMoves
  <2>5. \A m \in unsettled[s] : Stored(m)
    BY DEF Stored
  <2> QED BY <1>8, <2>4, <2>5 DEF Moves
<1> QED BY <1>9, <1>10

(* A receiver gets the head of its queue.                                  *)
LEMMA DeliverMoves ==
  ASSUME TypeOK, NEW s \in Subs, Deliver(s)
  PROVE  Moves({})
<1> DEFINE a == Address(s)
           m == Head(queue[a])
<1>1. /\ a \in Addresses /\ queue[a] \in Seq(Msgs) /\ unsettled[s] \in SUBSET Msgs
      /\ queue \in [Addresses -> Seq(Msgs)] /\ unsettled \in [Subs -> SUBSET Msgs]
  BY AddressType DEF TypeOK
<1>2. /\ queue[a] # <<>> /\ queue' = [queue EXCEPT ![a] = Tail(@)]
      /\ unsettled' = [unsettled EXCEPT ![s] = @ \union {m}]
  BY DEF Deliver
<1> HIDE DEF a
<1>3. /\ m \in Msgs /\ m \in Range(queue[a]) /\ Tail(queue[a]) \in Seq(Msgs)
      /\ Range(Tail(queue[a])) \subseteq Range(queue[a])
  BY <1>1, <1>2, TailElements, TailRange
<1>4. Apart(queue, unsettled) => Apart(queue', unsettled')
  BY <1>1, <1>2, DeliverApart
<1> HIDE DEF m
<1>5. queue' \in [Addresses -> Seq(Msgs)] /\ unsettled' \in [Subs -> SUBSET Msgs]
  BY <1>1, <1>2, <1>3
<1>6. \A b \in Addresses : Range(queue'[b]) \subseteq Range(queue[b])
  BY <1>1, <1>2, <1>3
<1>7. \A t \in Subs, n \in Msgs : n \in unsettled'[t] => n \in unsettled[t] \/ n = m
  BY <1>1, <1>2
<1>8. \A n \in Msgs : Stored(n)' => Stored(n)
  BY <1>1, <1>3, <1>6, <1>7 DEF Stored
<1> QED BY <1>4, <1>5, <1>8 DEF Moves

(* A settlement: the message is gone, back at the head of its queue, or    *)
(* dead; one of a delivery taken back changes nothing.                     *)
LEMMA DispositionMoves ==
  ASSUME TypeOK, NEW f \in Frames, f.type # "send", TakeDisposition(f)
  PROVE  /\ Moves({})
         /\ over' \in [Msgs -> Endings]
         /\ \A m \in Msgs : over'[m] = "accepted" =>
              over[m] = "accepted" \/ (m = f.msg /\ f.type = "accept")
<1> DEFINE n == f.msg
           s == f.sub
<1>0. /\ n \in Msgs /\ s \in Subs /\ Address(s) \in Addresses
      /\ queue \in [Addresses -> Seq(Msgs)] /\ unsettled \in [Subs -> SUBSET Msgs]
      /\ over \in [Msgs -> Endings]
  BY FrameFacts, AddressType DEF TypeOK
<1>1. CASE n \notin unsettled[s]
  <2>1. queue' = queue /\ unsettled' = unsettled /\ over' = over
    BY <1>1 DEF TakeDisposition
  <2> QED BY <1>0, <2>1 DEF Moves, Stored
<1>2. CASE n \in unsettled[s]
  <2>1. unsettled' = [unsettled EXCEPT ![s] = @ \ {n}]
    BY <1>2 DEF TakeDisposition
  <2>2. /\ unsettled' \in [Subs -> SUBSET Msgs]
        /\ \A t \in Subs : unsettled'[t] \subseteq unsettled[t]
        /\ n \notin unsettled'[s] /\ \A t \in Subs : t # s => unsettled'[t] = unsettled[t]
    BY <1>0, <2>1
  <2>3. Apart(queue, unsettled) =>
          /\ \A b \in Addresses : n \notin Range(queue[b])
          /\ \A t \in Subs : n \notin unsettled'[t]
    BY <1>0, <1>2, <2>2 DEF Apart
  <2>4. Stored(n)
    BY <1>0, <1>2 DEF Stored
  <2>5. Moves({n}) => Moves({})
    BY <2>4 DEF Moves
  <2>6. \/ f.type = "accept" /\ over' = [over EXCEPT ![n] = "accepted"] /\ queue' = queue
        \/ queue' = [queue EXCEPT ![Address(s)] = <<n>> \o @] /\ over' = over
        \/ Route(n, "dla")
    BY <1>2 DEF TakeDisposition
  <2> HIDE DEF n, s
  <2>7. CASE f.type = "accept" /\ over' = [over EXCEPT ![n] = "accepted"] /\ queue' = queue
    <3>1. Apart(queue, unsettled) => Apart(queue', unsettled')
      BY <1>0, <2>2, <2>7 DEF Apart
    <3>2. \A m \in Msgs : Stored(m)' => Stored(m)
      BY <2>2, <2>7 DEF Stored
    <3>3. over' \in [Msgs -> Endings]
      BY <1>0, <2>7 DEF Endings
    <3>4. \A m \in Msgs : over'[m] = over[m] \/ m = n
      BY <1>0, <2>7
    <3> QED BY <1>0, <2>2, <2>7, <3>1, <3>2, <3>3, <3>4 DEF Moves, n
  <2>8. CASE queue' = [queue EXCEPT ![Address(s)] = <<n>> \o @] /\ over' = over
    <3> DEFINE b == Address(s)
               t == <<n>> \o queue[b]
    <3>1. queue[b] \in Seq(Msgs)
      BY <1>0
    <3>2. queue' = [queue EXCEPT ![b] = t]
      BY <2>8
    <3>3. /\ t \in Seq(Msgs) /\ Range(t) = Range(queue[b]) \union {n}
          /\ n \notin Range(queue[b]) /\ IsInjective(queue[b]) => IsInjective(t)
      BY <1>0, <3>1, PrependRange
    <3>4. Apart(queue, unsettled) => IsInjective(queue[b])
      BY <1>0 DEF Apart
    <3> HIDE DEF b, t
    <3>5. b \in Addresses
      BY <1>0 DEF b
    <3>6. Moves({n})
      <4>1. Apart(queue, unsettled) =>
              /\ IsInjective(t)
              /\ \A m \in {n} : /\ \A a \in Addresses : m \notin Range(queue[a])
                                /\ \A x \in Subs : m \notin unsettled'[x]
        BY <1>0, <2>2, <2>3, <3>3, <3>4, <3>5
      <4>2. /\ unsettled' \in [Subs -> SUBSET Msgs] /\ {n} \in SUBSET Msgs
            /\ \A x \in Subs : unsettled'[x] \subseteq unsettled[x]
            /\ Range(t) \subseteq Range(queue[b]) \union {n} /\ t \in Seq(Msgs)
        BY <1>0, <2>2, <3>3
      <4> QED BY <3>2, <3>5, <4>1, <4>2, RewriteMoves
    <3> QED BY <1>0, <2>5, <2>8, <3>6
  <2>9. CASE Route(n, "dla")
    <3>1. Moves({n}) /\ Ends
      BY <1>0, <2>2, <2>3, <2>9, RouteMoves DEF Addresses
    <3> QED BY <2>5, <3>1 DEF Ends
  <2> QED BY <2>6, <2>7, <2>8, <2>9
<1> QED BY <1>1, <1>2

(* What a lost connection's receivers held goes back to the queues or to   *)
(* the dead letters.                                                       *)
LEMMA LoseMoves ==
  ASSUME TypeOK, NEW c \in Calls, Lose(c)
  PROVE  Moves({}) /\ Ends
<1> DEFINE gone == {Address(s) : s \in {t \in Receiving(c) : AutoDeleted(t)}}
           dead == {m \in Held(c) : Exhausted(m)}
           back(a) == {m \in Held(c) \ dead : \E s \in Receivers(c) :
                                                m \in unsettled[s] /\ Address(s) = a}
           kept(a) == IF a \in gone THEN <<>> ELSE SetToSeq(back(a)) \o queue[a]
           deadLetters == "dla" \in exists \ gone
           tail(a) == IF a = "dla" /\ deadLetters THEN SetToSeq(dead) ELSE <<>>
           late(a) == {m \in dead : a = "dla"}
<1>1. /\ queue \in [Addresses -> Seq(Msgs)] /\ unsettled \in [Subs -> SUBSET Msgs]
      /\ over \in [Msgs -> Endings]
  BY DEF TypeOK
<1>2. \A m : m \in Held(c) <=> \E s \in Subs : link[s] = c /\ m \in unsettled[s]
  BY DEF Held, Receivers
<1>3. Held(c) \subseteq Msgs
  BY <1>1, <1>2
<1>4. \A X \in SUBSET Msgs : /\ SetToSeq(X) \in Seq(Msgs) /\ Range(SetToSeq(X)) \subseteq X
                             /\ IsInjective(SetToSeq(X))
  <2> TAKE X \in SUBSET Msgs
  <2>1. IsFiniteSet(X)
    BY ArtemisAssumption, FS_Subset
  <2>2. /\ SetToSeq(X) \in Seq(X) /\ Range(SetToSeq(X)) \subseteq X /\ IsInjective(SetToSeq(X))
    BY <2>1, SetToSeqElements
  <2> QED BY <2>2
<1>5. queue' = [a \in Addresses |-> kept(a) \o tail(a)]
  BY DEF Lose
<1>6. unsettled' = [s \in Subs |-> IF s \in Receivers(c) THEN {} ELSE unsettled[s]]
  BY DEF Lose
<1>7. unsettled' \in [Subs -> SUBSET Msgs]
  BY <1>1, <1>6
<1>8. \A s \in Subs, m \in Msgs : m \in unsettled'[s] => m \in unsettled[s] /\ link[s] # c
  BY <1>1, <1>6 DEF Receivers
<1>9. Ends
  <2>1. over' = [m \in Msgs |->
                   IF m \in dead /\ ~deadLetters THEN "unrouted"
                   ELSE IF \E a \in gone : m \in back(a) \/ Contains(queue[a], m) THEN "deleted"
                   ELSE over[m]]
    BY DEF Lose
  <2> HIDE DEF dead, gone, back, deadLetters
  <2>2. \A m \in Msgs : over'[m] = over[m] \/ over'[m] = "unrouted" \/ over'[m] = "deleted"
    BY <2>1
  <2> QED BY <1>1, <2>1, <2>2 DEF Ends, Endings
<1>10. dead \subseteq Held(c) /\ dead \in SUBSET Msgs
  BY <1>3
<1>11. \A a : back(a) \in SUBSET Msgs /\ back(a) \intersect dead = {}
  BY <1>3
<1>12. \A m, a : m \in back(a) => \E s \in Subs : link[s] = c /\ m \in unsettled[s] /\ Address(s) = a
  BY DEF Receivers
<1>13. \A a : /\ tail(a) \in Seq(Msgs) /\ Range(tail(a)) \subseteq late(a) /\ IsInjective(tail(a))
  <2> TAKE a
  <2> HIDE DEF dead, deadLetters
  <2>1. CASE a = "dla" /\ deadLetters
    BY <1>4, <1>10, <2>1
  <2>2. CASE ~(a = "dla" /\ deadLetters)
    <3>1. tail(a) = <<>>
      BY <2>2
    <3> HIDE DEF tail
    <3>2. DOMAIN tail(a) = {} /\ tail(a) \in Seq(Msgs)
      BY <3>1
    <3> QED BY <3>2 DEF Range, IsInjective
  <2> QED BY <2>1, <2>2
<1>14. \A a \in Addresses :
         /\ kept(a) \in Seq(Msgs)
         /\ Range(kept(a)) \subseteq Range(queue[a]) \union back(a)
         /\ /\ IsInjective(queue[a])
            /\ \A m \in back(a) : m \notin Range(queue[a])
            => IsInjective(kept(a))
  <2> TAKE a \in Addresses
  <2> DEFINE b == SetToSeq(back(a))
  <2>1. b \in Seq(Msgs) /\ Range(b) \subseteq back(a) /\ IsInjective(b)
    BY <1>4, <1>11
  <2>2. queue[a] \in Seq(Msgs)
    BY <1>1
  <2>3. CASE a \in gone
    <3>1. kept(a) = <<>>
      BY <2>3
    <3> HIDE DEF kept
    <3>2. DOMAIN kept(a) = {} /\ kept(a) \in Seq(Msgs)
      BY <3>1
    <3> QED BY <3>2 DEF Range, IsInjective
  <2>4. CASE a \notin gone
    <3>1. kept(a) = b \o queue[a]
      BY <2>4
    <3> HIDE DEF b, kept, back
    <3>2. b \o queue[a] \in Seq(Msgs) /\ Range(b \o queue[a]) = Range(b) \union Range(queue[a])
      BY <2>1, <2>2, ConcatRange
    <3>3. ASSUME IsInjective(queue[a]), \A m \in back(a) : m \notin Range(queue[a])
          PROVE  IsInjective(b \o queue[a])
      <4>1. Range(b) \intersect Range(queue[a]) = {}
        BY <2>1, <3>3
      <4> QED BY <2>1, <2>2, <3>3, <4>1, ConcatInjective
    <3> QED BY <2>1, <3>1, <3>2, <3>3
  <2> QED BY <2>3, <2>4
<1>15. \A a \in Addresses :
         /\ queue'[a] \in Seq(Msgs)
         /\ \A m \in Range(queue'[a]) : m \in Range(queue[a]) \/ m \in back(a) \/ m \in late(a)
  <2> TAKE a \in Addresses
  <2> DEFINE u == kept(a)
             t == tail(a)
  <2>1. /\ u \in Seq(Msgs) /\ Range(u) \subseteq Range(queue[a]) \union back(a)
        /\ t \in Seq(Msgs) /\ Range(t) \subseteq late(a)
    BY <1>13, <1>14
  <2>2. queue'[a] = u \o t
    BY <1>5
  <2> HIDE DEF u, t, back, late
  <2>3. u \o t \in Seq(Msgs) /\ Range(u \o t) = Range(u) \union Range(t)
    BY <2>1, ConcatRange
  <2> QED BY <2>1, <2>2, <2>3
<1>16. queue' \in [Addresses -> Seq(Msgs)]
  <2>1. queue' = [a \in Addresses |-> queue'[a]]
    BY <1>5
  <2> QED BY <1>15, <2>1
<1>17. \A m \in Msgs : Stored(m)' => Stored(m)
  <2>1. \A m \in Held(c) : \E s \in Subs : m \in unsettled[s]
    BY <1>2
  <2>2. \A m \in Msgs, a \in Addresses : m \in Range(queue'[a]) => m \in Range(queue[a]) \/ m \in Held(c)
    BY <1>15
  <2> HIDE DEF back, late, tail, kept
  <2> QED BY <1>8, <2>1, <2>2 DEF Stored
<1>18. ASSUME Apart(queue, unsettled) PROVE Apart(queue', unsettled')
  <2>1. \A m \in Msgs, a \in Addresses : m \in Held(c) => m \notin Range(queue[a])
    BY <1>2, <1>18 DEF Apart
  <2>2. \A a : back(a) \subseteq Held(c) /\ late(a) \subseteq dead
    OBVIOUS
  <2>3. \A a \in Addresses : IsInjective(queue'[a])
    <3> TAKE a \in Addresses
    <3> DEFINE u == kept(a)
               t == tail(a)
    <3>1. /\ u \in Seq(Msgs) /\ Range(u) \subseteq Range(queue[a]) \union back(a)
          /\ t \in Seq(Msgs) /\ Range(t) \subseteq dead /\ IsInjective(t)
      BY <1>13, <1>14, <2>2
    <3>2. queue'[a] = u \o t
      BY <1>5
    <3>3. IsInjective(u)
      <4> HIDE DEF back, kept
      <4>1. IsInjective(queue[a]) /\ \A m \in back(a) : m \notin Range(queue[a])
        BY <1>3, <1>18, <2>1, <2>2 DEF Apart
      <4> QED BY <1>14, <4>1
    <3> HIDE DEF u, t, back, late, tail, dead, kept
    <3>4. Range(u) \intersect Range(t) = {}
      BY <1>3, <1>10, <1>11, <2>1, <3>1
    <3> QED BY <3>1, <3>2, <3>3, <3>4, ConcatInjective
  <2>4. \A a, b \in Addresses, m \in Msgs : m \in back(a) /\ m \in back(b) => a = b
    <3> HIDE DEF back
    <3> QED BY <1>12, <1>18 DEF Apart
  <2>5. \A a, m : m \in late(a) => m \in dead /\ a = "dla"
    OBVIOUS
  <2> HIDE DEF back, late, tail, dead, kept
  <2>6. \A a, b \in Addresses, m \in Msgs : m \in Range(queue'[a]) /\ m \in Range(queue'[b]) => a = b
    <3> TAKE a, b \in Addresses, m \in Msgs
    <3> HAVE m \in Range(queue'[a]) /\ m \in Range(queue'[b])
    <3>1. CASE m \in Held(c)
      <4>1. m \in back(a) \/ m \in late(a)
        BY <1>15, <2>1, <3>1
      <4>2. m \in back(b) \/ m \in late(b)
        BY <1>15, <2>1, <3>1
      <4> QED BY <1>11, <2>4, <2>5, <4>1, <4>2
    <3>2. CASE m \notin Held(c)
      <4>1. m \in Range(queue[a]) /\ m \in Range(queue[b])
        BY <1>10, <1>15, <2>2, <2>5, <3>2
      <4> QED BY <1>18, <4>1 DEF Apart
    <3> QED BY <3>1, <3>2
  <2>7. \A a \in Addresses, s \in Subs, m \in Msgs : ~(m \in Range(queue'[a]) /\ m \in unsettled'[s])
    <3> SUFFICES ASSUME NEW a \in Addresses, NEW s \in Subs, NEW m \in Msgs,
                        m \in Range(queue'[a]), m \in unsettled'[s]
                 PROVE  FALSE
      OBVIOUS
    <3>1. m \in unsettled[s] /\ link[s] # c
      BY <1>8
    <3>2. m \notin Held(c)
      BY <1>2, <1>18, <3>1 DEF Apart
    <3>3. m \in Range(queue[a])
      BY <1>10, <1>15, <2>2, <2>5, <3>2
    <3> QED BY <1>18, <3>1, <3>3 DEF Apart
  <2>8. \A s, t \in Subs, m \in Msgs : m \in unsettled'[s] /\ m \in unsettled'[t] => s = t
    BY <1>8, <1>18 DEF Apart
  <2> QED BY <2>3, <2>6, <2>7, <2>8 DEF Apart
<1> HIDE DEF back, late, tail, dead, kept
<1> QED BY <1>7, <1>9, <1>16, <1>17, <1>18 DEF Moves

(* A message whose time to live is over goes to the expiry address.        *)
LEMMA ExpiresMoves ==
  ASSUME TypeOK, NEW m \in Msgs, Expires(m)
  PROVE  Moves({}) /\ Ends
<1> DEFINE q == RemoveFirst(queue["topic"], m)
           rest == [queue EXCEPT !["topic"] = q]
<1>0. /\ queue \in [Addresses -> Seq(Msgs)] /\ unsettled \in [Subs -> SUBSET Msgs]
      /\ over \in [Msgs -> Endings] /\ "topic" \in Addresses /\ "expiry" \in Addresses
      /\ queue["topic"] \in Seq(Msgs)
  BY DEF TypeOK, Addresses
<1>1. /\ q \in Seq(Msgs) /\ Range(q) \subseteq Range(queue["topic"])
      /\ IsInjective(queue["topic"]) => IsInjective(q) /\ Range(q) = Range(queue["topic"]) \ {m}
  BY <1>0, RemoveFirstElements
<1>2. m \in Range(queue["topic"]) /\ unsettled' = unsettled
  <2>1. Contains(queue["topic"], m) /\ unsettled' = unsettled
    BY DEF Expires
  <2> QED BY <1>0, <2>1 DEF Contains, Range
<1>3. \/ queue' = rest /\ over' = [over EXCEPT ![m] = "unrouted"]
      \/ queue' = [rest EXCEPT !["expiry"] = Append(@, m)] /\ over' = over
  BY DEF Expires
<1> HIDE DEF q
<1>4. /\ rest \in [Addresses -> Seq(Msgs)] /\ rest["topic"] = q
      /\ \A a \in Addresses : a # "topic" => rest[a] = queue[a]
  BY <1>0, <1>1
<1>5. \A a \in Addresses : Range(rest[a]) \subseteq Range(queue[a])
  BY <1>1, <1>4
<1>6. ASSUME Apart(queue, unsettled)
      PROVE  /\ Apart(rest, unsettled)
             /\ \A a \in Addresses : m \notin Range(rest[a])
             /\ \A s \in Subs : m \notin unsettled[s]
  <2>1. IsInjective(queue["topic"])
    BY <1>0, <1>6 DEF Apart
  <2>2. Apart(rest, unsettled)
    BY <1>0, <1>1, <1>6, <2>1, RewriteApart
  <2>3. \A a \in Addresses : m \notin Range(rest[a])
    BY <1>0, <1>1, <1>2, <1>4, <1>6, <2>1 DEF Apart
  <2>4. \A s \in Subs : m \notin unsettled[s]
    BY <1>0, <1>2, <1>6 DEF Apart
  <2> QED BY <2>2, <2>3, <2>4
<1> HIDE DEF rest
<1>7. CASE queue' = rest /\ over' = [over EXCEPT ![m] = "unrouted"]
  <2>1. \A n \in Msgs : Stored(n)' => Stored(n)
    BY <1>2, <1>5, <1>7 DEF Stored
  <2>2. \A n \in Msgs : over'[n] = "accepted" => over[n] = "accepted"
    BY <1>0, <1>7
  <2>3. over' \in [Msgs -> Endings]
    BY <1>0, <1>7 DEF Endings
  <2> QED BY <1>0, <1>2, <1>4, <1>6, <1>7, <2>1, <2>2, <2>3 DEF Moves, Ends
<1>8. CASE queue' = [rest EXCEPT !["expiry"] = Append(@, m)] /\ over' = over
  <2> DEFINE e == rest["expiry"]
             t == Append(e, m)
  <2>1. e \in Seq(Msgs)
    BY <1>0, <1>4
  <2>2. queue' = [rest EXCEPT !["expiry"] = t]
    BY <1>8
  <2>3. /\ t \in Seq(Msgs) /\ Range(t) = Range(e) \union {m}
        /\ m \notin Range(e) /\ IsInjective(e) => IsInjective(t)
    BY <2>1, AppendRange
  <2> HIDE DEF t
  <2>4. queue' \in [Addresses -> Seq(Msgs)]
    BY <1>4, <2>2, <2>3
  <2>5. ASSUME Apart(queue, unsettled) PROVE Apart(queue', unsettled')
    <3>1. IsInjective(e) /\ m \notin Range(e)
      BY <1>0, <1>6, <2>5 DEF Apart
    <3>2. \A n \in Range(t) : \/ n \in Range(rest["expiry"])
                              \/ /\ \A a \in Addresses : n \notin Range(rest[a])
                                 /\ \A s \in Subs : n \notin unsettled[s]
      BY <1>6, <2>3, <2>5
    <3>3. Apart(rest, unsettled) /\ IsInjective(t)
      BY <1>6, <2>3, <2>5, <3>1
    <3>4. Apart([rest EXCEPT !["expiry"] = t], unsettled)
      BY <1>0, <1>4, <2>3, <3>2, <3>3, RewriteApart
    <3> QED BY <1>2, <2>2, <3>4
  <2>6. \A a \in Addresses, n \in Msgs : n \in Range(queue'[a]) => n \in Range(queue[a]) \/ n = m
    BY <1>0, <1>4, <1>5, <2>2, <2>3
  <2>7. \A n \in Msgs : Stored(n)' => Stored(n)
    BY <1>0, <1>2, <2>6 DEF Stored
  <2> QED BY <1>0, <1>2, <1>8, <2>4, <2>5, <2>7 DEF Moves, Ends
<1> QED BY <1>3, <1>7, <1>8

(* removeMessages takes the message out of the queue.                      *)
LEMMA RemoveMoves ==
  ASSUME TypeOK, NEW m \in Msgs, RemoveMessages(m)
  PROVE  Moves({}) /\ Ends
<1> DEFINE q == RemoveFirst(queue["queue"], m)
<1>0. /\ queue \in [Addresses -> Seq(Msgs)] /\ unsettled \in [Subs -> SUBSET Msgs]
      /\ over \in [Msgs -> Endings] /\ "queue" \in Addresses /\ queue["queue"] \in Seq(Msgs)
  BY DEF TypeOK, Addresses
<1>1. /\ q \in Seq(Msgs) /\ Range(q) \subseteq Range(queue["queue"])
      /\ IsInjective(queue["queue"]) => IsInjective(q)
  BY <1>0, RemoveFirstElements
<1>2. queue' = [queue EXCEPT !["queue"] = q] /\ unsettled' = unsettled
  BY DEF RemoveMessages
<1>3. over' = over \/ over' = [over EXCEPT ![m] = "removed"]
  BY DEF RemoveMessages
<1> HIDE DEF q
<1>4. Moves({})
  BY <1>0, <1>1, <1>2, RewriteMoves DEF Apart
<1>5. over' \in [Msgs -> Endings]
  BY <1>0, <1>3 DEF Endings
<1>6. \A n \in Msgs : over'[n] = "accepted" => over[n] = "accepted"
  BY <1>0, <1>3
<1> QED BY <1>4, <1>5, <1>6 DEF Ends

-----------------------------------------------------------------------------
(* The types are kept                                                      *)

(* The calls of a setup are calls, and only the scheduler port schedules.  *)
LEMMA SetupFacts ==
  ASSUME TypeOK
  PROVE  /\ setup.calls \subseteq Calls /\ setup.msgs \subseteq Msgs /\ setup.later \subseteq Msgs
         /\ setup.home \in Addresses
         /\ setup.home = "queue" => ~setup.transient
         /\ setup.later # {} => setup.home = "queue"
<1>1. setup \in Setup /\ setup \in Setups
  BY ArtemisAssumption DEF TypeOK
<1>2. setup.home \in {"queue", "topic"} /\ setup.calls \in SUBSET Calls
  BY <1>1 DEF Setup
<1>3. setup.msgs \in SUBSET Msgs /\ setup.later \in SUBSET Msgs
  BY <1>1 DEF Setup
<1>4. IF setup.home = "queue" THEN ~setup.transient ELSE setup.later = {}
  BY <1>1, ArtemisAssumption
<1> QED BY <1>2, <1>3, <1>4 DEF Addresses

(* A call goes on to another step.                                         *)
LEMMA GotoType ==
  ASSUME TypeOK, NEW c, NEW to \in Steps, Goto(c, to)
  PROVE  pc' \in [Calls \union Msgs \union Subs -> Steps]
BY DEF Goto, TypeOK

(* The variables that the steps of a connection leave alone.               *)
LEMMA ConnectionType ==
  ASSUME TypeOK, NEW c \in Calls,
         EnsureConnection(c) \/ ConnectionOpens(c) \/ ConnectionFails(c)
  PROVE  TypeOK'
<1>1. pc' \in [Calls \union Msgs \union Subs -> Steps]
  <2>1. \A to : to \in {"done", "opening", "late", "retrying"} => to \in Steps
    BY DEF Steps
  <2>2. \E to \in {"done", "opening", "late", "retrying"} : Goto(c, to)
    BY DEF EnsureConnection, ConnectionOpens, ConnectionFails
  <2> QED BY <2>1, <2>2, GotoType
<1>2. up' \subseteq Calls
  BY DEF EnsureConnection, ConnectionOpens, ConnectionFails, connVars, TypeOK
<1>3. UNCHANGED <<setup, cancelling, wire, queue, scheduled, unsettled, incoming, over, early>>
  BY DEF EnsureConnection, ConnectionOpens, ConnectionFails, brokerVars, historyVars
<1>4. exists' \subseteq Addresses
  <2>1. exists' = exists \/ exists' = exists \union {Address(s) : s \in Receiving(c)}
    BY DEF EnsureConnection, ConnectionOpens, ConnectionFails, brokerVars
  <2>2. {Address(s) : s \in Receiving(c)} \subseteq Addresses
    BY AddressType DEF Receiving, Receivers
  <2> QED BY <2>1, <2>2 DEF TypeOK
<1> QED BY <1>1, <1>2, <1>3, <1>4 DEF TypeOK

(* Sending: a link, then a frame.                                          *)
LEMMA SenderType ==
  ASSUME TypeOK, NEW m \in Msgs, GetSender(m) \/ Sendable(m) \/ Send(m)
  PROVE  TypeOK'
<1>1. pc' \in [Calls \union Msgs \union Subs -> Steps]
  <2>1. \A to : to \in {"send", "sendable", "sent"} => to \in Steps
    BY DEF Steps
  <2>2. \E to \in {"send", "sendable", "sent"} : Goto(m, to)
    BY DEF GetSender, Sendable, Send
  <2> QED BY <2>1, <2>2, GotoType
<1>2. exists' \subseteq Addresses
  BY DEF GetSender, Sendable, Send, brokerVars, Addresses, TypeOK
<1>3. wire' \in [Calls -> Seq(Frames)]
  <2>1. CASE wire' = wire
    BY <2>1 DEF TypeOK
  <2>2. CASE link[m] \in up /\ wire' = [wire EXCEPT ![link[m]] = Append(@, [type |-> "send", msg |-> m])]
    <3>1. link[m] \in Calls /\ [type |-> "send", msg |-> m] \in Frames
      BY <2>2, FrameFacts DEF TypeOK
    <3>2. Append(wire[link[m]], [type |-> "send", msg |-> m]) \in Seq(Frames)
      BY <3>1 DEF TypeOK
    <3> QED BY <2>2, <3>1, <3>2 DEF TypeOK
  <2> QED BY <2>1, <2>2 DEF GetSender, Sendable, Send
<1>4. UNCHANGED <<setup, cancelling, up, queue, scheduled, unsettled, incoming, over, early>>
  BY DEF GetSender, Sendable, Send, connVars, brokerVars, historyVars
<1> QED BY <1>1, <1>2, <1>3, <1>4 DEF TypeOK

(* A subscription is opened and closed.                                    *)
LEMMA ReceiverType ==
  ASSUME TypeOK, NEW s \in Subs, Subscribe(s) \/ ReceiverOpens(s) \/ Unsubscribe(s)
  PROVE  TypeOK'
<1>1. pc' \in [Calls \union Msgs \union Subs -> Steps]
  <2>1. \A to : to \in {"opening", "receiving", "closed"} => to \in Steps
    BY DEF Steps
  <2>2. \E to \in {"opening", "receiving", "closed"} : Goto(s, to)
    BY DEF Subscribe, ReceiverOpens, Unsubscribe
  <2> QED BY <2>1, <2>2, GotoType
<1>2. UNCHANGED <<setup, cancelling, up, wire, scheduled, incoming, early>>
  BY DEF Subscribe, ReceiverOpens, Unsubscribe, connVars, brokerVars, historyVars
<1>3. CASE Subscribe(s) \/ ReceiverOpens(s)
  <2>1. exists' \subseteq Addresses
    BY <1>3, AddressType DEF Subscribe, ReceiverOpens, brokerVars, TypeOK
  <2>2. UNCHANGED <<queue, unsettled, over>>
    BY <1>3 DEF Subscribe, ReceiverOpens, brokerVars
  <2> QED BY <1>1, <1>2, <2>1, <2>2 DEF TypeOK
<1>4. CASE Unsubscribe(s)
  <2>1. exists' \subseteq exists
    BY <1>4 DEF Unsubscribe
  <2>2. Moves({}) /\ Ends
    BY <1>4, UnsubscribeMoves
  <2> QED BY <1>1, <1>2, <2>1, <2>2 DEF TypeOK, Moves, Ends
<1> QED BY <1>3, <1>4

(* A receiver gets a message and a handler settles one.                    *)
LEMMA HandlerType ==
  ASSUME TypeOK,
         \/ \E s \in Subs : Deliver(s)
         \/ \E r \in incoming, how \in {"accept", "modified", "reject"} : Settle(r, how)
  PROVE  TypeOK'
<1>1. ASSUME NEW s \in Subs, Deliver(s) PROVE TypeOK'
  <2> DEFINE a == Address(s)
             m == Head(queue[a])
             r == [sub |-> s, msg |-> m, settled |-> AutoAccept]
  <2>1. queue[a] \in Seq(Msgs) /\ queue[a] # <<>>
    BY <1>1, AddressType DEF Deliver, TypeOK
  <2>2. m \in Msgs
    BY <2>1, TailElements
  <2>3. AutoAccept \in BOOLEAN
    BY DEF AutoAccept
  <2>4. r \in Deliveries
    BY <2>2, <2>3 DEF Deliveries
  <2>5. incoming' = {o \in incoming : o.sub # s \/ o.msg # m} \union {r}
    BY <1>1 DEF Deliver
  <2>6. wire' = wire \/ Write(s, Frame("accept", r))
    BY <1>1 DEF Deliver
  <2>7. UNCHANGED <<setup, pc, cancelling, up, exists, scheduled, over, early>>
    BY <1>1 DEF Deliver, connVars
  <2>8. Moves({})
    BY <1>1, DeliverMoves
  <2> HIDE DEF r, m
  <2>9. incoming' \subseteq Deliveries
    BY <2>4, <2>5 DEF TypeOK
  <2>10. wire' \in [Calls -> Seq(Frames)]
    <3>1. Frame("accept", r) \in Frames
      BY <2>4, FrameFacts
    <3> QED BY <2>6, <3>1, WriteType DEF TypeOK
  <2> QED BY <2>7, <2>8, <2>9, <2>10 DEF TypeOK, Moves
<1>2. ASSUME NEW r \in incoming, NEW how \in {"accept", "modified", "reject"}, Settle(r, how)
      PROVE  TypeOK'
  <2>1. r \in Deliveries
    BY DEF TypeOK
  <2>2. [r EXCEPT !.settled = TRUE] \in Deliveries
    BY <2>1 DEF Deliveries
  <2>3. incoming' = (incoming \ {r}) \union {[r EXCEPT !.settled = TRUE]}
    BY <1>2 DEF Settle
  <2>4. Frame(how, r) \in Frames /\ Write(r.sub, Frame(how, r))
    BY <1>2, <2>1, FrameFacts DEF Settle
  <2>5. UNCHANGED <<setup, pc, cancelling, up, exists, queue, scheduled, unsettled, over, early>>
    BY <1>2 DEF Settle, connVars, brokerVars
  <2>6. wire' \in [Calls -> Seq(Frames)]
    BY <2>4, WriteType
  <2> DEFINE settled == [r EXCEPT !.settled = TRUE]
  <2> HIDE DEF settled
  <2>7. incoming' \subseteq Deliveries
    BY <2>2, <2>3 DEF TypeOK, settled
  <2> QED BY <2>5, <2>6, <2>7 DEF TypeOK
<1> QED BY <1>1, <1>2

(* The broker reads a frame.                                               *)
LEMMA ReadsType ==
  ASSUME TypeOK, NEW c \in Calls, BrokerReads(c)
  PROVE  /\ TypeOK'
         /\ Head(wire[c]) \in Frames
<1> DEFINE f == Head(wire[c])
<1>1. wire[c] \in Seq(Frames) /\ wire[c] # <<>>
  BY DEF BrokerReads, TypeOK
<1>2. f \in Frames /\ Tail(wire[c]) \in Seq(Frames)
  BY <1>1, TailElements
<1>3. wire' \in [Calls -> Seq(Frames)]
  BY <1>2 DEF BrokerReads, TypeOK
<1>4. UNCHANGED <<setup, pc, cancelling, up, exists, incoming, early>>
  BY DEF BrokerReads, connVars, historyVars
<1>5. f.msg \in Msgs /\ (f.type # "send" => f.sub \in Subs)
  BY <1>2, FrameFacts
<1>6. IF f.type = "send" THEN TakeMessage(f.msg) ELSE TakeDisposition(f) /\ scheduled' = scheduled
  BY DEF BrokerReads
<1> HIDE DEF f
<1>7. CASE f.type = "send"
  <2>1. TakeMessage(f.msg) /\ unsettled' = unsettled
    BY <1>6, <1>7 DEF TakeMessage
  <2>2. CASE f.msg \in setup.later \ due
    <3>1. scheduled' = scheduled \union {f.msg} /\ queue' = queue /\ over' = over
      BY <2>1, <2>2 DEF TakeMessage
    <3> QED BY <1>2, <1>3, <1>4, <1>5, <2>1, <3>1 DEF TypeOK, f
  <2>3. CASE f.msg \notin setup.later \ due
    <3>1. scheduled' = scheduled /\ \E a \in {setup.home, "nowhere"} : Route(f.msg, a)
      BY <2>1, <2>3 DEF TakeMessage
    <3>2. queue' \in [Addresses -> Seq(Msgs)] /\ over' \in [Msgs -> Endings]
      BY <1>5, <3>1, RouteQueues, SetupFacts
    <3> QED BY <1>2, <1>3, <1>4, <2>1, <3>1, <3>2 DEF TypeOK, f
  <2> QED BY <2>2, <2>3
<1>8. CASE f.type # "send"
  <2>1. TakeDisposition(f) /\ scheduled' = scheduled
    BY <1>6, <1>8
  <2>2. Moves({}) /\ over' \in [Msgs -> Endings]
    BY <1>2, <1>8, <2>1, DispositionMoves
  <2> QED BY <1>2, <1>3, <1>4, <2>1, <2>2 DEF TypeOK, Moves, f
<1> QED BY <1>7, <1>8

(* A connection is lost, or closed by asyncDispose.                        *)
LEMMA LoseType ==
  ASSUME TypeOK, Dispose \/ \E c \in Calls : ConnectionDrops(c)
  PROVE  TypeOK'
<1>1. ASSUME NEW c \in Calls, Lose(c), NEW to \in Steps, Goto(c, to),
             wire' = wire \/ wire' = [wire EXCEPT ![c] = <<>>]
      PROVE  TypeOK'
  <2>1. Moves({}) /\ Ends
    BY <1>1, LoseMoves
  <2>2. pc' \in [Calls \union Msgs \union Subs -> Steps]
    BY <1>1, GotoType
  <2>3. wire' \in [Calls -> Seq(Frames)]
    <3>1. <<>> \in Seq(Frames)
      OBVIOUS
    <3> QED BY <1>1, <3>1 DEF TypeOK
  <2>4. /\ up' \subseteq up /\ exists' \subseteq exists
        /\ UNCHANGED <<setup, cancelling, scheduled, incoming, early>>
    BY <1>1 DEF Lose
  <2> QED BY <2>1, <2>2, <2>3, <2>4 DEF TypeOK, Moves, Ends
<1>2. CASE Dispose
  <2>1. connection \in Calls /\ "disposed" \in Steps
    BY <1>2 DEF Dispose, TypeOK, Steps
  <2> QED BY <1>1, <1>2, <2>1 DEF Dispose
<1>3. ASSUME NEW c \in Calls, ConnectionDrops(c) PROVE TypeOK'
  <2>1. "retrying" \in Steps /\ "reconnecting" \in Steps
    BY DEF Steps
  <2>2. \E to \in Steps : Goto(c, to)
    BY <1>3, <2>1 DEF ConnectionDrops
  <2> QED BY <1>1, <1>3, <2>2 DEF ConnectionDrops
<1> QED BY <1>2, <1>3

(* Time passes for a message: its delivery time comes, its life ends.      *)
LEMMA TimeType ==
  ASSUME TypeOK, NEW m \in Msgs, TimeComes(m) \/ Expires(m)
  PROVE  TypeOK'
<1>1. CASE TimeComes(m)
  <2>1. UNCHANGED <<setup, pc, cancelling, up, wire, exists, unsettled, incoming, early>>
    BY <1>1 DEF TimeComes, connVars
  <2>2. scheduled' \subseteq scheduled
    BY <1>1 DEF TimeComes
  <2>3. Route(m, setup.home) \/ (queue' = queue /\ over' = over)
    BY <1>1 DEF TimeComes
  <2>4. queue' \in [Addresses -> Seq(Msgs)] /\ over' \in [Msgs -> Endings]
    BY <2>3, RouteQueues, SetupFacts DEF TypeOK
  <2> QED BY <2>1, <2>2, <2>4 DEF TypeOK
<1>2. CASE Expires(m)
  <2>1. UNCHANGED <<setup, pc, cancelling, up, wire, exists, scheduled, incoming, early>>
    BY <1>2 DEF Expires, connVars, historyVars
  <2>2. Moves({}) /\ Ends
    BY <1>2, ExpiresMoves
  <2> QED BY <2>1, <2>2 DEF TypeOK, Moves, Ends
<1> QED BY <1>1, <1>2

(* cancel() and its two management requests.                               *)
LEMMA CancelType ==
  ASSUME TypeOK, NEW m \in Msgs, Cancel(m) \/ FindQueueMBean(m) \/ RemoveMessages(m)
  PROVE  TypeOK'
<1>1. cancelling' \in [Msgs -> {"no", "find", "remove", "done"}]
  BY DEF Cancel, FindQueueMBean, RemoveMessages, TypeOK
<1>2. early' \subseteq Msgs
  BY DEF Cancel, FindQueueMBean, RemoveMessages, TypeOK
<1>3. UNCHANGED <<setup, pc, up, wire, exists, incoming>>
  BY DEF Cancel, FindQueueMBean, RemoveMessages, connVars, brokerVars
<1>4. CASE Cancel(m) \/ FindQueueMBean(m)
  <2>1. UNCHANGED <<queue, scheduled, unsettled, over>>
    BY <1>4 DEF Cancel, FindQueueMBean, brokerVars
  <2> QED BY <1>1, <1>2, <1>3, <2>1 DEF TypeOK
<1>5. CASE RemoveMessages(m)
  <2>1. Moves({}) /\ Ends
    BY <1>5, RemoveMoves
  <2>2. scheduled' \subseteq scheduled
    BY <1>5 DEF RemoveMessages
  <2> QED BY <1>1, <1>2, <1>3, <2>1, <2>2 DEF TypeOK, Moves, Ends
<1> QED BY <1>4, <1>5

(* The steps of the specification, with the types of who takes them.       *)
LEMMA Cases ==
  ASSUME TypeOK, [Next]_vars
  PROVE  \/ \E c \in Calls : EnsureConnection(c) \/ ConnectionOpens(c) \/ ConnectionFails(c)
         \/ \E c \in Calls : BrokerReads(c)
         \/ Dispose \/ \E c \in Calls : ConnectionDrops(c)
         \/ \E m \in Msgs : GetSender(m) \/ Sendable(m) \/ Send(m)
         \/ \E m \in Msgs : TimeComes(m) \/ Expires(m)
         \/ \E m \in Msgs : Cancel(m) \/ FindQueueMBean(m) \/ RemoveMessages(m)
         \/ \E s \in Subs : Subscribe(s) \/ ReceiverOpens(s) \/ Unsubscribe(s)
         \/ \/ \E s \in Subs : Deliver(s)
            \/ \E r \in incoming, how \in {"accept", "modified", "reject"} : Settle(r, how)
         \/ UNCHANGED vars
<1>1. setup.calls \subseteq Calls /\ setup.msgs \subseteq Msgs
  BY SetupFacts
<1> QED BY <1>1 DEF Next

(* The types hold throughout.                                              *)
LEMMA TypeInvariant == Spec => []TypeOK
<1>1. Init => TypeOK
  <2> SUFFICES ASSUME Init PROVE TypeOK
    OBVIOUS
  <2>1. pc \in [Calls \union Msgs \union Subs -> Steps] /\ over \in [Msgs -> Endings]
    BY DEF Init, Steps, Endings
  <2>2. wire \in [Calls -> Seq(Frames)] /\ queue \in [Addresses -> Seq(Msgs)]
    BY DEF Init
  <2>3. cancelling \in [Msgs -> {"no", "find", "remove", "done"}]
    BY DEF Init
  <2> QED BY <2>1, <2>2, <2>3 DEF Init, TypeOK
<1>2. TypeOK /\ [Next]_vars => TypeOK'
  <2> SUFFICES ASSUME TypeOK, [Next]_vars PROVE TypeOK'
    OBVIOUS
  <2>1. UNCHANGED vars => TypeOK'
    BY DEF vars, connVars, brokerVars, historyVars, TypeOK
  <2> QED BY <2>1, Cases, ConnectionType, ReadsType, LoseType, SenderType, TimeType, CancelType,
             ReceiverType, HandlerType
<1> QED BY <1>1, <1>2, PTL DEF Spec

-----------------------------------------------------------------------------
(* Consumed only if acked                                                  *)

(* An acceptance on its way is that of an acked message.                   *)
Accepts == \A c \in Calls : \A f \in Range(wire[c]) : f.type = "accept" => f.msg \in acked

(* A frame is put at the end of a connection's frames.                     *)
LEMMA WriteFrames ==
  ASSUME TypeOK, NEW s, NEW f \in Frames, Write(s, f)
  PROVE  \A c \in Calls : Range(wire'[c]) \subseteq Range(wire[c]) \union {f}
<1>1. CASE link[s] \in up /\ pc[s] = "receiving"
  <2>1. link[s] \in Calls /\ wire' = [wire EXCEPT ![link[s]] = Append(@, f)]
    BY <1>1 DEF Write, TypeOK
  <2>2. wire[link[s]] \in Seq(Frames)
    BY <2>1 DEF TypeOK
  <2>3. Range(Append(wire[link[s]], f)) = Range(wire[link[s]]) \union {f}
    BY <2>2, AppendRange
  <2> QED BY <2>1, <2>3 DEF TypeOK
<1> QED BY <1>1 DEF Write

(* The frames after a step that is neither a settlement nor a send.        *)
LEMMA FramesKept ==
  ASSUME TypeOK, NEW c \in Calls, BrokerReads(c) \/ ConnectionDrops(c)
  PROVE  \A d \in Calls : Range(wire'[d]) \subseteq Range(wire[d])
<1>1. wire \in [Calls -> Seq(Frames)]
  BY DEF TypeOK
<1>2. CASE BrokerReads(c)
  <2>1. wire[c] # <<>> /\ wire' = [wire EXCEPT ![c] = Tail(@)]
    BY <1>2 DEF BrokerReads
  <2>2. Range(Tail(wire[c])) \subseteq Range(wire[c])
    BY <1>1, <2>1, TailRange
  <2> QED BY <1>1, <2>1, <2>2
<1>3. CASE ConnectionDrops(c)
  <2>1. wire' = [wire EXCEPT ![c] = <<>>]
    BY <1>3 DEF ConnectionDrops
  <2>2. DOMAIN <<>> = {}
    OBVIOUS
  <2>3. Range(<<>>) = {}
    BY <2>2 DEF Range
  <2> QED BY <1>1, <2>1, <2>3
<1> QED BY <1>2, <1>3

(* Every step keeps the acceptances and the record behind the acks.        *)
LEMMA AcceptStep ==
  ASSUME TypeOK, [Next]_vars, Accepts, ConsumedOnlyIfAcked
  PROVE  Accepts' /\ ConsumedOnlyIfAcked'
<1>1. ASSUME UNCHANGED <<wire, over, acked>> PROVE Accepts' /\ ConsumedOnlyIfAcked'
  BY <1>1 DEF Accepts, ConsumedOnlyIfAcked
<1>2. ASSUME Ends, acked' = acked, \A d \in Calls : Range(wire'[d]) \subseteq Range(wire[d])
      PROVE  Accepts' /\ ConsumedOnlyIfAcked'
  BY <1>2 DEF Accepts, ConsumedOnlyIfAcked, Ends
<1>3. ASSUME NEW m \in Msgs, GetSender(m) \/ Sendable(m) \/ Send(m)
      PROVE  Accepts' /\ ConsumedOnlyIfAcked'
  <2>1. over' = over /\ acked' = acked
    BY <1>3 DEF GetSender, Sendable, Send, brokerVars, historyVars
  <2>2. CASE wire' = wire
    BY <1>1, <2>1, <2>2
  <2>3. CASE link[m] \in up /\ wire' = [wire EXCEPT ![link[m]] = Append(@, [type |-> "send", msg |-> m])]
    <3> DEFINE f == [type |-> "send", msg |-> m]
    <3>1. link[m] \in Calls /\ f \in Frames /\ f.type = "send"
      BY <2>3, FrameFacts DEF TypeOK
    <3> HIDE DEF f
    <3>2. wire[link[m]] \in Seq(Frames) /\ wire' = [wire EXCEPT ![link[m]] = Append(@, f)]
      BY <2>3, <3>1 DEF TypeOK, f
    <3>3. Range(Append(wire[link[m]], f)) = Range(wire[link[m]]) \union {f}
      BY <3>1, <3>2, AppendRange
    <3>4. \A c \in Calls : Range(wire'[c]) \subseteq Range(wire[c]) \union {f}
      BY <3>1, <3>2, <3>3 DEF TypeOK
    <3> QED BY <2>1, <3>1, <3>4 DEF Accepts, ConsumedOnlyIfAcked
  <2> QED BY <1>3, <2>2, <2>3 DEF GetSender, Sendable, Send
<1>4. ASSUME NEW s, NEW f \in Frames, Write(s, f), over' = over, acked \subseteq acked',
             f.type = "accept" => f.msg \in acked'
      PROVE  Accepts' /\ ConsumedOnlyIfAcked'
  <2>1. \A c \in Calls : Range(wire'[c]) \subseteq Range(wire[c]) \union {f}
    BY <1>4, WriteFrames
  <2> QED BY <1>4, <2>1 DEF Accepts, ConsumedOnlyIfAcked
<1>5. ASSUME NEW s \in Subs, Deliver(s) PROVE Accepts' /\ ConsumedOnlyIfAcked'
  <2> DEFINE m == Head(queue[Address(s)])
             r == [sub |-> s, msg |-> m, settled |-> AutoAccept]
             f == Frame("accept", r)
  <2>1. over' = over
    BY <1>5 DEF Deliver
  <2>2. CASE AutoAccept
    <3>1. Write(s, f) /\ acked' = acked \union {m}
      BY <1>5, <2>2 DEF Deliver, AutoAccept
    <3>2. queue[Address(s)] \in Seq(Msgs) /\ queue[Address(s)] # <<>>
      BY <1>5, AddressType DEF Deliver, TypeOK
    <3>3. m \in Msgs
      BY <3>2, TailElements
    <3>4. AutoAccept \in BOOLEAN
      BY DEF AutoAccept
    <3>5. r \in Deliveries /\ f.msg = m
      BY <3>3, <3>4 DEF Deliveries, Frame
    <3>6. f \in Frames
      BY <3>5, FrameFacts
    <3> HIDE DEF f, m, r
    <3> QED BY <1>4, <2>1, <3>1, <3>5, <3>6
  <2>3. CASE ~AutoAccept
    <3>1. wire' = wire /\ acked' = acked
      BY <1>5, <2>3 DEF Deliver, AutoAccept
    <3> QED BY <1>1, <2>1, <3>1
  <2> QED BY <2>2, <2>3
<1>6. ASSUME NEW r \in incoming, NEW how \in {"accept", "modified", "reject"}, Settle(r, how)
      PROVE  Accepts' /\ ConsumedOnlyIfAcked'
  <2> DEFINE f == Frame(how, r)
  <2>1. r \in Deliveries
    BY DEF TypeOK
  <2>2. f \in Frames /\ f.type = how /\ f.msg = r.msg
    BY <2>1, FrameFacts DEF Frame
  <2>3. Write(r.sub, f) /\ over' = over
    BY <1>6 DEF Settle, brokerVars
  <2>4. acked' = IF how = "accept" THEN acked \union {r.msg} ELSE acked
    BY <1>6 DEF Settle
  <2> HIDE DEF f
  <2> QED BY <1>4, <2>2, <2>3, <2>4
<1>7. ASSUME NEW c \in Calls, BrokerReads(c) PROVE Accepts' /\ ConsumedOnlyIfAcked'
  <2> DEFINE f == Head(wire[c])
  <2>1. /\ wire[c] \in Seq(Frames) /\ wire[c] # <<>> /\ acked' = acked
        /\ IF f.type = "send" THEN TakeMessage(f.msg) ELSE TakeDisposition(f)
    BY <1>7 DEF BrokerReads, historyVars, TypeOK
  <2>2. f \in Frames /\ f \in Range(wire[c]) /\ f.msg \in Msgs
    BY <2>1, TailElements, TailRange, FrameFacts
  <2>3. \A d \in Calls : Range(wire'[d]) \subseteq Range(wire[d])
    BY <1>7, FramesKept
  <2> HIDE DEF f
  <2>4. CASE f.type = "send"
    <3>1. over' = over \/ \E a \in {setup.home, "nowhere"} : Route(f.msg, a)
      BY <2>1, <2>4 DEF TakeMessage
    <3>2. Ends
      BY <2>2, <3>1, RouteQueues, SetupFacts DEF Ends, TypeOK
    <3> QED BY <1>2, <2>1, <2>3, <3>2
  <2>5. CASE f.type # "send"
    <3>1. \A m \in Msgs : over'[m] = "accepted" =>
            over[m] = "accepted" \/ (m = f.msg /\ f.type = "accept")
      BY <2>1, <2>2, <2>5, DispositionMoves
    <3> QED BY <2>1, <2>2, <2>3, <3>1 DEF Accepts, ConsumedOnlyIfAcked
  <2> QED BY <2>4, <2>5
<1>8. ASSUME NEW m \in Msgs, TimeComes(m) PROVE Accepts' /\ ConsumedOnlyIfAcked'
  <2>1. wire' = wire /\ acked' = acked /\ (over' = over \/ Route(m, setup.home))
    BY <1>8 DEF TimeComes
  <2>2. Ends
    BY <2>1, RouteQueues, SetupFacts DEF Ends, TypeOK
  <2> QED BY <1>2, <2>1, <2>2
<1>9. ASSUME NEW m \in Msgs, Expires(m) \/ RemoveMessages(m) PROVE Accepts' /\ ConsumedOnlyIfAcked'
  <2>1. wire' = wire /\ acked' = acked
    BY <1>9 DEF Expires, RemoveMessages, historyVars
  <2> QED BY <1>2, <1>9, <2>1, ExpiresMoves, RemoveMoves
<1>10. ASSUME NEW s \in Subs, Unsubscribe(s) PROVE Accepts' /\ ConsumedOnlyIfAcked'
  <2>1. wire' = wire /\ acked' = acked
    BY <1>10 DEF Unsubscribe, historyVars
  <2> QED BY <1>2, <1>10, <2>1, UnsubscribeMoves
<1>11. ASSUME NEW c \in Calls, ConnectionDrops(c) PROVE Accepts' /\ ConsumedOnlyIfAcked'
  <2>1. acked' = acked /\ Lose(c)
    BY <1>11 DEF ConnectionDrops, Lose
  <2> QED BY <1>2, <1>11, <2>1, LoseMoves, FramesKept
<1>12. CASE Dispose
  <2>1. connection \in Calls /\ wire' = wire /\ acked' = acked /\ Lose(connection)
    BY <1>12 DEF Dispose, Lose, TypeOK
  <2> QED BY <1>2, <2>1, LoseMoves
<1>13. ASSUME NEW c, EnsureConnection(c) \/ ConnectionOpens(c) \/ ConnectionFails(c)
                     \/ Subscribe(c) \/ ReceiverOpens(c) \/ Cancel(c) \/ FindQueueMBean(c)
       PROVE  Accepts' /\ ConsumedOnlyIfAcked'
  <2>1. UNCHANGED <<wire, over, acked>>
    BY <1>13 DEF EnsureConnection, ConnectionOpens, ConnectionFails, Subscribe, ReceiverOpens,
                 Cancel, FindQueueMBean, brokerVars, historyVars
  <2> QED BY <1>1, <2>1
<1>14. UNCHANGED vars => UNCHANGED <<wire, over, acked>>
  BY DEF vars, brokerVars, historyVars
<1> QED BY <1>1, <1>3, <1>5, <1>6, <1>7, <1>8, <1>9, <1>10, <1>11, <1>12, <1>13, <1>14, Cases

(* Whatever is lost, repeated or late between the adapter and the broker,  *)
(* a message is recorded as consumed only after a handler acked it: see    *)
(* ConsumedOnlyIfAcked.                                                    *)
THEOREM AckSafety == Spec => []ConsumedOnlyIfAcked
<1>1. Init => Accepts /\ ConsumedOnlyIfAcked
  <2> SUFFICES ASSUME Init PROVE Accepts /\ ConsumedOnlyIfAcked
    OBVIOUS
  <2>1. DOMAIN <<>> = {}
    OBVIOUS
  <2>2. \A c \in Calls : Range(wire[c]) = {}
    BY <2>1 DEF Init, Range
  <2> QED BY <2>2 DEF Init, Accepts, ConsumedOnlyIfAcked
<1> QED BY <1>1, AcceptStep, TypeInvariant, PTL DEF Spec

-----------------------------------------------------------------------------
(* A message is in one place                                               *)

(* A settlement is no second copy of a message.                            *)
LEMMA WriteOneFrame ==
  ASSUME TypeOK, OneFrame, NEW s, NEW f \in Frames, f.type # "send", Write(s, f)
  PROVE  OneFrame' /\ \A m \in Msgs : OnTheWire(m)' => OnTheWire(m)
<1>1. \A m \in Msgs : OnTheWire(m)' => OnTheWire(m)
  BY WriteFrames DEF OnTheWire
<1>2. CASE link[s] \in up /\ pc[s] = "receiving"
  <2> DEFINE k == link[s]
  <2>1. k \in Calls /\ wire' = [wire EXCEPT ![k] = Append(@, f)] /\ wire \in [Calls -> Seq(Frames)]
    BY <1>2 DEF Write, TypeOK
  <2> HIDE DEF k
  <2>2. wire[k] \in Seq(Frames)
    BY <2>1
  <2> DEFINE t == Append(wire[k], f)
             last == Len(wire[k]) + 1
  <2>3. DOMAIN t = DOMAIN wire[k] \union {last} /\ t[last] = f /\ \A i \in DOMAIN wire[k] : t[i] = wire[k][i]
    BY <2>2, AppendElements
  <2>4. wire'[k] = t /\ \A c \in Calls : c # k => wire'[c] = wire[c]
    BY <2>1
  <2> HIDE DEF t, last
  <2>5. \A c \in Calls : \A i \in DOMAIN wire'[c] :
          wire'[c][i].type = "send" => i \in DOMAIN wire[c] /\ wire'[c][i] = wire[c][i]
    BY <2>3, <2>4
  <2>6. OneFrame'
    BY <2>5 DEF OneFrame
  <2> QED BY <1>1, <2>6
<1>3. CASE ~(link[s] \in up /\ pc[s] = "receiving")
  <2>1. wire' = wire
    BY <1>3 DEF Write
  <2> QED BY <1>1, <2>1 DEF OneFrame
<1> QED BY <1>2, <1>3

(* Sending a message that is not on the wire.                              *)
LEMMA SendOneFrame ==
  ASSUME TypeOK, OneFrame, NEW m \in Msgs, ~OnTheWire(m), Send(m)
  PROVE  OneFrame' /\ \A n \in Msgs : OnTheWire(n)' => OnTheWire(n) \/ n = m
<1>1. CASE link[m] \in up
  <2> DEFINE k == link[m]
             f == [type |-> "send", msg |-> m]
  <2>1. /\ k \in Calls /\ wire' = [wire EXCEPT ![k] = Append(@, f)] /\ wire \in [Calls -> Seq(Frames)]
        /\ f \in Frames /\ f.msg = m
    BY <1>1, FrameFacts DEF Send, TypeOK
  <2> HIDE DEF k, f
  <2>2. wire[k] \in Seq(Frames)
    BY <2>1
  <2> DEFINE t == Append(wire[k], f)
             last == Len(wire[k]) + 1
  <2>3. /\ DOMAIN t = DOMAIN wire[k] \union {last} /\ t[last] = f
        /\ \A i \in DOMAIN wire[k] : t[i] = wire[k][i]
    BY <2>1, <2>2, AppendElements
  <2>4. wire'[k] = t /\ \A c \in Calls : c # k => wire'[c] = wire[c]
    BY <2>1
  <2> HIDE DEF t, last
  <2>5. \A c \in Calls : \A i \in DOMAIN wire'[c] :
          \/ i \in DOMAIN wire[c] /\ wire'[c][i] = wire[c][i]
          \/ c = k /\ i = last /\ wire'[c][i].msg = m
    BY <2>1, <2>3, <2>4
  <2>6. \A c \in Calls : \A i \in DOMAIN wire[c] : wire[c][i].type = "send" => wire[c][i].msg # m
    BY DEF OnTheWire, Range
  <2>7. OneFrame'
    BY <2>5, <2>6 DEF OneFrame
  <2>8. \A n \in Msgs : OnTheWire(n)' => OnTheWire(n) \/ n = m
    BY <2>5 DEF OnTheWire, Range
  <2> QED BY <2>7, <2>8
<1>2. CASE link[m] \notin up
  <2>1. wire' = wire
    BY <1>2 DEF Send
  <2> QED BY <2>1 DEF OneFrame, OnTheWire
<1> QED BY <1>1, <1>2

(* The broker reads a frame: a message it carries is on the wire no more.  *)
LEMMA ReadOneFrame ==
  ASSUME TypeOK, OneFrame, NEW c \in Calls, BrokerReads(c)
  PROVE  /\ OneFrame'
         /\ \A m \in Msgs : OnTheWire(m)' => OnTheWire(m)
         /\ \A m \in Msgs : Head(wire[c]).type = "send" /\ Head(wire[c]).msg = m =>
              OnTheWire(m) /\ ~OnTheWire(m)'
<1> DEFINE f == Head(wire[c])
<1>1. /\ wire[c] \in Seq(Frames) /\ wire[c] # <<>> /\ wire' = [wire EXCEPT ![c] = Tail(@)]
      /\ wire \in [Calls -> Seq(Frames)]
  BY DEF BrokerReads, TypeOK
<1>2. /\ f = wire[c][1] /\ 1 \in DOMAIN wire[c] /\ DOMAIN Tail(wire[c]) = 1 .. Len(wire[c]) - 1
      /\ \A i \in DOMAIN Tail(wire[c]) : i + 1 \in DOMAIN wire[c] /\ Tail(wire[c])[i] = wire[c][i + 1]
      /\ f \in Range(wire[c])
  BY <1>1, TailElements, TailRange
<1>3. wire'[c] = Tail(wire[c]) /\ \A d \in Calls : d # c => wire'[d] = wire[d]
  BY <1>1
<1>4. Len(wire[c]) \in Nat
  BY <1>1
<1>5. \A i \in DOMAIN wire'[c] : i \in Nat /\ i # 0
  BY <1>2, <1>3, <1>4
<1>6. \A i, j \in Nat : (i + 1 = j + 1 => i = j) /\ (i # 0 => i + 1 # 1)
  OBVIOUS
<1> HIDE DEF f
<1>7. OneFrame'
  <2>1. \A d \in Calls : \A i \in DOMAIN wire'[d] :
          \/ d # c /\ i \in DOMAIN wire[d] /\ wire'[d][i] = wire[d][i]
          \/ d = c /\ i \in Nat /\ i + 1 \in DOMAIN wire[d] /\ wire'[d][i] = wire[d][i + 1]
    BY <1>2, <1>3, <1>5
  <2> SUFFICES ASSUME NEW d \in Calls, NEW e \in Calls, NEW i \in DOMAIN wire'[d],
                      NEW j \in DOMAIN wire'[e], wire'[d][i].type = "send",
                      wire'[e][j].type = "send", wire'[d][i].msg = wire'[e][j].msg
               PROVE  d = e /\ i = j
    BY DEF OneFrame
  <2>2. d = e
    BY <2>1 DEF OneFrame
  <2>3. CASE d = c
    <3>1. /\ i \in Nat /\ i + 1 \in DOMAIN wire[c] /\ wire'[d][i] = wire[c][i + 1]
          /\ j \in Nat /\ j + 1 \in DOMAIN wire[c] /\ wire'[e][j] = wire[c][j + 1]
      BY <2>1, <2>2, <2>3
    <3>2. i + 1 = j + 1
      BY <3>1 DEF OneFrame
    <3> QED BY <1>6, <2>2, <3>1, <3>2
  <2>4. CASE d # c
    BY <2>1, <2>2, <2>4 DEF OneFrame
  <2> QED BY <2>3, <2>4
<1>8. \A m \in Msgs : OnTheWire(m)' => OnTheWire(m)
  BY FramesKept DEF OnTheWire
<1>9. ASSUME NEW m \in Msgs, f.type = "send", f.msg = m PROVE OnTheWire(m) /\ ~OnTheWire(m)'
  <2>1. OnTheWire(m)
    BY <1>2, <1>9 DEF OnTheWire
  <2>2. \A i \in DOMAIN wire'[c] : ~(wire'[c][i].type = "send" /\ wire'[c][i].msg = m)
    BY <1>2, <1>3, <1>5, <1>6, <1>9 DEF OneFrame
  <2>3. \A d \in Calls : d # c => \A i \in DOMAIN wire'[d] :
          ~(wire'[d][i].type = "send" /\ wire'[d][i].msg = m)
    BY <1>2, <1>3, <1>9 DEF OneFrame
  <2>4. \A d \in Calls : \A g \in Range(wire'[d]) : ~(g.type = "send" /\ g.msg = m)
    BY <2>2, <2>3 DEF Range
  <2> QED BY <2>1, <2>4 DEF OnTheWire
<1> QED BY <1>7, <1>8, <1>9 DEF f

(* How a message gets from one stage to the next in a step: it is sent     *)
(* once, read once, leaves the schedule when it is due or cancelled, and   *)
(* comes out from the wire or when it is due.                              *)
Flow ==
  /\ due \subseteq due'
  /\ \A m \in Msgs :
       /\ pc[m] = "sent" => pc'[m] = "sent"
       /\ OnTheWire(m)' => OnTheWire(m) \/ pc[m] # "sent"
       /\ m \in scheduled' => m \in scheduled \/ OnTheWire(m)
       /\ m \in scheduled => m \in scheduled' \/ m \in due' \/ cancelling'[m] = "done"
       /\ Out(m)' => Out(m) \/ OnTheWire(m) \/ (m \in scheduled /\ m \in due')

(* The steps of calls and subscriptions leave those of messages alone.     *)
LEMMA GotoOther ==
  ASSUME TypeOK, NEW c \in Calls \union Subs, NEW to, Goto(c, to)
  PROVE  \A m \in Msgs : pc'[m] = pc[m]
<1>1. \A m \in Msgs : m # c
  BY ArtemisAssumption
<1> QED BY <1>1 DEF Goto, TypeOK

(* A step that only moves messages about keeps the stages.                 *)
LEMMA MovesFlow ==
  ASSUME TypeOK, OnePlace, Moves({}), OneFrame',
         \A m \in Msgs : OnTheWire(m)' => OnTheWire(m),
         scheduled' = scheduled, due \subseteq due', \A m \in Msgs : pc'[m] = pc[m],
         \A m \in Msgs : (\E r \in incoming' : r.msg = m) => Out(m)
  PROVE  Flow /\ OnePlace'
<1>1. \A m \in Msgs : Out(m)' => Out(m)
  BY DEF Out, Moves
<1>2. Stages'
  BY <1>1 DEF OnePlace, Stages
<1>3. Flow
  BY <1>1 DEF Flow
<1>4. Apart(queue, unsettled)'
  BY DEF OnePlace, Moves
<1> QED BY <1>2, <1>3, <1>4 DEF OnePlace

(* A step that leaves the messages where they are.                         *)
LEMMA StillFlow ==
  ASSUME TypeOK, OnePlace, UNCHANGED <<wire, queue, scheduled, unsettled, incoming, due>>,
         \A m \in Msgs : pc[m] = "sent" <=> pc'[m] = "sent"
  PROVE  Flow /\ OnePlace'
<1>1. \A m \in Msgs : (OnTheWire(m)' <=> OnTheWire(m)) /\ (Out(m)' <=> Out(m))
  BY DEF OnTheWire, Out, Stored
<1>2. OneFrame' /\ Apart(queue, unsettled)'
  BY DEF OnePlace, OneFrame, Apart
<1>3. Stages'
  BY <1>1 DEF OnePlace, Stages
<1>4. Flow
  BY <1>1 DEF Flow
<1> QED BY <1>2, <1>3, <1>4 DEF OnePlace

(* Sending puts a message that was nowhere on the wire.                    *)
LEMMA SendFlow ==
  ASSUME TypeOK, OnePlace, NEW m \in Msgs, Send(m)
  PROVE  Flow /\ OnePlace'
<1>1. pc[m] = "send" /\ pc' = [pc EXCEPT ![m] = "sent"]
  BY DEF Send, Goto
<1>2. UNCHANGED <<queue, scheduled, unsettled, incoming, due>>
  BY DEF Send, brokerVars, historyVars
<1>3. ~OnTheWire(m) /\ m \notin scheduled /\ ~Out(m)
  BY <1>1 DEF OnePlace, Stages
<1>4. OneFrame' /\ \A n \in Msgs : OnTheWire(n)' => OnTheWire(n) \/ n = m
  BY <1>3, SendOneFrame DEF OnePlace
<1>5. \A n \in Msgs : Out(n)' <=> Out(n)
  BY <1>2 DEF Out, Stored
<1>6. pc'[m] = "sent" /\ \A n \in Msgs : n # m => pc'[n] = pc[n]
  BY <1>1 DEF TypeOK
<1>7. Stages'
  BY <1>2, <1>3, <1>4, <1>5, <1>6 DEF OnePlace, Stages
<1>8. Flow
  BY <1>1, <1>2, <1>4, <1>5, <1>6 DEF Flow
<1>9. Apart(queue, unsettled)'
  BY <1>2 DEF OnePlace, Apart
<1> QED BY <1>4, <1>7, <1>8, <1>9 DEF OnePlace

(* A handler is given what a queue held, and settles it.                   *)
LEMMA HandlerFlow ==
  ASSUME TypeOK, OnePlace,
         \/ \E s \in Subs : Deliver(s)
         \/ \E r \in incoming, how \in {"accept", "modified", "reject"} : Settle(r, how)
  PROVE  Flow /\ OnePlace'
<1>0. OneFrame /\ Apart(queue, unsettled)
  BY DEF OnePlace
<1>1. ASSUME NEW s, NEW f \in Frames, f.type # "send", Write(s, f) \/ wire' = wire
      PROVE  OneFrame' /\ \A m \in Msgs : OnTheWire(m)' => OnTheWire(m)
  <2>1. CASE wire' = wire
    BY <1>0, <2>1 DEF OneFrame, OnTheWire
  <2> QED BY <1>0, <1>1, <2>1, WriteOneFrame
<1>2. ASSUME NEW s \in Subs, Deliver(s) PROVE Flow /\ OnePlace'
  <2> DEFINE a == Address(s)
             m == Head(queue[a])
             r == [sub |-> s, msg |-> m, settled |-> AutoAccept]
             f == Frame("accept", r)
  <2>1. a \in Addresses /\ queue[a] \in Seq(Msgs) /\ queue[a] # <<>>
    BY <1>2, AddressType DEF Deliver, TypeOK
  <2>2. m \in Msgs /\ m \in Range(queue[a])
    BY <2>1, TailElements, TailRange
  <2>3. AutoAccept \in BOOLEAN
    BY DEF AutoAccept
  <2>4. r \in Deliveries /\ f.type # "send" /\ r.msg = m
    BY <2>2, <2>3 DEF Deliveries, Frame
  <2>5. f \in Frames
    BY <2>4, FrameFacts
  <2>6. incoming' = {o \in incoming : o.sub # s \/ o.msg # m} \union {r}
    BY <1>2 DEF Deliver
  <2>7. Write(s, f) \/ wire' = wire
    BY <1>2 DEF Deliver
  <2>8. UNCHANGED <<pc, scheduled, due>>
    BY <1>2 DEF Deliver
  <2> HIDE DEF a, m, r, f
  <2>9. \A n \in Msgs : (\E o \in incoming' : o.msg = n) => Out(n)
    BY <2>1, <2>2, <2>4, <2>6 DEF Out, Stored
  <2> QED BY <1>1, <1>2, <2>4, <2>5, <2>7, <2>8, <2>9, DeliverMoves, MovesFlow
<1>3. ASSUME NEW r \in incoming, NEW how \in {"accept", "modified", "reject"}, Settle(r, how)
      PROVE  Flow /\ OnePlace'
  <2> DEFINE f == Frame(how, r)
             settled == [r EXCEPT !.settled = TRUE]
  <2>1. r \in Deliveries
    BY DEF TypeOK
  <2>2. f \in Frames /\ f.type # "send" /\ settled.msg = r.msg
    BY <2>1, FrameFacts DEF Frame, Deliveries
  <2>3. Write(r.sub, f) /\ incoming' = (incoming \ {r}) \union {settled}
    BY <1>3 DEF Settle
  <2>4. UNCHANGED <<pc, queue, scheduled, unsettled, due>>
    BY <1>3 DEF Settle, brokerVars
  <2> HIDE DEF f, settled
  <2>5. \A n \in Msgs : (\E o \in incoming' : o.msg = n) => Out(n)
    BY <2>2, <2>3 DEF Out
  <2>6. Moves({})
    BY <1>0, <2>4 DEF Moves, Stored, TypeOK
  <2>7. OneFrame' /\ \A m \in Msgs : OnTheWire(m)' => OnTheWire(m)
    BY <1>1, <2>2, <2>3
  <2> QED BY <2>4, <2>5, <2>6, <2>7, MovesFlow
<1> QED BY <1>2, <1>3

(* The broker reads a frame: a message comes out, or is scheduled.         *)
LEMMA ReadsFlow ==
  ASSUME TypeOK, OnePlace, NEW c \in Calls, BrokerReads(c)
  PROVE  Flow /\ OnePlace'
<1> DEFINE f == Head(wire[c])
<1>0. OneFrame /\ Apart(queue, unsettled)
  BY DEF OnePlace
<1>1. /\ OneFrame'
      /\ \A m \in Msgs : OnTheWire(m)' => OnTheWire(m)
      /\ \A m \in Msgs : f.type = "send" /\ f.msg = m => OnTheWire(m) /\ ~OnTheWire(m)'
  BY <1>0, ReadOneFrame
<1>2. f \in Frames
  BY ReadsType
<1>3. UNCHANGED <<pc, incoming, due>>
  BY DEF BrokerReads, historyVars
<1>4. IF f.type = "send" THEN TakeMessage(f.msg) ELSE TakeDisposition(f) /\ scheduled' = scheduled
  BY DEF BrokerReads
<1>5. \A n \in Msgs : (\E o \in incoming' : o.msg = n) => Out(n)
  BY <1>3 DEF Out
<1>6. PICK m \in Msgs : m = f.msg
  BY <1>2, FrameFacts
<1> HIDE DEF f
<1>7. CASE f.type = "send"
  <2>1. OnTheWire(m) /\ ~OnTheWire(m)' /\ pc[m] = "sent" /\ m \notin scheduled /\ ~Out(m)
    BY <1>1, <1>6, <1>7 DEF OnePlace, Stages
  <2>2. TakeMessage(m) /\ unsettled' = unsettled
    BY <1>4, <1>6, <1>7 DEF TakeMessage
  <2>3. CASE m \in setup.later \ due
    <3>1. scheduled' = scheduled \union {m} /\ queue' = queue
      BY <2>2, <2>3 DEF TakeMessage
    <3>2. \A n \in Msgs : Out(n)' <=> Out(n)
      BY <1>3, <2>2, <3>1 DEF Out, Stored
    <3>3. Stages'
      BY <1>1, <1>3, <2>1, <3>1, <3>2 DEF OnePlace, Stages
    <3>4. Flow
      BY <1>1, <1>3, <2>1, <3>1, <3>2 DEF Flow
    <3>5. Apart(queue, unsettled)'
      BY <1>0, <2>2, <3>1 DEF Apart
    <3> QED BY <1>1, <3>3, <3>4, <3>5 DEF OnePlace
  <2>4. CASE m \notin setup.later \ due
    <3>1. scheduled' = scheduled /\ \E a \in {setup.home, "nowhere"} : Route(m, a)
      BY <2>2, <2>4 DEF TakeMessage
    <3>2. /\ \A b \in Addresses : m \notin Range(queue[b])
          /\ \A s \in Subs : m \notin unsettled'[s]
      BY <2>1, <2>2 DEF Out, Stored
    <3>3. unsettled' \in [Subs -> SUBSET Msgs]
      BY <2>2 DEF TypeOK
    <3>4. Moves({m})
      BY <2>2, <3>1, <3>2, <3>3, RouteMoves, SetupFacts
    <3>5. \A n \in Msgs : Out(n)' => Out(n) \/ n = m
      BY <1>3, <3>4 DEF Moves, Out
    <3>6. Stages'
      BY <1>1, <1>3, <2>1, <3>1, <3>5 DEF OnePlace, Stages
    <3>7. Flow
      BY <1>1, <1>3, <2>1, <3>1, <3>5 DEF Flow
    <3> QED BY <1>0, <1>1, <3>4, <3>6, <3>7 DEF OnePlace, Moves
  <2> QED BY <2>3, <2>4
<1>8. CASE f.type # "send"
  <2>1. TakeDisposition(f) /\ scheduled' = scheduled
    BY <1>4, <1>8
  <2>2. Moves({})
    BY <1>2, <1>8, <2>1, DispositionMoves
  <2> QED BY <1>1, <1>3, <1>5, <2>1, <2>2, MovesFlow
<1> QED BY <1>7, <1>8

(* A scheduled message comes out when its time comes.                      *)
LEMMA TimeFlow ==
  ASSUME TypeOK, OnePlace, NEW m \in Msgs, TimeComes(m)
  PROVE  Flow /\ OnePlace'
<1>1. UNCHANGED <<pc, wire, unsettled, incoming>> /\ due' = due \union {m} /\ scheduled' = scheduled \ {m}
  BY DEF TimeComes
<1>2. OneFrame' /\ \A n \in Msgs : OnTheWire(n)' <=> OnTheWire(n)
  BY <1>1 DEF OnePlace, OneFrame, OnTheWire
<1>3. Moves({m}) /\ (m \notin scheduled => Moves({}))
  <2>1. CASE m \in scheduled
    <3>1. Route(m, setup.home) /\ ~Out(m)
      BY <2>1 DEF TimeComes, OnePlace, Stages
    <3>2. /\ \A b \in Addresses : m \notin Range(queue[b])
          /\ \A s \in Subs : m \notin unsettled'[s]
      BY <1>1, <3>1 DEF Out, Stored
    <3>3. unsettled' \in [Subs -> SUBSET Msgs]
      BY <1>1 DEF TypeOK
    <3> QED BY <1>1, <2>1, <3>1, <3>2, <3>3, RouteMoves, SetupFacts
  <2>2. CASE m \notin scheduled
    <3>1. queue' = queue
      BY <2>2 DEF TimeComes
    <3> QED BY <1>1, <3>1 DEF Moves, Stored, TypeOK
  <2> QED BY <2>1, <2>2
<1>4. \A n \in Msgs : Out(n)' => Out(n) \/ (n = m /\ m \in scheduled)
  BY <1>1, <1>3 DEF Moves, Out
<1>5. Stages'
  BY <1>1, <1>2, <1>4 DEF OnePlace, Stages
<1>6. Flow
  BY <1>1, <1>2, <1>4 DEF Flow
<1> QED BY <1>2, <1>3, <1>5, <1>6 DEF OnePlace, Moves

(* removeMessages takes a message off the schedule.                        *)
LEMMA RemoveFlow ==
  ASSUME TypeOK, OnePlace, NEW m \in Msgs, RemoveMessages(m)
  PROVE  Flow /\ OnePlace'
<1>1. /\ UNCHANGED <<pc, wire, unsettled, incoming, due>> /\ scheduled' = scheduled \ {m}
      /\ cancelling' = [cancelling EXCEPT ![m] = "done"]
  BY DEF RemoveMessages
<1>2. OneFrame' /\ \A n \in Msgs : OnTheWire(n)' <=> OnTheWire(n)
  BY <1>1 DEF OnePlace, OneFrame, OnTheWire
<1>3. Moves({})
  BY RemoveMoves
<1>4. \A n \in Msgs : Out(n)' => Out(n)
  BY <1>1, <1>3 DEF Moves, Out
<1>5. cancelling'[m] = "done"
  BY <1>1 DEF TypeOK
<1>6. Stages'
  BY <1>1, <1>2, <1>4 DEF OnePlace, Stages
<1>7. Flow
  BY <1>1, <1>2, <1>4, <1>5 DEF Flow
<1> QED BY <1>2, <1>3, <1>6, <1>7 DEF OnePlace, Moves

(* A connection is lost or closed.                                         *)
LEMMA LoseFlow ==
  ASSUME TypeOK, OnePlace, Dispose \/ \E c \in Calls : ConnectionDrops(c)
  PROVE  Flow /\ OnePlace'
<1>0. OneFrame
  BY DEF OnePlace
<1>1. ASSUME NEW c \in Calls, Lose(c), NEW to, Goto(c, to), OneFrame',
             \A d \in Calls : Range(wire'[d]) \subseteq Range(wire[d])
      PROVE  Flow /\ OnePlace'
  <2>1. Moves({})
    BY <1>1, LoseMoves
  <2>2. UNCHANGED <<scheduled, incoming, due>>
    BY <1>1 DEF Lose
  <2>3. \A m \in Msgs : pc'[m] = pc[m]
    BY <1>1, GotoOther
  <2>4. \A m \in Msgs : OnTheWire(m)' => OnTheWire(m)
    BY <1>1 DEF OnTheWire
  <2>5. \A m \in Msgs : (\E r \in incoming' : r.msg = m) => Out(m)
    BY <2>2 DEF Out
  <2> QED BY <1>1, <2>1, <2>2, <2>3, <2>4, <2>5, MovesFlow
<1>2. CASE Dispose
  <2>1. connection \in Calls /\ Lose(connection) /\ Goto(connection, "disposed") /\ wire' = wire
    BY <1>2 DEF Dispose, TypeOK
  <2>2. OneFrame'
    BY <1>0, <2>1 DEF OneFrame
  <2>3. PICK c \in Calls : Lose(c) /\ Goto(c, "disposed")
    BY <2>1
  <2> QED BY <1>1, <2>1, <2>2, <2>3
<1>3. ASSUME NEW c \in Calls, ConnectionDrops(c) PROVE Flow /\ OnePlace'
  <2>1. Lose(c) /\ wire' = [wire EXCEPT ![c] = <<>>] /\ \E to : Goto(c, to)
    BY <1>3 DEF ConnectionDrops
  <2>2. DOMAIN <<>> = {}
    OBVIOUS
  <2>3. \A d \in Calls : \A i \in DOMAIN wire'[d] : d # c /\ wire'[d] = wire[d]
    BY <2>1, <2>2 DEF TypeOK
  <2>4. OneFrame'
    BY <1>0, <2>3 DEF OneFrame
  <2> QED BY <1>1, <1>3, <2>1, <2>4, FramesKept
<1> QED BY <1>2, <1>3

(* The other steps of subscriptions, and the expiry scan.                  *)
LEMMA QueueFlow ==
  ASSUME TypeOK, OnePlace,
         (\E s \in Subs : Unsubscribe(s)) \/ (\E m \in Msgs : Expires(m))
  PROVE  Flow /\ OnePlace'
<1>1. UNCHANGED <<wire, scheduled, incoming, due>>
  BY DEF Unsubscribe, Expires, historyVars
<1>2. \A m \in Msgs : pc'[m] = pc[m]
  <2>1. CASE \E m \in Msgs : Expires(m)
    BY <2>1 DEF Expires
  <2>2. CASE \E s \in Subs : Unsubscribe(s)
    <3>1. PICK s \in Subs : Goto(s, "closed")
      BY <2>2 DEF Unsubscribe
    <3> QED BY <3>1, GotoOther
  <2> QED BY <2>1, <2>2
<1>3. Moves({})
  BY UnsubscribeMoves, ExpiresMoves
<1>4. OneFrame' /\ \A m \in Msgs : OnTheWire(m)' => OnTheWire(m)
  BY <1>1 DEF OnePlace, OneFrame, OnTheWire
<1>5. \A m \in Msgs : (\E r \in incoming' : r.msg = m) => Out(m)
  BY <1>1 DEF Out
<1> QED BY <1>1, <1>2, <1>3, <1>4, <1>5, MovesFlow

(* Every step keeps a message in one place and moves it one stage on.      *)
LEMMA FlowStep ==
  ASSUME TypeOK, OnePlace, [Next]_vars
  PROVE  Flow /\ OnePlace'
<1>1. ASSUME NEW c \in Calls, EnsureConnection(c) \/ ConnectionOpens(c) \/ ConnectionFails(c)
      PROVE  Flow /\ OnePlace'
  <2>1. UNCHANGED <<wire, queue, scheduled, unsettled, incoming, due>>
    BY <1>1 DEF EnsureConnection, ConnectionOpens, ConnectionFails, brokerVars, historyVars
  <2>2. \E to : Goto(c, to)
    BY <1>1 DEF EnsureConnection, ConnectionOpens, ConnectionFails
  <2> QED BY <2>1, <2>2, GotoOther, StillFlow
<1>2. ASSUME NEW s \in Subs, Subscribe(s) \/ ReceiverOpens(s) PROVE Flow /\ OnePlace'
  <2>1. UNCHANGED <<wire, queue, scheduled, unsettled, incoming, due>>
    BY <1>2 DEF Subscribe, ReceiverOpens, brokerVars, historyVars
  <2>2. \E to : Goto(s, to)
    BY <1>2 DEF Subscribe, ReceiverOpens
  <2> QED BY <2>1, <2>2, GotoOther, StillFlow
<1>3. ASSUME NEW m \in Msgs, GetSender(m) \/ Sendable(m) PROVE Flow /\ OnePlace'
  <2>1. UNCHANGED <<wire, queue, scheduled, unsettled, incoming, due>>
    BY <1>3 DEF GetSender, Sendable, brokerVars, historyVars
  <2>2. pc[m] # "sent" /\ \E to \in {"send", "sendable"} : pc' = [pc EXCEPT ![m] = to]
    BY <1>3 DEF GetSender, Sendable, Goto
  <2>3. \A n \in Msgs : pc[n] = "sent" <=> pc'[n] = "sent"
    BY <2>2 DEF TypeOK
  <2> QED BY <2>1, <2>3, StillFlow
<1>4. ASSUME NEW m \in Msgs, Cancel(m) \/ FindQueueMBean(m) PROVE Flow /\ OnePlace'
  <2>1. UNCHANGED <<pc, wire, queue, scheduled, unsettled, incoming, due>>
    BY <1>4 DEF Cancel, FindQueueMBean, brokerVars
  <2> QED BY <2>1, StillFlow
<1>5. CASE UNCHANGED vars
  <2>1. UNCHANGED <<pc, wire, queue, scheduled, unsettled, incoming, due>>
    BY <1>5 DEF vars, brokerVars, historyVars
  <2> QED BY <2>1, StillFlow
<1> QED BY <1>1, <1>2, <1>3, <1>4, <1>5, Cases, SendFlow, HandlerFlow, ReadsFlow, TimeFlow,
           RemoveFlow, LoseFlow, QueueFlow

(* A message is never in two places: on the wire, scheduled, in a queue or *)
(* with a receiver, whatever is lost and settled late; so nothing the      *)
(* adapter sent once can be delivered to two receivers at a time, and what *)
(* removes a message from a queue removes its only copy: see OnePlace.     *)
THEOREM PlaceSafety == Spec => []OnePlace
<1>1. Init => OnePlace
  <2> SUFFICES ASSUME Init PROVE OnePlace
    OBVIOUS
  <2>1. DOMAIN <<>> = {}
    OBVIOUS
  <2>2. \A c \in Calls : DOMAIN wire[c] = {} /\ Range(wire[c]) = {}
    BY <2>1 DEF Init, Range
  <2>3. \A a \in Addresses : Range(queue[a]) = {} /\ IsInjective(queue[a])
    BY <2>1 DEF Init, Range, IsInjective
  <2>4. \A s \in Subs : unsettled[s] = {}
    BY DEF Init
  <2>5. OneFrame /\ \A m \in Msgs : ~OnTheWire(m)
    BY <2>2 DEF OneFrame, OnTheWire
  <2>6. Apart(queue, unsettled)
    BY <2>3, <2>4 DEF Apart
  <2>7. \A m \in Msgs : ~Out(m) /\ m \notin scheduled
    BY <2>3, <2>4 DEF Out, Stored, Init
  <2>8. Stages
    BY <2>5, <2>7 DEF Stages
  <2> QED BY <2>5, <2>6, <2>8 DEF OnePlace
<1>2. TypeOK /\ OnePlace /\ [Next]_vars => OnePlace'
  BY FlowStep
<1> QED BY <1>1, <1>2, TypeInvariant, PTL DEF Spec

-----------------------------------------------------------------------------
(* An early cancel wins                                                    *)

(* Once the scheduler port has a sender, the queue that the management     *)
(* search names exists, and is an anycast queue.                           *)
SameQueue ==
  setup.home = "queue" =>
    /\ "queue" \in exists => anycast
    /\ sender \in Calls => "queue" \in exists
    /\ \A m \in Msgs : pc[m] \in {"send", "sent"} => "queue" \in exists

(* Every step keeps the senders and the search at the same queue.          *)
LEMMA SameQueueStep ==
  ASSUME TypeOK, SameQueue, [Next]_vars
  PROVE  SameQueue'
<1>0. setup' = setup
  BY DEF Next, EnsureConnection, ConnectionOpens, ConnectionFails, ConnectionDrops, BrokerReads,
         Dispose, Lose, GetSender, Sendable, Send, TimeComes, Expires, Cancel, FindQueueMBean,
         RemoveMessages, Subscribe, ReceiverOpens, Unsubscribe, Deliver, Settle, vars
<1> SUFFICES ASSUME setup.home = "queue" PROVE SameQueue'
  BY <1>0 DEF SameQueue
<1>1. ASSUME UNCHANGED <<exists, anycast, sender>>, \A m \in Msgs : pc'[m] = pc[m] PROVE SameQueue'
  BY <1>0, <1>1 DEF SameQueue
<1>2. ASSUME NEW c \in Calls, EnsureConnection(c) \/ ConnectionOpens(c) \/ ConnectionFails(c)
      PROVE  SameQueue'
  <2>0. ~setup.transient
    BY SetupFacts
  <2>1. UNCHANGED <<exists, anycast, sender>> /\ \E to : Goto(c, to)
    BY <1>2, <2>0 DEF EnsureConnection, ConnectionOpens, ConnectionFails, connVars, brokerVars
  <2> QED BY <1>1, <2>1, GotoOther
<1>3. CASE Dispose \/ \E c \in Calls : ConnectionDrops(c)
  <2>0. ASSUME NEW c, Lose(c) PROVE UNCHANGED <<exists, anycast, sender>>
    <3>1. \A s : ~AutoDeleted(s)
      BY SetupFacts DEF AutoDeleted
    <3> QED BY <2>0, <3>1 DEF Lose
  <2>1. UNCHANGED <<exists, anycast, sender>> /\ \E c \in Calls : \E to : Goto(c, to)
    BY <1>3, <2>0 DEF Dispose, ConnectionDrops, TypeOK
  <2> QED BY <1>1, <2>1, GotoOther
<1>4. ASSUME NEW m \in Msgs, GetSender(m) PROVE SameQueue'
  <2>1. UNCHANGED <<exists, anycast, sender>>
    BY <1>4 DEF GetSender, brokerVars
  <2>2. pc' = [pc EXCEPT ![m] = IF sender \in up THEN "send" ELSE "sendable"]
    BY <1>4 DEF GetSender, Goto
  <2>3. sender \in up => "queue" \in exists
    BY DEF SameQueue, TypeOK
  <2>4. \A n \in Msgs : pc'[n] \in {"send", "sent"} => "queue" \in exists
    BY <2>2, <2>3 DEF SameQueue, TypeOK
  <2> QED BY <1>0, <2>1, <2>4 DEF SameQueue
<1>5. ASSUME NEW m \in Msgs, Sendable(m) PROVE SameQueue'
  <2>1. "queue" \in exists'
    BY <1>5 DEF Sendable
  <2>2. anycast'
    <3>1. CASE "queue" \in exists
      <4>1. anycast /\ anycast' = anycast
        BY <1>5, <3>1 DEF Sendable, SameQueue
      <4> QED BY <4>1
    <3>2. CASE "queue" \notin exists
      BY <1>5, <3>2 DEF Sendable, CreatesAnycast
    <3> QED BY <3>1, <3>2
  <2> QED BY <2>1, <2>2 DEF SameQueue
<1>6. ASSUME NEW m \in Msgs, Send(m) PROVE SameQueue'
  <2>1. UNCHANGED <<exists, anycast, sender>> /\ pc[m] = "send" /\ pc' = [pc EXCEPT ![m] = "sent"]
    BY <1>6 DEF Send, Goto, connVars, brokerVars
  <2>2. \A n \in Msgs : pc'[n] \in {"send", "sent"} => pc[n] \in {"send", "sent"}
    BY <2>1 DEF TypeOK
  <2> QED BY <1>0, <2>1, <2>2 DEF SameQueue
<1>7. ASSUME NEW s \in Subs, Subscribe(s) PROVE SameQueue'
  <2>1. UNCHANGED <<exists, anycast, sender>> /\ \E to : Goto(s, to)
    BY <1>7 DEF Subscribe, brokerVars
  <2> QED BY <1>1, <2>1, GotoOther
<1>8. ASSUME NEW s \in Subs, ReceiverOpens(s) PROVE SameQueue'
  <2>1. /\ exists' = exists \union {Address(s)} /\ sender' = sender /\ Goto(s, "receiving")
        /\ anycast' = (anycast \/ (Address(s) = "queue" /\ "queue" \notin exists))
    BY <1>8 DEF ReceiverOpens, connVars
  <2>2. \A m \in Msgs : pc'[m] = pc[m]
    BY <2>1, GotoOther
  <2>3. ASSUME "queue" \in exists' PROVE anycast'
    <3>1. CASE "queue" \in exists
      <4>1. anycast
        BY <3>1 DEF SameQueue
      <4> QED BY <2>1, <4>1
    <3>2. CASE "queue" \notin exists
      <4>1. Address(s) = "queue"
        BY <2>1, <2>3, <3>2
      <4> QED BY <2>1, <3>2, <4>1
    <3> QED BY <3>1, <3>2
  <2> QED BY <1>0, <2>1, <2>2, <2>3 DEF SameQueue
<1>9. ASSUME NEW s \in Subs, Unsubscribe(s) PROVE SameQueue'
  <2>1. ~setup.transient
    BY SetupFacts
  <2>2. UNCHANGED <<exists, anycast, sender>> /\ Goto(s, "closed")
    BY <1>9, <2>1 DEF Unsubscribe, AutoDeleted, connVars
  <2> QED BY <1>1, <2>2, GotoOther
<1>10. ASSUME UNCHANGED <<pc, exists, anycast, sender>> PROVE SameQueue'
  BY <1>1, <1>10
<1>11. ASSUME NEW c, BrokerReads(c) \/ TimeComes(c) \/ Expires(c) \/ Cancel(c)
                     \/ FindQueueMBean(c) \/ RemoveMessages(c) \/ Deliver(c)
       PROVE  SameQueue'
  BY <1>10, <1>11 DEF BrokerReads, TimeComes, Expires, Cancel, FindQueueMBean, RemoveMessages,
                      Deliver, connVars, brokerVars
<1>12. ASSUME NEW r, NEW how, Settle(r, how) PROVE SameQueue'
  BY <1>10, <1>12 DEF Settle, connVars, brokerVars
<1>13. UNCHANGED vars => SameQueue'
  BY <1>10 DEF vars, connVars, brokerVars
<1> QED BY <1>2, <1>3, <1>4, <1>5, <1>6, <1>7, <1>8, <1>9, <1>11, <1>12, <1>13, Cases

(* A message whose cancel() began while it was scheduled is still          *)
(* scheduled, or the cancel() has ended and the message is nowhere, or its *)
(* time has come.                                                          *)
CancelInTime ==
  \A m \in early :
    /\ m \in setup.later /\ pc[m] = "sent" /\ cancelling[m] # "no" /\ ~OnTheWire(m)
    /\ m \notin due => m \in scheduled \/ cancelling[m] = "done"
    /\ cancelling[m] = "done" => m \notin scheduled /\ ~Out(m)

(* Every step keeps that.                                                  *)
LEMMA CancelStep ==
  ASSUME TypeOK, OnePlace, SameQueue, CancelInTime, [Next]_vars
  PROVE  CancelInTime'
<1>1. Flow /\ early \subseteq Msgs
  BY FlowStep DEF TypeOK
<1>2. setup' = setup
  BY DEF Next, EnsureConnection, ConnectionOpens, ConnectionFails, ConnectionDrops, BrokerReads,
         Dispose, Lose, GetSender, Sendable, Send, TimeComes, Expires, Cancel, FindQueueMBean,
         RemoveMessages, Subscribe, ReceiverOpens, Unsubscribe, Deliver, Settle, vars
<1>3. ASSUME NEW m \in early, cancelling'[m] = cancelling[m]
      PROVE  /\ m \in setup'.later /\ pc'[m] = "sent" /\ cancelling'[m] # "no" /\ ~OnTheWire(m)'
             /\ m \notin due' => m \in scheduled' \/ cancelling'[m] = "done"
             /\ cancelling'[m] = "done" => m \notin scheduled' /\ ~Out(m)'
  <2>1. /\ m \in setup.later /\ pc[m] = "sent" /\ cancelling[m] # "no" /\ ~OnTheWire(m)
        /\ m \notin due => m \in scheduled \/ cancelling[m] = "done"
        /\ cancelling[m] = "done" => m \notin scheduled /\ ~Out(m)
    BY DEF CancelInTime
  <2>2. /\ pc'[m] = "sent" /\ ~OnTheWire(m)' /\ (m \in scheduled' => m \in scheduled)
        /\ m \in scheduled => m \in scheduled' \/ m \in due' \/ cancelling'[m] = "done"
        /\ Out(m)' => Out(m) \/ m \in scheduled
        /\ m \in due => m \in due'
    BY <1>1, <2>1 DEF Flow
  <2> QED BY <1>2, <1>3, <2>1, <2>2
<1>4. ASSUME UNCHANGED <<early, cancelling>> PROVE CancelInTime'
  BY <1>3, <1>4 DEF CancelInTime
<1>5. ASSUME NEW n \in Msgs, Cancel(n) PROVE CancelInTime'
  <2>1. /\ pc[n] = "sent" /\ n \in setup.later /\ cancelling[n] = "no"
        /\ cancelling' = [cancelling EXCEPT ![n] = "find"]
        /\ early' = IF n \in scheduled THEN early \union {n} ELSE early
        /\ UNCHANGED <<pc, wire, scheduled>>
    BY <1>5 DEF Cancel, brokerVars
  <2>2. \A m \in early : m # n /\ cancelling'[m] = cancelling[m]
    BY <1>1, <2>1 DEF CancelInTime, TypeOK
  <2>3. cancelling'[n] = "find"
    BY <2>1 DEF TypeOK
  <2>4. n \in scheduled => ~OnTheWire(n)'
    BY <2>1 DEF OnePlace, Stages, OnTheWire
  <2>5. ASSUME NEW m \in early'
        PROVE  /\ m \in setup'.later /\ pc'[m] = "sent" /\ cancelling'[m] # "no" /\ ~OnTheWire(m)'
               /\ m \notin due' => m \in scheduled' \/ cancelling'[m] = "done"
               /\ cancelling'[m] = "done" => m \notin scheduled' /\ ~Out(m)'
    <3>1. CASE m \in early
      BY <1>3, <2>2, <3>1
    <3>2. CASE m \notin early
      <4>1. m = n /\ n \in scheduled
        BY <2>1, <2>5, <3>2
      <4> QED BY <1>2, <2>1, <2>3, <2>4, <4>1
    <3> QED BY <3>1, <3>2
  <2> QED BY <2>5 DEF CancelInTime
<1>6. ASSUME NEW n \in Msgs, FindQueueMBean(n) PROVE CancelInTime'
  <2>1. /\ cancelling[n] = "find" /\ early' = early \ due /\ UNCHANGED <<pc, scheduled, due>>
        /\ cancelling' = [cancelling EXCEPT ![n] = IF anycast /\ "queue" \in exists
                                                   THEN "remove" ELSE "done"]
    BY <1>6 DEF FindQueueMBean, brokerVars
  <2>2. ASSUME NEW m \in early'
        PROVE  /\ m \in setup'.later /\ pc'[m] = "sent" /\ cancelling'[m] # "no" /\ ~OnTheWire(m)'
               /\ m \notin due' => m \in scheduled' \/ cancelling'[m] = "done"
               /\ cancelling'[m] = "done" => m \notin scheduled' /\ ~Out(m)'
    <3>1. m \in early /\ m \notin due /\ m \in Msgs
      BY <1>1, <2>1, <2>2
    <3>2. CASE m # n
      <4>1. cancelling'[m] = cancelling[m]
        BY <2>1, <3>1, <3>2 DEF TypeOK
      <4> QED BY <1>3, <3>1, <4>1
    <3>3. CASE m = n
      <4>1. m \in setup.later /\ pc[m] = "sent" /\ ~OnTheWire(m) /\ m \in scheduled
        BY <2>1, <3>1, <3>3 DEF CancelInTime
      <4>2. setup.home = "queue"
        BY <4>1, SetupFacts
      <4>3. anycast /\ "queue" \in exists
        BY <3>1, <4>1, <4>2 DEF SameQueue
      <4>4. cancelling' = [cancelling EXCEPT ![n] = "remove"]
        BY <2>1, <4>3
      <4>5. cancelling'[m] = "remove"
        BY <3>1, <3>3, <4>4 DEF TypeOK
      <4>6. ~OnTheWire(m)'
        BY <1>1, <3>1, <4>1 DEF Flow
      <4> QED BY <1>2, <2>1, <4>1, <4>5, <4>6
    <3> QED BY <3>2, <3>3
  <2> QED BY <2>2 DEF CancelInTime
<1>7. ASSUME NEW n \in Msgs, RemoveMessages(n) PROVE CancelInTime'
  <2>1. /\ cancelling[n] = "remove" /\ early' = early \ due /\ UNCHANGED <<pc, due>>
        /\ cancelling' = [cancelling EXCEPT ![n] = "done"] /\ scheduled' = scheduled \ {n}
    BY <1>7 DEF RemoveMessages
  <2>2. ASSUME NEW m \in early'
        PROVE  /\ m \in setup'.later /\ pc'[m] = "sent" /\ cancelling'[m] # "no" /\ ~OnTheWire(m)'
               /\ m \notin due' => m \in scheduled' \/ cancelling'[m] = "done"
               /\ cancelling'[m] = "done" => m \notin scheduled' /\ ~Out(m)'
    <3>1. m \in early /\ m \notin due /\ m \in Msgs
      BY <1>1, <2>1, <2>2
    <3>2. CASE m # n
      <4>1. cancelling'[m] = cancelling[m]
        BY <2>1, <3>1, <3>2 DEF TypeOK
      <4> QED BY <1>3, <3>1, <4>1
    <3>3. CASE m = n
      <4>1. m \in setup.later /\ pc[m] = "sent" /\ ~OnTheWire(m) /\ m \in scheduled
        BY <2>1, <3>1, <3>3 DEF CancelInTime
      <4>2. ~Out(m)
        BY <3>1, <4>1 DEF OnePlace, Stages
      <4>3. cancelling'[m] = "done"
        BY <2>1, <3>1, <3>3 DEF TypeOK
      <4>4. ~OnTheWire(m)' /\ ~Out(m)'
        BY <1>1, <2>1, <3>1, <4>1, <4>2 DEF Flow
      <4> QED BY <1>2, <2>1, <3>3, <4>1, <4>3, <4>4
    <3> QED BY <3>2, <3>3
  <2> QED BY <2>2 DEF CancelInTime
<1>8. ASSUME NEW c, EnsureConnection(c) \/ ConnectionOpens(c) \/ ConnectionFails(c)
                    \/ ConnectionDrops(c) \/ BrokerReads(c) \/ GetSender(c) \/ Sendable(c)
                    \/ Send(c) \/ TimeComes(c) \/ Expires(c) \/ Subscribe(c)
                    \/ ReceiverOpens(c) \/ Unsubscribe(c) \/ Deliver(c)
      PROVE  CancelInTime'
  BY <1>4, <1>8 DEF EnsureConnection, ConnectionOpens, ConnectionFails, ConnectionDrops, Lose,
                    BrokerReads, GetSender, Sendable, Send, TimeComes, Expires, Subscribe,
                    ReceiverOpens, Unsubscribe, Deliver, historyVars
<1>9. ASSUME NEW r, NEW how, Settle(r, how) PROVE CancelInTime'
  BY <1>4, <1>9 DEF Settle
<1>10. CASE Dispose \/ UNCHANGED vars
  BY <1>4, <1>10 DEF Dispose, Lose, vars, historyVars
<1> QED BY <1>5, <1>6, <1>7, <1>8, <1>9, <1>10, Cases

(* A cancel() that finds the message at the broker and ends before its     *)
(* time keeps it from every handler, however the two management requests   *)
(* interleave with frames, deliveries and reconnects: see EarlyCancelWins. *)
THEOREM CancelSafety == Spec => []EarlyCancelWins
<1>1. Init => SameQueue /\ CancelInTime
  BY ArtemisAssumption DEF Init, SameQueue, CancelInTime
<1>2. TypeOK /\ OnePlace /\ SameQueue /\ CancelInTime /\ [Next]_vars => SameQueue' /\ CancelInTime'
  BY SameQueueStep, CancelStep
<1>3. CancelInTime => EarlyCancelWins
  BY DEF CancelInTime, EarlyCancelWins, Out
<1> QED BY <1>1, <1>2, <1>3, TypeInvariant, PlaceSafety, PTL DEF Spec
=============================================================================
