-------------------------- MODULE RabbitBusProofs --------------------------
(***************************************************************************)
(* What the RabbitMQ adapter guarantees for any number of messages,        *)
(* subscriptions, deliveries and crashes, however the queue is declared.   *)
(***************************************************************************)
EXTENDS RabbitBus, ArrayLemmas

Awaits == {"idle", "declared", "done", "channel", "retryQueue", "ttl", "queue", "bind",
           "consume", "consuming", "closing", "closed", "dead"}
Frames == [type: {"ack", "giveup", "dead", "reject", "requeue"}, msg: Msgs]
Incoming == [msg: Msgs, sub: Subs, count: Nat, settled: BOOLEAN]

(* The values the state of the adapter and of the broker takes.            *)
Typed ==
  /\ mode \in Modes
  /\ pc \in [Msgs \union Subs -> Awaits]
  /\ half \subseteq Msgs \union Subs
  /\ incoming \subseteq Incoming
  /\ pubWire \in Seq(Msgs)
  /\ wire \in [Subs -> Seq(Frames)]
  /\ main \in Seq(Msgs) /\ parked \in Seq(Msgs)
  /\ unacked \in [Subs -> Msgs \union {None}]
  /\ deaths \in [Msgs -> Nat] /\ dlq \in [Msgs -> Nat]
  /\ delivered \in [Msgs -> Nat] /\ returned \in [Msgs -> Nat]
  /\ routed \subseteq Msgs /\ left \subseteq Msgs

-----------------------------------------------------------------------------
(* Types                                                                   *)

(* A call only moves on to a named await.                                  *)
LEMMA GotoType ==
  ASSUME Typed, NEW p \in Msgs \union Subs, NEW to \in Awaits, Goto(p, to)
  PROVE  pc' \in [Msgs \union Subs -> Awaits]
BY DEF Typed, Goto

(* Declaring exchanges leaves the call where it is, or moves it on.        *)
LEMMA EnsureType ==
  ASSUME Typed, NEW p \in Msgs \union Subs, NEW addr, NEW to \in Awaits,
         EnsureBusExchanges(p, addr, to)
  PROVE  pc' \in [Msgs \union Subs -> Awaits] /\ half' \subseteq Msgs \union Subs
<1>1. CASE UNCHANGED pc /\ half' = half \union {p}
  BY <1>1 DEF Typed
<1>2. CASE Goto(p, to) /\ half' \in {half, half \ {p}}
  BY <1>2, GotoType DEF Typed
<1> QED BY <1>1, <1>2 DEF EnsureBusExchanges

(* What the broker does with a rejected message keeps the types.           *)
LEMMA DeadLetterType ==
  ASSUME Typed, NEW m \in Msgs, DeadLetter(m)
  PROVE  /\ parked' \in Seq(Msgs) /\ left' \subseteq Msgs
         /\ deaths' \in [Msgs -> Nat] /\ dlq' \in [Msgs -> Nat]
<1>1. CASE /\ parked' = Append(parked, m) /\ deaths' = [deaths EXCEPT ![m] = @ + 1]
           /\ UNCHANGED <<dlq, expired, left>>
  BY <1>1 DEF Typed
<1>2. CASE dlq' = [dlq EXCEPT ![m] = @ + 1] /\ UNCHANGED <<parked, deaths, expired, left>>
  BY <1>2 DEF Typed
<1>3. CASE left' \in {left, left \union {m}} /\ UNCHANGED <<parked, deaths, dlq>>
  BY <1>3 DEF Typed
<1> QED BY <1>1, <1>2, <1>3 DEF DeadLetter

(* So does what it does with a message given back to the queue.            *)
LEMMA PutBackType ==
  ASSUME Typed, NEW m \in Msgs, PutBack(m)
  PROVE  /\ main' \in Seq(Msgs) /\ parked' \in Seq(Msgs) /\ left' \subseteq Msgs
         /\ deaths' \in [Msgs -> Nat] /\ dlq' \in [Msgs -> Nat]
<1>1. CASE DeadLetter(m) /\ UNCHANGED main
  BY <1>1, DeadLetterType DEF Typed
<1>2. CASE /\ main' = <<m>> \o main
           /\ deaths' = IF Quorum THEN [deaths EXCEPT ![m] = @ + 1] ELSE deaths
           /\ UNCHANGED <<parked, dlq, expired, left>>
  BY <1>2 DEF Typed
<1> QED BY <1>1, <1>2 DEF PutBack

(* A settlement writes frames for the message.                             *)
LEMMA SettlementType ==
  ASSUME NEW r, r.msg \in Msgs, NEW how
  PROVE  Settlement(r, how) \in Seq(Frames)
<1>1. \A t \in {"ack", "giveup", "dead", "reject", "requeue"} : Frame(t, r.msg) \in Frames
  BY DEF Frame, Frames
<1>2. GiveUp(r.msg) \in Seq(Frames)
  BY <1>1 DEF GiveUp
<1>3. \A t \in {"ack", "giveup", "dead", "reject", "requeue"} : <<Frame(t, r.msg)>> \in Seq(Frames)
  BY <1>1
<1> QED BY <1>2, <1>3 DEF Settlement

(* Every step keeps the types.                                             *)
LEMMA TypedStep == Typed /\ [Next]_vars => Typed'
<1> SUFFICES ASSUME Typed, [Next]_vars PROVE Typed'
  OBVIOUS
<1>1. ASSUME NEW m \in Msgs, PublishEnsure(m) PROVE Typed'
  <2>1. pc' \in [Msgs \union Subs -> Awaits] /\ half' \subseteq Msgs \union Subs
    BY <1>1, EnsureType DEF PublishEnsure, Awaits
  <2> QED BY <1>1, <2>1 DEF PublishEnsure, queueVars, historyVars, Typed
<1>2. ASSUME NEW m \in Msgs, PublishWrite(m) PROVE Typed'
  <2>1. pc' \in [Msgs \union Subs -> Awaits]
    BY <1>2, GotoType DEF PublishWrite, Awaits
  <2> QED BY <1>2, <2>1 DEF PublishWrite, queueVars, historyVars, Typed
<1>3. ASSUME NEW s \in Subs, SubscribeEnsure(s) PROVE Typed'
  <2>1. pc' \in [Msgs \union Subs -> Awaits] /\ half' \subseteq Msgs \union Subs
    BY <1>3, EnsureType DEF SubscribeEnsure, Awaits
  <2> QED BY <1>3, <2>1 DEF SubscribeEnsure, queueVars, historyVars, Typed
<1>4. ASSUME NEW s \in Subs, SubscribeSkip(s) \/ SubscribeDeclare(s) \/ Unsubscribe(s) PROVE Typed'
  <2>1. pc' \in [Msgs \union Subs -> Awaits]
    BY <1>4, GotoType DEF SubscribeSkip, SubscribeDeclare, Unsubscribe, Awaits
  <2> QED BY <1>4, <2>1
          DEF SubscribeSkip, SubscribeDeclare, Unsubscribe, queueVars, historyVars, Typed
<1>5. ASSUME NEW s \in Subs, Deliver(s) PROVE Typed'
  <2>1. Head(main) \in Msgs /\ Tail(main) \in Seq(Msgs)
    BY <1>5 DEF Deliver, Typed
  <2>2. [msg |-> Head(main), sub |-> s, count |-> deaths[Head(main)] + 1, settled |-> FALSE]
          \in Incoming
    BY <2>1 DEF Typed, Incoming
  <2>3. incoming' \subseteq Incoming
    BY <1>5, <2>2 DEF Deliver, Typed
  <2>4. unacked' \in [Subs -> Msgs \union {None}]
    <3>1. unacked' = [unacked EXCEPT ![s] = Head(main)]
      BY <1>5 DEF Deliver
    <3> QED BY <2>1, <3>1 DEF Typed
  <2>5. delivered' \in [Msgs -> Nat]
    <3>1. delivered' = [delivered EXCEPT ![Head(main)] = @ + 1]
      BY <1>5 DEF Deliver
    <3> QED BY <2>1, <3>1 DEF Typed
  <2> QED BY <1>5, <2>1, <2>3, <2>4, <2>5 DEF Deliver, Typed
<1>6. ASSUME NEW r \in incoming, NEW how \in Settlements, Settle(r, how) PROVE Typed'
  <2>1. r \in Incoming /\ r.msg \in Msgs /\ r.sub \in Subs
    BY DEF Typed, Incoming
  <2>2. [r EXCEPT !.settled = TRUE] \in Incoming
    BY <2>1 DEF Incoming
  <2>3. incoming' \subseteq Incoming
    BY <1>6, <2>2 DEF Settle, Typed
  <2>4. Settlement(r, how) \in Seq(Frames)
    BY <2>1, SettlementType
  <2>5. wire' \in [Subs -> Seq(Frames)]
    BY <1>6, <2>1, <2>4 DEF Settle, Typed
  <2> QED BY <1>6, <2>3, <2>5 DEF Settle, queueVars, historyVars, Typed
<1>7. ASSUME NEW s \in Subs, BrokerReads(s) PROVE Typed'
  <2> DEFINE f == Head(wire[s])
  <2>1. wire[s] \in Seq(Frames) /\ wire[s] # <<>>
    BY <1>7 DEF BrokerReads, Typed
  <2>2. f \in Frames /\ Tail(wire[s]) \in Seq(Frames)
    BY <2>1
  <2>3. f.msg \in Msgs
    BY <2>2 DEF Frames
  <2>4. wire' \in [Subs -> Seq(Frames)]
    BY <1>7, <2>2 DEF BrokerReads, Typed
  <2>5. unacked' \in [Subs -> Msgs \union {None}]
    BY <1>7 DEF BrokerReads, Typed
  <2>6. /\ main' \in Seq(Msgs) /\ parked' \in Seq(Msgs) /\ left' \subseteq Msgs
        /\ deaths' \in [Msgs -> Nat] /\ dlq' \in [Msgs -> Nat]
    <3>1. CASE left' = left \union {f.msg} /\ UNCHANGED <<main, parked, deaths, dlq, expired>>
      BY <3>1, <2>3 DEF Typed
    <3>2. CASE UNCHANGED <<main, parked, deaths, dlq, expired, left>>
      BY <3>2 DEF Typed
    <3>3. CASE dlq' = [dlq EXCEPT ![f.msg] = @ + 1] /\ UNCHANGED <<main, parked, deaths, expired, left>>
      BY <3>3, <2>3 DEF Typed
    <3>4. CASE DeadLetter(f.msg) /\ UNCHANGED main
      BY <3>4, <2>3, DeadLetterType DEF Typed
    <3>5. CASE PutBack(f.msg)
      BY <3>5, <2>3, PutBackType
    <3> QED BY <1>7, <3>1, <3>2, <3>3, <3>4, <3>5 DEF BrokerReads
  <2> QED BY <1>7, <2>4, <2>5, <2>6 DEF BrokerReads, clientVars, Typed
<1>8. ASSUME NEW s \in Subs, CloseChannel(s) PROVE Typed'
  <2>1. pc' \in [Msgs \union Subs -> Awaits]
    BY <1>8, GotoType DEF CloseChannel, Awaits
  <2>2. unacked' \in [Subs -> Msgs \union {None}]
    BY <1>8 DEF CloseChannel, Typed
  <2>3. /\ main' \in Seq(Msgs) /\ parked' \in Seq(Msgs) /\ left' \subseteq Msgs
        /\ deaths' \in [Msgs -> Nat] /\ dlq' \in [Msgs -> Nat]
        /\ returned' \in [Msgs -> Nat]
    <3>1. CASE UNCHANGED <<main, parked, deaths, dlq, expired, left, returned>>
      BY <3>1 DEF Typed
    <3>2. CASE /\ unacked[s] # None
               /\ PutBack(unacked[s])
               /\ returned' = [returned EXCEPT ![unacked[s]] = @ + 1]
      <4>1. unacked[s] \in Msgs
        BY <3>2 DEF Typed
      <4>2. returned' \in [Msgs -> Nat]
        BY <3>2, <4>1 DEF Typed
      <4> QED BY <3>2, <4>1, <4>2, PutBackType
    <3> QED BY <1>8, <3>1, <3>2 DEF CloseChannel
  <2> QED BY <1>8, <2>1, <2>2, <2>3 DEF CloseChannel, Typed
<1>9. CASE BrokerRoutes
  <2>1. Head(pubWire) \in Msgs /\ Tail(pubWire) \in Seq(Msgs)
    BY <1>9 DEF BrokerRoutes, Typed
  <2>2. main' \in Seq(Msgs) /\ routed' \subseteq Msgs
    <3>1. CASE main' = Append(main, Head(pubWire)) /\ routed' = routed \union {Head(pubWire)}
      BY <2>1, <3>1 DEF Typed
    <3>2. CASE UNCHANGED <<main, routed>>
      BY <3>2 DEF Typed
    <3> QED BY <1>9, <3>1, <3>2 DEF BrokerRoutes
  <2> QED BY <1>9, <2>1, <2>2 DEF BrokerRoutes, Typed
<1>10. CASE RetryElapses
  <2>1. Head(parked) \in Msgs /\ Tail(parked) \in Seq(Msgs)
    BY <1>10 DEF RetryElapses, Typed
  <2> QED BY <1>10, <2>1 DEF RetryElapses, clientVars, historyVars, Typed
<1>11. CASE TtlElapses
  <2>1. Head(main) \in Msgs /\ Tail(main) \in Seq(Msgs)
    BY <1>11 DEF TtlElapses, Typed
  <2>2. /\ parked' \in Seq(Msgs) /\ left' \subseteq Msgs
        /\ deaths' \in [Msgs -> Nat] /\ dlq' \in [Msgs -> Nat]
    BY <1>11, <2>1, DeadLetterType DEF TtlElapses
  <2> QED BY <1>11, <2>1, <2>2 DEF TtlElapses, clientVars, Typed
<1>12. CASE Crash
  <2>1. pc' \in [Msgs \union Subs -> Awaits]
    <3>1. ASSUME NEW p \in Msgs \union Subs PROVE pc'[p] \in Awaits
      BY <1>12 DEF Crash, Awaits
    <3> QED BY <1>12, <3>1 DEF Crash
  <2>2. wire' \in [Subs -> Seq(Frames)] /\ pubWire' \in Seq(Msgs)
    BY <1>12 DEF Crash
  <2> QED BY <1>12, <2>1, <2>2 DEF Crash, queueVars, historyVars, Typed
<1>13. CASE UNCHANGED vars
  BY <1>13 DEF vars, clientVars, queueVars, historyVars, Typed
<1> QED BY <1>1, <1>2, <1>3, <1>4, <1>5, <1>6, <1>7, <1>8, <1>9, <1>10, <1>11, <1>12, <1>13
        DEF Next

(* The types hold throughout.                                              *)
LEMMA TypedInvariant == Spec => []Typed
<1>1. Init => Typed
  BY RabbitAssumption DEF Init, Typed, Awaits
<1> QED BY <1>1, TypedStep, PTL DEF Spec

-----------------------------------------------------------------------------
(* The topology is declared before it is used                              *)

Exchange(addr) == {<<addr, "topic">>, <<addr, "fanout">>}

(* The address whose exchanges a call in the middle of ensureBusExchanges  *)
(* is declaring.                                                           *)
Declaring(p, addr) ==
  \/ addr = "topic" /\ pc[p] = "idle"
  \/ addr = "dla" /\ pc[p] = "channel" /\ p \in Subs /\ mode.deadLetter
  \/ addr = "expiry" /\ pc[p] = "ttl" /\ p \in Subs /\ mode.expiry

(* What the adapter remembers as declared is declared; a call that is      *)
(* half-way has declared one of its two exchanges.                         *)
ExchangesKnown ==
  /\ \A addr \in cached : Exchange(addr) \subseteq exchanges
  /\ \A p \in half : \E addr \in {"topic", "dla", "expiry"} :
       Declaring(p, addr) /\ <<addr, "topic">> \in exchanges
  /\ \A m \in Msgs : pc[m] = "declared" => Exchange("topic") \subseteq exchanges
  /\ pubWire # <<>> => Exchange("topic") \subseteq exchanges
  /\ \A s \in Subs :
       pc[s] \in {"retryQueue", "ttl", "queue", "bind", "consume", "consuming"} /\ mode.deadLetter
         => Exchange("dla") \subseteq exchanges

(* A subscription that has come past a queue has declared it, and messages *)
(* are where a queue is.                                                   *)
QueuesKnown ==
  /\ \A s \in Subs :
       /\ pc[s] \in {"ttl", "queue", "bind", "consume", "consuming"} /\ Retry => "retry" \in queues
       /\ pc[s] \in {"consume", "consuming"} => "bound" \in queues
       /\ wire[s] # <<>> \/ unacked[s] # None => "bound" \in queues
       /\ (\E i \in DOMAIN wire[s] : wire[s][i].type = "dead") => <<"dla", "fanout">> \in exchanges
  /\ "bound" \in queues /\ Retry => "retry" \in queues
  /\ main # <<>> => "bound" \in queues
  /\ parked # <<>> => "retry" \in queues /\ "bound" \in queues

(* ensureBusExchanges only adds exchanges, and both are there when the     *)
(* call is through.                                                        *)
LEMMA EnsureEffect ==
  ASSUME Typed, ExchangesKnown, NEW p \in Msgs \union Subs,
         NEW addr \in {"topic", "dla", "expiry"}, Declaring(p, addr),
         NEW to \in Awaits, EnsureBusExchanges(p, addr, to)
  PROVE  /\ exchanges \subseteq exchanges'
         /\ \A a \in cached' : Exchange(a) \subseteq exchanges'
         /\ \/ UNCHANGED pc /\ half' = half \union {p} /\ <<addr, "topic">> \in exchanges'
            \/ /\ pc' = [pc EXCEPT ![p] = to] /\ half' \subseteq half \ {p}
               /\ Exchange(addr) \subseteq exchanges'
<1>1. CASE addr \in cached /\ p \notin half /\ Goto(p, to) /\ UNCHANGED <<half, cached, exchanges>>
  BY <1>1 DEF ExchangesKnown, Goto
<1>2. CASE /\ half' = half \union {p}
           /\ exchanges' = exchanges \union {<<addr, "topic">>}
           /\ UNCHANGED <<pc, cached>>
  BY <1>2 DEF ExchangesKnown
<1>3. CASE /\ p \in half /\ half' = half \ {p}
           /\ exchanges' = exchanges \union {<<addr, "fanout">>}
           /\ cached' = cached \union {addr}
           /\ Goto(p, to)
  <2>1. <<addr, "topic">> \in exchanges
    BY <1>3 DEF ExchangesKnown, Declaring
  <2>2. Exchange(addr) \subseteq exchanges'
    BY <1>3, <2>1 DEF Exchange
  <2> QED BY <1>3, <2>2 DEF ExchangesKnown, Goto
<1> QED BY <1>1, <1>2, <1>3 DEF EnsureBusExchanges

Past == {"retryQueue", "ttl", "queue", "bind", "consume", "consuming"}

(* A call that moves on while it declares no exchange keeps what is known. *)
LEMMA MoveStep ==
  ASSUME Typed, ExchangesKnown, NEW p \in Msgs \union Subs, NEW to \in Awaits,
         pc' = [pc EXCEPT ![p] = to], \A addr \in {"topic", "dla", "expiry"} : ~Declaring(p, addr),
         to # "declared", p \in Subs /\ to \in Past /\ mode.deadLetter => pc[p] \in Past,
         UNCHANGED <<mode, half, cached, exchanges>>,
         pubWire' # <<>> => Exchange("topic") \subseteq exchanges
  PROVE  ExchangesKnown'
<1>1. \A q \in Msgs \union Subs : pc'[q] = IF q = p THEN to ELSE pc[q]
  BY DEF Typed
<1>2. \A q \in half : \E addr \in {"topic", "dla", "expiry"} :
        Declaring(q, addr)' /\ <<addr, "topic">> \in exchanges
  <2> TAKE q \in half
  <2>1. PICK addr \in {"topic", "dla", "expiry"} : Declaring(q, addr) /\ <<addr, "topic">> \in exchanges
    BY DEF ExchangesKnown
  <2>2. q # p /\ q \in Msgs \union Subs
    BY <2>1 DEF Typed
  <2>3. Declaring(q, addr)'
    BY <1>1, <2>1, <2>2 DEF Declaring
  <2> QED BY <2>1, <2>3
<1>3. \A m \in Msgs : pc'[m] = "declared" => Exchange("topic") \subseteq exchanges
  BY <1>1 DEF ExchangesKnown
<1>4. \A s \in Subs : pc'[s] \in Past /\ mode.deadLetter => Exchange("dla") \subseteq exchanges
  BY <1>1 DEF ExchangesKnown, Past
<1> QED BY <1>2, <1>3, <1>4 DEF ExchangesKnown, Past

(* A call in ensureBusExchanges keeps what is known.                       *)
LEMMA EnsureStep ==
  ASSUME Typed, ExchangesKnown, NEW p \in Msgs \union Subs,
         NEW addr \in {"topic", "dla", "expiry"}, Declaring(p, addr),
         NEW to \in Awaits, EnsureBusExchanges(p, addr, to), UNCHANGED <<mode, pubWire>>,
         to = "declared" => addr = "topic", to \in Past => addr = "dla" \/ pc[p] \in Past
  PROVE  ExchangesKnown'
<1>1. /\ exchanges \subseteq exchanges'
      /\ \A a \in cached' : Exchange(a) \subseteq exchanges'
  BY EnsureEffect
<1>2. CASE UNCHANGED pc /\ half' = half \union {p} /\ <<addr, "topic">> \in exchanges'
  <2>1. \A q \in half' : \E a \in {"topic", "dla", "expiry"} :
          Declaring(q, a)' /\ <<a, "topic">> \in exchanges'
    BY <1>1, <1>2 DEF ExchangesKnown, Declaring
  <2> QED BY <1>1, <1>2, <2>1 DEF ExchangesKnown
<1>3. CASE /\ pc' = [pc EXCEPT ![p] = to] /\ half' \subseteq half \ {p}
           /\ Exchange(addr) \subseteq exchanges'
  <2>1. \A q \in Msgs \union Subs : pc'[q] = IF q = p THEN to ELSE pc[q]
    BY <1>3 DEF Typed
  <2>2. \A q \in half' : \E a \in {"topic", "dla", "expiry"} :
          Declaring(q, a)' /\ <<a, "topic">> \in exchanges'
    <3> TAKE q \in half'
    <3>1. q \in half /\ q # p /\ q \in Msgs \union Subs
      BY <1>3 DEF Typed
    <3>2. PICK a \in {"topic", "dla", "expiry"} : Declaring(q, a) /\ <<a, "topic">> \in exchanges
      BY <3>1 DEF ExchangesKnown
    <3>3. Declaring(q, a)'
      BY <2>1, <3>1, <3>2 DEF Declaring
    <3> QED BY <1>1, <3>2, <3>3
  <2>3. \A m \in Msgs : pc'[m] = "declared" => Exchange("topic") \subseteq exchanges'
    BY <1>1, <1>3, <2>1 DEF ExchangesKnown
  <2>4. \A s \in Subs : pc'[s] \in Past /\ mode.deadLetter => Exchange("dla") \subseteq exchanges'
    BY <1>1, <1>3, <2>1 DEF ExchangesKnown, Past
  <2>5. pubWire' # <<>> => Exchange("topic") \subseteq exchanges'
    BY <1>1 DEF ExchangesKnown
  <2> QED BY <1>1, <2>2, <2>3, <2>4, <2>5 DEF ExchangesKnown, Past
<1> QED BY <1>2, <1>3, EnsureEffect

(* Every step keeps what is known of the exchanges.                        *)
LEMMA ExchangesStep == Typed /\ ExchangesKnown /\ [Next]_vars => ExchangesKnown'
<1> SUFFICES ASSUME Typed, ExchangesKnown, [Next]_vars PROVE ExchangesKnown'
  OBVIOUS
<1>1. ASSUME NEW m \in Msgs, PublishEnsure(m) PROVE ExchangesKnown'
  <2>1. Declaring(m, "topic")
    BY <1>1 DEF PublishEnsure, Declaring
  <2> QED BY <1>1, <2>1, EnsureStep DEF PublishEnsure, Awaits, Past
<1>2. ASSUME NEW m \in Msgs, PublishWrite(m) PROVE ExchangesKnown'
  <2>1. \A addr \in {"topic", "dla", "expiry"} : ~Declaring(m, addr)
    BY <1>2 DEF PublishWrite, Declaring
  <2>2. Exchange("topic") \subseteq exchanges
    BY <1>2 DEF PublishWrite, ExchangesKnown
  <2> QED BY <1>2, <2>1, <2>2, MoveStep DEF PublishWrite, Goto, Awaits, Past
<1>3. ASSUME NEW s \in Subs, SubscribeEnsure(s) PROVE ExchangesKnown'
  <2>1. CASE pc[s] = "idle" /\ EnsureBusExchanges(s, "topic", "channel")
    <3>1. Declaring(s, "topic")
      BY <2>1 DEF Declaring
    <3> QED BY <1>3, <2>1, <3>1, EnsureStep DEF SubscribeEnsure, Awaits, Past
  <2>2. CASE pc[s] = "channel" /\ mode.deadLetter /\ EnsureBusExchanges(s, "dla", "retryQueue")
    <3>1. Declaring(s, "dla")
      BY <2>2 DEF Declaring
    <3> QED BY <1>3, <2>2, <3>1, EnsureStep DEF SubscribeEnsure, Awaits, Past
  <2>3. CASE pc[s] = "ttl" /\ mode.expiry /\ EnsureBusExchanges(s, "expiry", "queue")
    <3>1. Declaring(s, "expiry")
      BY <2>3 DEF Declaring
    <3> QED BY <1>3, <2>3, <3>1, EnsureStep DEF SubscribeEnsure, Awaits, Past
  <2> QED BY <1>3, <2>1, <2>2, <2>3 DEF SubscribeEnsure
<1>4. ASSUME NEW s \in Subs, NEW from, NEW to \in Awaits, pc[s] = from, Goto(s, to), to # "declared",
             \/ from \in {"retryQueue", "queue", "bind", "consume", "consuming", "closing", "dead"}
             \/ from = "channel" /\ ~mode.deadLetter
             \/ from = "ttl" /\ ~mode.expiry,
             from \in {"closing", "dead"} => to \notin Past,
             UNCHANGED <<mode, half, cached, exchanges, pubWire>>
      PROVE  ExchangesKnown'
  <2>1. \A addr \in {"topic", "dla", "expiry"} : ~Declaring(s, addr)
    BY <1>4 DEF Declaring
  <2>2. to \in Past /\ mode.deadLetter => pc[s] \in Past
    BY <1>4 DEF Past
  <2>3. pubWire' # <<>> => Exchange("topic") \subseteq exchanges
    BY <1>4 DEF ExchangesKnown
  <2> QED BY <1>4, <2>1, <2>2, <2>3, MoveStep DEF Goto
<1>5. ASSUME NEW s \in Subs, SubscribeSkip(s) \/ SubscribeDeclare(s) \/ Unsubscribe(s)
      PROVE  ExchangesKnown'
  BY <1>4, <1>5 DEF SubscribeSkip, SubscribeDeclare, Unsubscribe, Awaits, Past
<1>6. ASSUME NEW s \in Subs, CloseChannel(s) PROVE ExchangesKnown'
  BY <1>4, <1>6 DEF CloseChannel, Awaits, Past
<1>7. CASE BrokerRoutes
  BY <1>7 DEF BrokerRoutes, ExchangesKnown, Declaring
<1>8. CASE Crash
  <2>1. \A m \in Msgs : pc'[m] # "declared"
    BY <1>8 DEF Crash
  <2>2. \A s \in Subs : pc'[s] \notin Past
    <3> TAKE s \in Subs
    <3>1. s \notin Msgs
      BY RabbitAssumption
    <3> QED BY <1>8, <3>1 DEF Crash, Past
  <2> QED BY <1>8, <2>1, <2>2 DEF Crash, ExchangesKnown, Past
<1>9. CASE UNCHANGED <<mode, pc, half, cached, exchanges, pubWire>>
  BY <1>9 DEF ExchangesKnown, Declaring
<1>10. ASSUME NEW s \in Subs, Deliver(s) \/ BrokerReads(s) PROVE ExchangesKnown'
  BY <1>9, <1>10 DEF Deliver, BrokerReads, clientVars
<1>11. ASSUME NEW r \in incoming, NEW how \in Settlements, Settle(r, how) PROVE ExchangesKnown'
  BY <1>9, <1>11 DEF Settle
<1>12. ASSUME RetryElapses \/ TtlElapses \/ UNCHANGED vars PROVE ExchangesKnown'
  BY <1>9, <1>12 DEF RetryElapses, TtlElapses, vars, clientVars
<1> QED BY <1>1, <1>2, <1>3, <1>5, <1>6, <1>7, <1>8, <1>10, <1>11, <1>12 DEF Next

(* Queues are declared and never deleted; only a subscription that writes  *)
(* to the dead-letter exchange, or has come past a queue, is at stake.     *)
LEMMA QueuesStep == Typed /\ ExchangesKnown /\ ExchangesKnown' /\ QueuesKnown /\ [Next]_vars => QueuesKnown'
<1> SUFFICES ASSUME Typed, ExchangesKnown, QueuesKnown, [Next]_vars PROVE QueuesKnown'
  OBVIOUS
<1>0. ASSUME NEW p \in Msgs \union Subs, NEW to, Goto(p, to)
      PROVE  \A q \in Msgs \union Subs : pc'[q] = IF q = p THEN to ELSE pc[q]
  BY <1>0 DEF Goto, Typed
<1>1. ASSUME NEW m \in Msgs, PublishEnsure(m) \/ PublishWrite(m) PROVE QueuesKnown'
  <2>1. \A s \in Subs : pc'[s] = pc[s]
    <3>1. \A s \in Subs : s # m
      BY RabbitAssumption
    <3>2. UNCHANGED pc \/ (\E to \in {"declared", "done"} : Goto(m, to))
      BY <1>1 DEF PublishEnsure, PublishWrite, EnsureBusExchanges
    <3> QED BY <1>0, <3>1, <3>2
  <2>2. exchanges \subseteq exchanges'
    BY <1>1 DEF PublishEnsure, PublishWrite, EnsureBusExchanges
  <2>3. UNCHANGED <<mode, wire, queues, main, parked, unacked>>
    BY <1>1 DEF PublishEnsure, PublishWrite, queueVars
  <2> QED BY <2>1, <2>2, <2>3 DEF QueuesKnown, Retry
<1>2. ASSUME NEW s \in Subs, NEW from, NEW to, pc[s] = from, UNCHANGED pc \/ Goto(s, to),
             to \in {"ttl", "queue", "bind", "consume", "consuming"} /\ Retry => "retry" \in queues',
             to \in {"consume", "consuming"} => "bound" \in queues',
             "bound" \in queues' /\ Retry => "retry" \in queues',
             queues \subseteq queues', exchanges \subseteq exchanges',
             UNCHANGED <<mode, wire>>, main' # <<>> => "bound" \in queues,
             parked' # <<>> => "retry" \in queues /\ "bound" \in queues,
             \A t \in Subs : unacked'[t] # None => "bound" \in queues
      PROVE  QueuesKnown'
  <2>1. \A t \in Subs : pc'[t] = pc[t] \/ (t = s /\ pc'[t] = to)
    BY <1>0, <1>2
  <2> QED BY <1>2, <2>1 DEF QueuesKnown, Retry
<1>3. ASSUME NEW s \in Subs, SubscribeEnsure(s) PROVE QueuesKnown'
  <2>1. exchanges \subseteq exchanges' /\ UNCHANGED <<mode, wire, queues, main, parked, unacked>>
    BY <1>3 DEF SubscribeEnsure, EnsureBusExchanges, queueVars
  <2>2. \/ UNCHANGED pc \/ Goto(s, "channel") \/ Goto(s, "retryQueue")
        \/ pc[s] = "ttl" /\ Goto(s, "queue")
    BY <1>3 DEF SubscribeEnsure, EnsureBusExchanges
  <2>3. CASE UNCHANGED pc
    BY <1>2, <2>1, <2>3 DEF QueuesKnown
  <2>4. CASE Goto(s, "channel")
    BY <1>2, <2>1, <2>4 DEF QueuesKnown
  <2>5. CASE Goto(s, "retryQueue")
    BY <1>2, <2>1, <2>5 DEF QueuesKnown
  <2>6. CASE pc[s] = "ttl" /\ Goto(s, "queue")
    BY <1>2, <2>1, <2>6 DEF QueuesKnown
  <2> QED BY <2>2, <2>3, <2>4, <2>5, <2>6
<1>4. ASSUME NEW s \in Subs, SubscribeSkip(s) PROVE QueuesKnown'
  <2>1. UNCHANGED <<mode, wire, queues, main, parked, unacked, exchanges>>
    BY <1>4 DEF SubscribeSkip, queueVars
  <2>2. CASE pc[s] = "channel" /\ ~mode.deadLetter /\ Goto(s, "ttl")
    BY <1>2, <2>1, <2>2 DEF QueuesKnown, Retry
  <2>3. CASE pc[s] = "retryQueue" /\ ~Retry /\ Goto(s, "ttl")
    BY <1>2, <2>1, <2>3 DEF QueuesKnown
  <2>4. CASE pc[s] = "ttl" /\ ~mode.expiry /\ Goto(s, "queue")
    BY <1>2, <2>1, <2>4 DEF QueuesKnown
  <2> QED BY <1>4, <2>2, <2>3, <2>4 DEF SubscribeSkip
<1>5. ASSUME NEW s \in Subs, SubscribeDeclare(s) PROVE QueuesKnown'
  <2>1. UNCHANGED <<mode, wire, main, parked, unacked, exchanges>>
    BY <1>5 DEF SubscribeDeclare, queueVars
  <2>2. CASE pc[s] = "retryQueue" /\ Retry /\ queues' = queues \union {"retry"} /\ Goto(s, "ttl")
    BY <1>2, <2>1, <2>2 DEF QueuesKnown
  <2>3. CASE pc[s] = "queue" /\ queues' = queues \union {"main"} /\ Goto(s, "bind")
    BY <1>2, <2>1, <2>3 DEF QueuesKnown
  <2>4. CASE pc[s] = "bind" /\ queues' = queues \union {"bound"} /\ Goto(s, "consume")
    BY <1>2, <2>1, <2>4 DEF QueuesKnown
  <2>5. CASE pc[s] = "consume" /\ UNCHANGED queues /\ Goto(s, "consuming")
    BY <1>2, <2>1, <2>5 DEF QueuesKnown
  <2> QED BY <1>5, <2>2, <2>3, <2>4, <2>5 DEF SubscribeDeclare
<1>6. ASSUME NEW s \in Subs, Unsubscribe(s) PROVE QueuesKnown'
  BY <1>2, <1>6 DEF Unsubscribe, queueVars, QueuesKnown
<1>7. ASSUME NEW m \in Msgs, PutBack(m) \/ (UNCHANGED main /\ DeadLetter(m)), "bound" \in queues
      PROVE  parked' # <<>> => "retry" \in queues /\ "bound" \in queues
  <2>1. parked' # <<>> => parked # <<>> \/ Dlx = "retry"
    BY <1>7 DEF PutBack, DeadLetter
  <2>2. Dlx = "retry" => Retry
    BY DEF Dlx
  <2> QED BY <1>7, <2>1, <2>2 DEF QueuesKnown
<1>8. ASSUME NEW s \in Subs, CloseChannel(s) PROVE QueuesKnown'
  <2>1. UNCHANGED <<mode, wire, queues, exchanges>> /\ (Goto(s, "idle") \/ Goto(s, "closed"))
    BY <1>8 DEF CloseChannel
  <2>2. unacked[s] # None => unacked[s] \in Msgs /\ "bound" \in queues
    BY DEF Typed, QueuesKnown
  <2>3. parked' # <<>> => "retry" \in queues /\ "bound" \in queues
    BY <1>7, <1>8, <2>1, <2>2 DEF CloseChannel, QueuesKnown
  <2>4. main' # <<>> => "bound" \in queues
    BY <1>8, <2>2 DEF CloseChannel, QueuesKnown
  <2>5. \A t \in Subs : unacked'[t] # None => "bound" \in queues
    BY <1>8 DEF CloseChannel, QueuesKnown, Typed
  <2>6. CASE Goto(s, "idle")
    BY <1>2, <2>1, <2>3, <2>4, <2>5, <2>6 DEF QueuesKnown
  <2>7. CASE Goto(s, "closed")
    BY <1>2, <2>1, <2>3, <2>4, <2>5, <2>7 DEF QueuesKnown
  <2> QED BY <2>1, <2>6, <2>7
<1>9. ASSUME UNCHANGED <<mode, pc, queues, exchanges>>,
             \A t \in Subs : /\ wire'[t] # <<>> \/ unacked'[t] # None => "bound" \in queues
                             /\ (\E i \in DOMAIN wire'[t] : wire'[t][i].type = "dead")
                                  => <<"dla", "fanout">> \in exchanges,
             main' # <<>> => "bound" \in queues,
             parked' # <<>> => "retry" \in queues /\ "bound" \in queues
      PROVE  QueuesKnown'
  BY <1>9 DEF QueuesKnown, Retry
<1>10. ASSUME NEW s \in Subs, Deliver(s) PROVE QueuesKnown'
  <2>1. \A t \in Subs : unacked'[t] # None => "bound" \in queues
    BY <1>10 DEF Deliver, QueuesKnown, Typed
  <2>2. main' # <<>> => "bound" \in queues
    BY <1>10 DEF Deliver, QueuesKnown
  <2> QED BY <1>9, <1>10, <2>1, <2>2 DEF Deliver, QueuesKnown
<1>11. ASSUME NEW r \in incoming, NEW how \in Settlements, Settle(r, how) PROVE QueuesKnown'
  <2>1. r.sub \in Subs /\ r.msg \in Msgs
    BY DEF Typed, Incoming
  <2>2. Settlement(r, how) \in Seq(Frames)
    BY <2>1, SettlementType
  <2>3. \A i \in DOMAIN Settlement(r, how) : Settlement(r, how)[i].type = "dead" => Retry
    BY DEF Settlement, Frame
  <2>4. ASSUME pc[r.sub] = "consuming"
        PROVE  "bound" \in queues /\ (Retry => <<"dla", "fanout">> \in exchanges)
    BY <2>1, <2>4 DEF QueuesKnown, ExchangesKnown, Exchange, Retry
  <2>5. ASSUME NEW t \in Subs
        PROVE  /\ wire'[t] # <<>> \/ unacked'[t] # None => "bound" \in queues
               /\ (\E i \in DOMAIN wire'[t] : wire'[t][i].type = "dead")
                    => <<"dla", "fanout">> \in exchanges
    <3>1. CASE wire'[t] = wire[t]
      BY <1>11, <3>1 DEF Settle, queueVars, QueuesKnown
    <3>2. CASE pc[r.sub] = "consuming" /\ wire'[t] = wire[t] \o Settlement(r, how)
      <4>1. wire[t] \in Seq(Frames)
        BY DEF Typed
      <4>2. Range(wire'[t]) = Range(wire[t]) \union Range(Settlement(r, how))
        BY <2>2, <3>2, <4>1, ConcatRange
      <4>3. ASSUME NEW i \in DOMAIN wire'[t], wire'[t][i].type = "dead"
            PROVE  Retry \/ \E j \in DOMAIN wire[t] : wire[t][j].type = "dead"
        <5>1. wire'[t][i] \in Range(wire[t]) \union Range(Settlement(r, how))
          BY <4>2 DEF Range
        <5> QED BY <2>3, <4>3, <5>1 DEF Range
      <4> QED BY <2>4, <3>2, <4>3 DEF QueuesKnown
    <3>3. wire'[t] = wire[t] \/ (pc[r.sub] = "consuming" /\ wire'[t] = wire[t] \o Settlement(r, how))
      BY <1>11, <2>1 DEF Settle, Typed
    <3> QED BY <3>1, <3>2, <3>3
  <2> QED BY <1>9, <1>11, <2>5 DEF Settle, queueVars, QueuesKnown
<1>12. ASSUME NEW s \in Subs, BrokerReads(s) PROVE QueuesKnown'
  <2>1. wire[s] \in Seq(Frames) /\ wire[s] # <<>> /\ "bound" \in queues
    BY <1>12 DEF BrokerReads, Typed, QueuesKnown
  <2>2. Head(wire[s]).msg \in Msgs
    <3>1. Head(wire[s]) \in Frames
      BY <2>1
    <3> QED BY <3>1 DEF Frames
  <2>3. parked' # <<>> => "retry" \in queues /\ "bound" \in queues
    BY <1>7, <1>12, <2>1, <2>2 DEF BrokerReads, QueuesKnown
  <2>4. \A t \in Subs : \A i \in DOMAIN wire'[t] : \E j \in DOMAIN wire[t] : wire'[t][i] = wire[t][j]
    <3> TAKE t \in Subs
    <3>1. CASE t = s
      <4>1. wire'[t] = Tail(wire[s])
        BY <1>12, <3>1 DEF BrokerReads, Typed
      <4> QED BY <2>1, <3>1, <4>1, TailElements
    <3>2. CASE t # s
      BY <1>12, <3>2 DEF BrokerReads, Typed
    <3> QED BY <3>1, <3>2
  <2>5. UNCHANGED <<mode, pc, queues, exchanges>>
    BY <1>12 DEF BrokerReads, clientVars
  <2>6. \A t \in Subs : (\E i \in DOMAIN wire'[t] : wire'[t][i].type = "dead")
                            => <<"dla", "fanout">> \in exchanges
    BY <2>4 DEF QueuesKnown
  <2> QED BY <1>9, <2>1, <2>3, <2>5, <2>6
<1>13. CASE BrokerRoutes
  BY <1>9, <1>13 DEF BrokerRoutes, QueuesKnown
<1>14. CASE RetryElapses
  BY <1>9, <1>14 DEF RetryElapses, clientVars, QueuesKnown
<1>15. CASE TtlElapses
  <2>1. Head(main) \in Msgs /\ "bound" \in queues
    BY <1>15 DEF TtlElapses, Typed, QueuesKnown
  <2>2. Dlx = "expiry"
    BY <1>15, RabbitAssumption DEF TtlElapses, Typed, Dlx
  <2>3. UNCHANGED parked
    BY <1>15, <2>2 DEF TtlElapses, DeadLetter
  <2> QED BY <1>9, <1>15, <2>1, <2>3 DEF TtlElapses, clientVars, QueuesKnown
<1>16. CASE Crash
  <2>1. \A s \in Subs : pc'[s] \notin {"ttl", "queue", "bind", "consume", "consuming"} /\ wire'[s] = <<>>
    <3> TAKE s \in Subs
    <3>1. s \notin Msgs
      BY RabbitAssumption
    <3> QED BY <1>16, <3>1 DEF Crash
  <2> QED BY <1>16, <2>1 DEF Crash, queueVars, QueuesKnown, Retry
<1>17. CASE UNCHANGED vars
  BY <1>17 DEF vars, clientVars, queueVars, QueuesKnown, Retry
<1> QED BY <1>1, <1>3, <1>4, <1>5, <1>6, <1>8, <1>10, <1>11, <1>12, <1>13, <1>14, <1>15, <1>16, <1>17
        DEF Next

(* However the calls interleave, nothing is written for an exchange or     *)
(* parked in a queue the broker does not know: see PublishesToDeclared.    *)
THEOREM TopologySafety == Spec => []PublishesToDeclared
<1>1. Init => ExchangesKnown /\ QueuesKnown
  BY DEF Init, ExchangesKnown, QueuesKnown
<1>2. ExchangesKnown /\ QueuesKnown => PublishesToDeclared
  BY DEF ExchangesKnown, QueuesKnown, PublishesToDeclared, Exchange
<1> QED BY <1>1, <1>2, ExchangesStep, QueuesStep, TypedInvariant, PTL DEF Spec

-----------------------------------------------------------------------------
(* Settlement                                                              *)

(* What the broker has still to read from a channel settles the message    *)
(* the channel has not settled: one frame, or the dead-letter copy and its *)
(* ack.                                                                    *)
Channels ==
  \A s \in Subs :
    /\ Len(wire[s]) <= 2
    /\ \A i \in DOMAIN wire[s] : wire[s][i].msg = unacked[s]
    /\ Len(wire[s]) = 1 => wire[s][1].type # "dead"
    /\ Len(wire[s]) = 2 => wire[s][1].type = "dead" /\ wire[s][2].type = "giveup"
    /\ wire[s] # <<>> => pc[s] \in {"consuming", "closing"}
    /\ unacked[s] # None => pc[s] \in {"consuming", "closing", "dead"}

(* A message that can still be settled on its channel.                     *)
Open(r) == ~r.settled /\ pc[r.sub] = "consuming"

(* Only the message a channel has not settled can be settled on it, and    *)
(* nothing is written for it before.                                       *)
Handed ==
  \A r \in incoming :
    /\ pc[r.sub] \in {"consuming", "closing", "closed"}
    /\ Open(r) => unacked[r.sub] = r.msg /\ wire[r.sub] = <<>>
    /\ \A q \in incoming : Open(r) /\ Open(q) /\ q.sub = r.sub => q = r

(* The frames of a settlement: one, or the copy and its ack.               *)
LEMMA SettlementFacts ==
  ASSUME NEW r, NEW how
  PROVE  LET w == Settlement(r, how) IN
         /\ Len(w) \in {1, 2} /\ DOMAIN w = 1 .. Len(w)
         /\ \A i \in DOMAIN w : w[i].msg = r.msg
         /\ Len(w) = 1 => w[1].type \in {"ack", "reject", "requeue"}
         /\ Len(w) = 2 => w[1].type = "dead" /\ w[2].type = "giveup"
         /\ Retry /\ Len(w) = 1 => w[1].type # "requeue" /\ (w[1].type = "reject" => ~Spent(r))
<1> DEFINE w == Settlement(r, how)
<1>1. CASE w = <<Frame("ack", r.msg)>>
  BY <1>1 DEF Frame
<1>2. CASE Retry /\ w = GiveUp(r.msg)
  BY <1>2 DEF GiveUp, Frame
<1>3. CASE w = <<Frame("reject", r.msg)>> /\ (Retry => ~Spent(r))
  BY <1>3 DEF Frame
<1>4. CASE w = <<Frame("requeue", r.msg)>> /\ ~Retry
  BY <1>4 DEF Frame
<1> QED BY <1>1, <1>2, <1>3, <1>4 DEF Settlement

(* Every step keeps the channels and what was handed out in order.         *)
LEMMA SettledStep ==
  Typed /\ Typed' /\ Channels /\ Handed /\ [Next]_vars => Channels' /\ Handed'
<1> SUFFICES ASSUME Typed, Typed', Channels, Handed, [Next]_vars PROVE Channels' /\ Handed'
  OBVIOUS
<1>a. \A r \in incoming : r.sub \in Subs /\ r.msg \in Msgs /\ r.msg # None
  BY RabbitAssumption DEF Typed, Incoming
<1>b. \A s \in Subs : s \notin Msgs
  BY RabbitAssumption
<1>1. ASSUME UNCHANGED <<wire, unacked, incoming>>,
             \A s \in Subs : \/ pc'[s] = pc[s]
                             \/ pc[s] \notin {"consuming", "closing", "closed", "dead"}
                             \/ pc[s] = "consuming" /\ pc'[s] = "closing"
      PROVE  Channels' /\ Handed'
  <2>1. Channels'
    BY <1>1 DEF Channels
  <2>2. \A r \in incoming : pc'[r.sub] \in {"consuming", "closing", "closed"}
    BY <1>1, <1>a DEF Handed
  <2>3. \A r \in incoming : Open(r)' => Open(r)
    BY <1>1, <1>a DEF Handed, Open
  <2> QED BY <1>1, <2>1, <2>2, <2>3 DEF Handed
<1>2. ASSUME NEW p \in Msgs \union Subs, NEW to, UNCHANGED pc \/ Goto(p, to), UNCHANGED <<wire, unacked, incoming>>,
             \/ p \in Msgs
             \/ pc[p] \notin {"consuming", "closing", "closed", "dead"}
             \/ pc[p] = "consuming" /\ to = "closing"
      PROVE  Channels' /\ Handed'
  <2>1. \A s \in Subs : pc'[s] = pc[s] \/ (s = p /\ pc'[s] = to)
    BY <1>2 DEF Goto, Typed
  <2> QED BY <1>1, <1>2, <1>b, <2>1
<1>3. ASSUME NEW m \in Msgs, PublishEnsure(m) \/ PublishWrite(m) PROVE Channels' /\ Handed'
  <2>1. UNCHANGED pc \/ \E to \in Awaits : Goto(m, to)
    BY <1>3 DEF PublishEnsure, PublishWrite, EnsureBusExchanges, Awaits
  <2> QED BY <1>2, <1>3, <2>1 DEF PublishEnsure, PublishWrite, queueVars
<1>4. ASSUME NEW s \in Subs, SubscribeEnsure(s) PROVE Channels' /\ Handed'
  <2>1. UNCHANGED pc \/ \E to \in Awaits : Goto(s, to)
    BY <1>4 DEF SubscribeEnsure, EnsureBusExchanges, Awaits
  <2>2. pc[s] \in {"idle", "channel", "ttl"}
    BY <1>4 DEF SubscribeEnsure
  <2> QED BY <1>2, <1>4, <2>1, <2>2 DEF SubscribeEnsure, queueVars
<1>5. ASSUME NEW s \in Subs, SubscribeSkip(s) \/ SubscribeDeclare(s) \/ Unsubscribe(s)
      PROVE  Channels' /\ Handed'
  <2>1. UNCHANGED <<wire, unacked, incoming>>
    BY <1>5 DEF SubscribeSkip, SubscribeDeclare, Unsubscribe, queueVars
  <2>2. \E to \in Awaits :
          /\ Goto(s, to)
          /\ \/ pc[s] \notin {"consuming", "closing", "closed", "dead"}
             \/ pc[s] = "consuming" /\ to = "closing"
    BY <1>5 DEF SubscribeSkip, SubscribeDeclare, Unsubscribe, Awaits
  <2> QED BY <1>2, <2>1, <2>2
<1>6. ASSUME NEW s \in Subs, Deliver(s) PROVE Channels' /\ Handed'
  <2> DEFINE m == Head(main)
             n == [msg |-> m, sub |-> s, count |-> deaths[m] + 1, settled |-> FALSE]
  <2>1. m \in Msgs /\ m # None
    BY <1>6, RabbitAssumption DEF Deliver, Typed
  <2>2. /\ UNCHANGED <<pc, wire>> /\ pc[s] = "consuming" /\ unacked[s] = None
        /\ unacked' = [unacked EXCEPT ![s] = m] /\ incoming' = incoming \union {n}
    BY <1>6 DEF Deliver
  <2>3. n.msg = m /\ n.sub = s
    OBVIOUS
  <2> HIDE DEF m, n
  <2>4. \A t \in Subs : unacked'[t] = IF t = s THEN m ELSE unacked[t]
    BY <2>2 DEF Typed
  <2>5. wire[s] = <<>>
    <3>1. SUFFICES ASSUME wire[s] # <<>> PROVE FALSE
      OBVIOUS
    <3>2. wire[s] \in Seq(Frames) /\ Head(wire[s]) \in Frames /\ Head(wire[s]) = wire[s][1] /\ 1 \in DOMAIN wire[s]
      BY <3>1, TailElements DEF Typed
    <3>3. wire[s][1].msg \in Msgs
      BY <3>2 DEF Frames
    <3> QED BY <2>2, <3>2, <3>3, RabbitAssumption DEF Channels
  <2>6. Channels'
    BY <2>2, <2>4, <2>5 DEF Channels
  <2>7. \A r \in incoming : r.sub = s => ~Open(r)
    BY <1>a, <2>2 DEF Handed
  <2>8. \A r \in incoming' : r \in incoming \/ r = n
    BY <2>2
  <2>9. \A r \in incoming : (Open(r)' <=> Open(r)) /\ (Open(r) => unacked'[r.sub] = unacked[r.sub])
    BY <1>a, <2>2, <2>4, <2>7 DEF Open
  <2>10. Handed'
    <3>1. ASSUME NEW r \in incoming'
          PROVE  /\ pc'[r.sub] \in {"consuming", "closing", "closed"}
                 /\ Open(r)' => unacked'[r.sub] = r.msg /\ wire'[r.sub] = <<>>
      <4>1. CASE r \in incoming
        BY <2>2, <2>9, <4>1 DEF Handed
      <4>2. CASE r = n
        BY <2>2, <2>3, <2>4, <2>5, <4>2
      <4> QED BY <2>8, <4>1, <4>2
    <3>2. ASSUME NEW r \in incoming', NEW q \in incoming', Open(r)', Open(q)', q.sub = r.sub
          PROVE  q = r
      <4>1. CASE r \in incoming /\ q \in incoming
        BY <2>9, <3>2, <4>1 DEF Handed
      <4>2. CASE r = n /\ q \in incoming
        BY <2>3, <2>7, <2>9, <3>2, <4>2
      <4>3. CASE r \in incoming /\ q = n
        BY <2>3, <2>7, <2>9, <3>2, <4>3
      <4> QED BY <2>8, <4>1, <4>2, <4>3
    <3> QED BY <3>1, <3>2 DEF Handed
  <2> QED BY <2>6, <2>10
<1>7. ASSUME NEW r \in incoming, NEW how \in Settlements, Settle(r, how) PROVE Channels' /\ Handed'
  <2> DEFINE n == [r EXCEPT !.settled = TRUE]
  <2>1. r.sub \in Subs /\ r \in Incoming
    BY <1>a DEF Typed
  <2>2. n.settled
    BY <2>1 DEF Incoming
  <2>2a. n.sub = r.sub
    BY <2>1 DEF Incoming
  <2>3. \A q \in incoming' : (q \in incoming /\ q # r) \/ q = n
    BY <1>7 DEF Settle
  <2> HIDE DEF n
  <2>4. /\ UNCHANGED <<pc, unacked>>
        /\ wire' = IF pc[r.sub] = "consuming"
                   THEN [wire EXCEPT ![r.sub] = @ \o Settlement(r, how)] ELSE wire
        /\ ~r.settled
    BY <1>7 DEF Settle, queueVars, Unsettled
  <2>5. \A t \in Subs : t # r.sub \/ pc[r.sub] # "consuming" => wire'[t] = wire[t]
    BY <2>1, <2>4 DEF Typed
  <2>6. ASSUME pc[r.sub] = "consuming"
        PROVE  wire'[r.sub] = Settlement(r, how) /\ unacked[r.sub] = r.msg
    <3>1. wire[r.sub] = <<>> /\ unacked[r.sub] = r.msg
      BY <2>4, <2>6 DEF Handed, Open
    <3>2. wire'[r.sub] = <<>> \o Settlement(r, how)
      BY <2>1, <2>4, <2>6, <3>1 DEF Typed
    <3>3. Settlement(r, how) \in Seq(Frames)
      BY <1>a, SettlementType
    <3> QED BY <3>1, <3>2, <3>3
  <2>7. ASSUME NEW t \in Subs
        PROVE  /\ Len(wire'[t]) <= 2
               /\ \A i \in DOMAIN wire'[t] : wire'[t][i].msg = unacked'[t]
               /\ Len(wire'[t]) = 1 => wire'[t][1].type # "dead"
               /\ Len(wire'[t]) = 2 => wire'[t][1].type = "dead" /\ wire'[t][2].type = "giveup"
               /\ wire'[t] # <<>> => pc'[t] \in {"consuming", "closing"}
               /\ unacked'[t] # None => pc'[t] \in {"consuming", "closing", "dead"}
    <3>1. CASE t = r.sub /\ pc[r.sub] = "consuming"
      BY <2>4, <2>6, <3>1, SettlementFacts DEF Channels
    <3>2. CASE t # r.sub \/ pc[r.sub] # "consuming"
      BY <2>4, <2>5, <3>2 DEF Channels
    <3> QED BY <3>1, <3>2
  <2>8. Channels'
    BY <2>7 DEF Channels
  <2>9. \A q \in incoming' : Open(q)' => q \in incoming /\ q # r /\ Open(q)
    BY <2>2, <2>3, <2>4 DEF Open
  <2>10. \A q \in incoming : Open(q) /\ q # r => q.sub # r.sub \/ pc[r.sub] # "consuming"
    BY <2>4 DEF Handed, Open
  <2>11. \A q \in incoming' : pc'[q.sub] \in {"consuming", "closing", "closed"}
    BY <2>2a, <2>3, <2>4 DEF Handed
  <2>12. \A q \in incoming' : Open(q)' => unacked'[q.sub] = q.msg /\ wire'[q.sub] = <<>>
    BY <1>a, <2>4, <2>5, <2>9, <2>10 DEF Handed
  <2> QED BY <2>8, <2>9, <2>11, <2>12 DEF Handed
<1>8. ASSUME NEW s \in Subs, BrokerReads(s) PROVE Channels' /\ Handed'
  <2>1. /\ wire[s] # <<>> /\ UNCHANGED <<pc, incoming>>
        /\ wire' = [wire EXCEPT ![s] = Tail(@)]
        /\ unacked' = IF Head(wire[s]).type = "dead" THEN unacked ELSE [unacked EXCEPT ![s] = None]
    BY <1>8 DEF BrokerReads, clientVars
  <2>2. /\ wire[s] \in Seq(Frames) /\ Len(wire[s]) \in {1, 2}
        /\ Head(wire[s]) = wire[s][1] /\ Len(Tail(wire[s])) = Len(wire[s]) - 1
        /\ Tail(wire[s]) \in Seq(Frames)
        /\ \A i \in DOMAIN Tail(wire[s]) : i + 1 \in DOMAIN wire[s] /\ Tail(wire[s])[i] = wire[s][i + 1]
    <3>1. wire[s] \in Seq(Frames) /\ Len(wire[s]) <= 2
      BY DEF Typed, Channels
    <3>2. Len(wire[s]) \in {1, 2}
      <4>1. Len(wire[s]) \in Nat /\ Len(wire[s]) # 0
        BY <2>1, <3>1
      <4>2. \A n \in Nat : n # 0 /\ n <= 2 => n \in {1, 2}
        OBVIOUS
      <4> QED BY <3>1, <4>1, <4>2, Zenon
    <3>3. /\ Head(wire[s]) = wire[s][1] /\ Len(Tail(wire[s])) = Len(wire[s]) - 1
          /\ Tail(wire[s]) \in Seq(Frames)
          /\ \A i \in DOMAIN Tail(wire[s]) : i + 1 \in DOMAIN wire[s] /\ Tail(wire[s])[i] = wire[s][i + 1]
      BY <2>1, <3>1, TailElements
    <3> QED BY <3>1, <3>2, <3>3
  <2>3. \A t \in Subs : /\ wire'[t] = IF t = s THEN Tail(wire[s]) ELSE wire[t]
                        /\ t # s => unacked'[t] = unacked[t]
    BY <2>1 DEF Typed
  <2>4. CASE Len(wire[s]) = 1
    <3>1. wire'[s] = <<>> /\ unacked'[s] = None
      <4>1. Tail(wire[s]) = <<>>
        BY <2>2, <2>4
      <4>2. Head(wire[s]).type # "dead"
        BY <2>2, <2>4 DEF Channels
      <4> QED BY <2>1, <2>3, <4>1, <4>2 DEF Typed
    <3>2. Channels'
      BY <2>1, <2>3, <3>1 DEF Channels
    <3>3. \A r \in incoming : Open(r) => r.sub # s
      BY <2>1 DEF Handed
    <3>4. \A r \in incoming : Open(r)' <=> Open(r)
      BY <2>1 DEF Open
    <3> QED BY <1>a, <2>1, <2>3, <3>2, <3>3, <3>4 DEF Handed
  <2>5. CASE Len(wire[s]) = 2
    <3>1. /\ unacked' = unacked
          /\ Len(wire'[s]) = 1 /\ wire'[s][1] = wire[s][2] /\ DOMAIN wire'[s] = 1 .. 1
          /\ wire[s][2].type = "giveup" /\ 2 \in DOMAIN wire[s]
      <4>1. Head(wire[s]).type = "dead" /\ wire[s][2].type = "giveup"
        BY <2>2, <2>5 DEF Channels
      <4>2. Len(Tail(wire[s])) = 1 /\ DOMAIN Tail(wire[s]) = 1 .. 1
        <5>1. Len(Tail(wire[s])) = 1
          BY <2>2, <2>5
        <5>2. DOMAIN Tail(wire[s]) = 1 .. Len(Tail(wire[s]))
          BY <2>2
        <5> QED BY <5>1, <5>2
      <4>3. 1 + 1 \in DOMAIN wire[s] /\ Tail(wire[s])[1] = wire[s][1 + 1]
        BY <2>2, <4>2
      <4>4. 1 + 1 = 2 /\ wire'[s] = Tail(wire[s]) /\ unacked' = unacked
        BY <2>1, <2>3, <4>1
      <4> QED BY <4>1, <4>2, <4>3, <4>4
    <3>2. Channels'
      BY <2>1, <2>3, <3>1 DEF Channels
    <3>3. \A r \in incoming : Open(r) => r.sub # s
      BY <2>1 DEF Handed
    <3>4. \A r \in incoming : Open(r)' <=> Open(r)
      BY <2>1 DEF Open
    <3> QED BY <1>a, <2>1, <2>3, <3>1, <3>2, <3>3, <3>4 DEF Handed
  <2> QED BY <2>2, <2>4, <2>5
<1>9. ASSUME NEW s \in Subs, CloseChannel(s) PROVE Channels' /\ Handed'
  <2>1. /\ pc[s] \in {"closing", "dead"} /\ wire[s] = <<>> /\ UNCHANGED <<wire, incoming>>
        /\ Goto(s, IF pc[s] = "dead" THEN "idle" ELSE "closed")
        /\ unacked' = [unacked EXCEPT ![s] = None]
    BY <1>9 DEF CloseChannel
  <2>2. \A t \in Subs : /\ t # s => unacked'[t] = unacked[t] /\ pc'[t] = pc[t]
                        /\ t = s => unacked'[t] = None /\ pc'[t] = IF pc[s] = "dead" THEN "idle" ELSE "closed"
    BY <2>1 DEF Goto, Typed
  <2>3. Channels'
    BY <2>1, <2>2 DEF Channels
  <2>4. \A r \in incoming : Open(r)' => Open(r) /\ r.sub # s
    BY <1>a, <2>2 DEF Open
  <2>5. \A r \in incoming : pc'[r.sub] \in {"consuming", "closing", "closed"}
    BY <1>a, <2>1, <2>2 DEF Handed
  <2> QED BY <1>a, <2>1, <2>2, <2>3, <2>4, <2>5 DEF Handed
<1>10. CASE Crash
  <2>1. incoming' = {} /\ unacked' = unacked /\ \A s \in Subs : wire'[s] = <<>>
    BY <1>10 DEF Crash, queueVars
  <2>2. \A s \in Subs : unacked[s] # None => pc'[s] = "dead"
    BY <1>10, <1>b DEF Crash, Channels
  <2>3. Channels'
    BY <2>1, <2>2 DEF Channels
  <2> QED BY <2>1, <2>3 DEF Handed
<1>11. ASSUME BrokerRoutes \/ RetryElapses \/ TtlElapses \/ UNCHANGED vars PROVE Channels' /\ Handed'
  BY <1>1, <1>11 DEF BrokerRoutes, RetryElapses, TtlElapses, vars, clientVars, queueVars
<1> QED BY <1>3, <1>4, <1>5, <1>6, <1>7, <1>8, <1>9, <1>10, <1>11 DEF Next

(* Channels and Handed hold throughout.                                    *)
LEMMA SettledInvariant == Spec => [](Channels /\ Handed)
<1>1. Init => Channels /\ Handed
  BY DEF Init, Channels, Handed
<1> QED BY <1>1, SettledStep, TypedInvariant, PTL DEF Spec

(* Whatever a handler settles twice, late or after its channel is closed,  *)
(* the broker reads one settlement per delivery: see SettledOnce.          *)
THEOREM SettlementSafety == Spec => []SettledOnce
<1>1. Typed /\ Channels => SettledOnce
  <2> SUFFICES ASSUME Typed, Channels, NEW s \in Subs, NEW i \in DOMAIN wire[s], NEW j \in DOMAIN wire[s],
                      wire[s][i].type # "dead", wire[s][j].type # "dead"
               PROVE  i = j
    BY DEF SettledOnce, Channels
  <2>1. wire[s] \in Seq(Frames) /\ Len(wire[s]) <= 2
    BY DEF Typed, Channels
  <2>2. DOMAIN wire[s] = 1 .. Len(wire[s]) /\ Len(wire[s]) \in Nat
    BY <2>1
  <2>3. i \in 1 .. 2 /\ j \in 1 .. 2 /\ (i = 2 \/ j = 2 => Len(wire[s]) = 2)
    <3>1. \A n \in Nat : n <= 2 => \A k \in 1 .. n : k \in 1 .. 2 /\ (k = 2 => n = 2)
      OBVIOUS
    <3> QED BY <2>1, <2>2, <3>1, Zenon
  <2> QED BY <2>2, <2>3 DEF Channels
<1> QED BY <1>1, SettledInvariant, TypedInvariant, PTL

-----------------------------------------------------------------------------
(* Where a message is                                                      *)

(* A message is published once and is in at most one place of the broker.  *)
Placed ==
  /\ IsInjective(pubWire) /\ IsInjective(main) /\ IsInjective(parked)
  /\ Range(main) \intersect Range(parked) = {}
  /\ Range(main) \subseteq routed /\ Range(parked) \subseteq routed /\ left \subseteq routed
  /\ \A s \in Subs : unacked[s] # None => unacked[s] \in routed \ (Range(main) \union Range(parked))
  /\ \A s, t \in Subs : unacked[s] = unacked[t] /\ unacked[s] # None => s = t
  /\ \A m \in Range(pubWire) : pc[m] = "done" /\ m \notin routed
  /\ \A m \in routed : pc[m] = "done"

(* Nothing the queue has received is gone, and the ack of a dead-lettered  *)
(* original comes after its copy.                                          *)
Kept ==
  /\ \A m \in routed : Waiting(m) \/ Ended(m)
  /\ \A s \in Subs : Len(wire[s]) = 1 /\ wire[s][1].type = "giveup" => dlq[unacked[s]] > 0

(* A message that is queued, or was never.                                 *)
Undelivered(m) == m \in Range(main) \/ m \in Range(parked) \/ m \notin routed

(* The channel may be between a dead-letter copy and the ack.              *)
GivingUp(s) == pc[s] = "dead" \/ (Len(wire[s]) = 1 /\ wire[s][1].type = "giveup")

(* A message that is still to end has no dead-letter copy that a lost      *)
(* channel does not account for.                                           *)
Counted ==
  \A m \in Msgs :
    /\ dlq[m] <= 1 + returned[m]
    /\ Undelivered(m) => dlq[m] <= returned[m]
    /\ \A s \in Subs : unacked[s] = m /\ ~GivingUp(s) => dlq[m] <= returned[m]
    /\ m \in left => ~Waiting(m) /\ (returned[m] = 0 => dlq[m] = 0)

(* The most deaths of a message: one less than the deliveries it may have. *)
LastDeath == IF MaxDeliveries = 0 THEN 0 ELSE MaxDeliveries - 1

(* Every delivery but the last ended in the retry queue or with the        *)
(* channel, and only a message that is not spent is rejected.              *)
Budget ==
  Retry =>
    /\ \A m \in Msgs :
         /\ deaths[m] <= LastDeath
         /\ delivered[m] <= deaths[m] + returned[m] + 1
         /\ Undelivered(m) => delivered[m] <= deaths[m] + returned[m]
    /\ \A s \in Subs : \A i \in DOMAIN wire[s] :
         /\ wire[s][i].type # "requeue"
         /\ wire[s][i].type = "reject" => deaths[unacked[s]] + 1 < MaxDeliveries
    /\ \A r \in incoming : Open(r) => r.count = deaths[r.msg] + 1

Ends == {"main", "parked", "dlq", "expired", "left"}

(* Message m, which was in no queue, is put in one or comes to an end.     *)
Lands(m, d) ==
  /\ IsInjective(main') /\ IsInjective(parked')
  /\ Range(main') = IF d = "main" THEN Range(main) \union {m} ELSE Range(main)
  /\ Range(parked') = IF d = "parked" THEN Range(parked) \union {m} ELSE Range(parked)
  /\ left' = IF d = "left" THEN left \union {m} ELSE left
  /\ expired' = IF d = "expired" THEN expired \union {m} ELSE expired
  /\ \A n \in Msgs : dlq'[n] = IF n = m /\ d = "dlq" THEN dlq[n] + 1 ELSE dlq[n]
  /\ d = "parked" => Retry
  /\ Retry => \A n \in Msgs : deaths'[n] = IF n = m /\ d = "parked" THEN deaths[n] + 1 ELSE deaths[n]

(* A dead-lettered message lands where the queue's arguments say.          *)
LEMMA DeadLetterLands ==
  ASSUME Typed, NEW m \in Msgs, IsInjective(main), IsInjective(parked), m \notin Range(parked),
         UNCHANGED main, DeadLetter(m)
  PROVE  \E d \in Ends \ {"main"} : Lands(m, d)
<1>0. Dlx = "retry" => Retry
  BY DEF Dlx
<1>1. CASE /\ Dlx = "retry" /\ parked' = Append(parked, m)
           /\ deaths' = [deaths EXCEPT ![m] = @ + 1] /\ UNCHANGED <<dlq, expired, left>>
  <2>1. IsInjective(parked') /\ Range(parked') = Range(parked) \union {m}
    BY <1>1, AppendRange DEF Typed
  <2>2. \A n \in Msgs : deaths'[n] = IF n = m THEN deaths[n] + 1 ELSE deaths[n]
    BY <1>1 DEF Typed
  <2>3. Lands(m, "parked")
    BY <1>0, <1>1, <2>1, <2>2 DEF Lands
  <2> QED BY <2>3 DEF Ends
<1>2. CASE dlq' = [dlq EXCEPT ![m] = @ + 1] /\ UNCHANGED <<parked, deaths, expired, left>>
  <2>1. \A n \in Msgs : dlq'[n] = IF n = m THEN dlq[n] + 1 ELSE dlq[n]
    BY <1>2 DEF Typed
  <2>2. Lands(m, "dlq")
    BY <1>2, <2>1 DEF Lands
  <2> QED BY <2>2 DEF Ends
<1>3. CASE expired' = expired \union {m} /\ UNCHANGED <<parked, deaths, dlq, left>>
  <2>1. Lands(m, "expired")
    BY <1>3 DEF Lands
  <2> QED BY <2>1 DEF Ends
<1>4. CASE left' = left \union {m} /\ UNCHANGED <<parked, deaths, dlq, expired>>
  <2>1. Lands(m, "left")
    BY <1>4 DEF Lands
  <2> QED BY <2>1 DEF Ends
<1> QED BY <1>1, <1>2, <1>3, <1>4 DEF DeadLetter

(* A message given back is queued again unless the quorum queue is through *)
(* with it; it is never parked.                                            *)
LEMMA PutBackLands ==
  ASSUME Typed, NEW m \in Msgs, IsInjective(main), IsInjective(parked),
         m \notin Range(main), m \notin Range(parked), PutBack(m)
  PROVE  \E d \in Ends \ {"parked"} : Lands(m, d)
<1>1. CASE Quorum /\ DeadLetter(m) /\ UNCHANGED main
  <2>1. ~Retry
    BY <1>1 DEF Quorum, Retry
  <2>2. PICK d \in Ends \ {"main"} : Lands(m, d)
    BY <1>1, DeadLetterLands
  <2>3. d # "parked"
    BY <2>1, <2>2 DEF Lands
  <2> QED BY <2>2, <2>3
<1>2. CASE /\ main' = <<m>> \o main
           /\ deaths' = IF Quorum THEN [deaths EXCEPT ![m] = @ + 1] ELSE deaths
           /\ UNCHANGED <<parked, dlq, expired, left>>
  <2>1. IsInjective(main') /\ Range(main') = Range(main) \union {m}
    BY <1>2, PrependRange DEF Typed
  <2>2. Retry => ~Quorum
    BY DEF Quorum, Retry
  <2>3. Lands(m, "main")
    BY <1>2, <2>1, <2>2 DEF Lands
  <2> QED BY <2>3 DEF Ends
<1> QED BY <1>1, <1>2 DEF PutBack

(* A delivery takes the message from the queue to the channel.             *)
LEMMA DeliverFacts ==
  ASSUME Typed, Placed, NEW s \in Subs, Deliver(s)
  PROVE  \E m \in Msgs :
           /\ m \in Range(main) /\ IsInjective(main') /\ Range(main') = Range(main) \ {m}
           /\ unacked[s] = None /\ m # None
           /\ \A t \in Subs : unacked'[t] = IF t = s THEN m ELSE unacked[t]
           /\ \A n \in Msgs : delivered'[n] = IF n = m THEN delivered[n] + 1 ELSE delivered[n]
           /\ incoming' = incoming \union
                {[msg |-> m, sub |-> s, count |-> deaths[m] + 1, settled |-> FALSE]}
           /\ UNCHANGED <<mode, pc, pubWire, wire, parked, deaths, dlq, expired, routed, left, returned>>
<1> DEFINE m == Head(main)
<1>1. main \in Seq(Msgs) /\ main # <<>> /\ IsInjective(main)
  BY DEF Deliver, Typed, Placed
<1>2. m \in Msgs /\ m \in Range(main) /\ IsInjective(Tail(main)) /\ Range(Tail(main)) = Range(main) \ {m}
  BY <1>1, TailRange, TailElements
<1>3. /\ main' = Tail(main) /\ unacked[s] = None
      /\ unacked' = [unacked EXCEPT ![s] = m] /\ delivered' = [delivered EXCEPT ![m] = @ + 1]
      /\ incoming' = incoming \union
           {[msg |-> m, sub |-> s, count |-> deaths[m] + 1, settled |-> FALSE]}
      /\ UNCHANGED <<mode, pc, pubWire, wire, parked, deaths, dlq, expired, routed, left, returned>>
  BY DEF Deliver
<1> HIDE DEF m
<1>4. m # None
  BY <1>2, RabbitAssumption
<1>5. /\ \A t \in Subs : unacked'[t] = IF t = s THEN m ELSE unacked[t]
      /\ \A n \in Msgs : delivered'[n] = IF n = m THEN delivered[n] + 1 ELSE delivered[n]
  BY <1>2, <1>3 DEF Typed
<1> QED BY <1>2, <1>3, <1>4, <1>5

(* The broker reads the dead-letter copy, or the settlement, which takes   *)
(* the message off the channel.                                            *)
LEMMA ReadFacts ==
  ASSUME Typed, Channels, Placed, NEW s \in Subs, BrokerReads(s)
  PROVE  /\ unacked[s] \in Msgs
         /\ UNCHANGED <<mode, pc, incoming, pubWire, routed, delivered, returned>>
         /\ \A t \in Subs \ {s} : wire'[t] = wire[t] /\ unacked'[t] = unacked[t]
         /\ \/ /\ Len(wire[s]) = 2 /\ wire[s][1].type = "dead"
               /\ Len(wire'[s]) = 1 /\ DOMAIN wire'[s] = 1 .. 1 /\ wire'[s][1].type = "giveup"
               /\ unacked' = unacked
               /\ \A n \in Msgs : dlq'[n] = IF n = unacked[s] THEN dlq[n] + 1 ELSE dlq[n]
               /\ UNCHANGED <<main, parked, deaths, expired, left>>
            \/ /\ Len(wire[s]) = 1 /\ wire'[s] = <<>> /\ unacked'[s] = None
               /\ wire[s][1].type = "giveup"
               /\ UNCHANGED <<main, parked, deaths, dlq, expired, left>>
            \/ /\ Len(wire[s]) = 1 /\ wire'[s] = <<>> /\ unacked'[s] = None
               /\ wire[s][1].type # "giveup"
               /\ \E d \in Ends :
                    /\ Lands(unacked[s], d)
                    /\ d = "parked" => wire[s][1].type = "reject"
                    /\ d = "main" => wire[s][1].type = "requeue"
<1> DEFINE f == Head(wire[s])
           m == unacked[s]
<1>1. wire[s] \in Seq(Frames) /\ wire[s] # <<>>
  BY DEF BrokerReads, Typed
<1>2. /\ f = wire[s][1] /\ f \in Frames /\ 1 \in DOMAIN wire[s]
      /\ Tail(wire[s]) \in Seq(Frames) /\ Len(Tail(wire[s])) = Len(wire[s]) - 1
      /\ \A i \in DOMAIN Tail(wire[s]) : i + 1 \in DOMAIN wire[s] /\ Tail(wire[s])[i] = wire[s][i + 1]
  BY <1>1, TailElements
<1>3. f.msg = m /\ f.msg \in Msgs
  BY <1>2 DEF Channels, Frames
<1>4. m \in Msgs /\ m # None
  BY <1>3, RabbitAssumption
<1>5. UNCHANGED <<mode, pc, incoming, pubWire, routed, delivered, returned>>
  BY DEF BrokerReads, clientVars
<1>6. \A t \in Subs \ {s} : wire'[t] = wire[t] /\ unacked'[t] = unacked[t]
  BY DEF BrokerReads, Typed
<1>7. wire'[s] = Tail(wire[s]) /\ unacked' = IF f.type = "dead" THEN unacked ELSE [unacked EXCEPT ![s] = None]
  BY DEF BrokerReads, Typed
<1>8. IsInjective(main) /\ IsInjective(parked) /\ m \notin Range(main) /\ m \notin Range(parked)
  BY <1>4 DEF Placed
<1>9. Len(wire[s]) = 1 \/ Len(wire[s]) = 2
  <2>1. Len(wire[s]) \in Nat /\ Len(wire[s]) # 0
    BY <1>1
  <2>2. Len(wire[s]) <= 2
    BY DEF Channels
  <2>3. \A n \in Nat : n # 0 /\ n <= 2 => n = 1 \/ n = 2
    OBVIOUS
  <2> QED BY <2>1, <2>2, <2>3, Zenon
<1>10. CASE Len(wire[s]) = 2
  <2>1. f.type = "dead" /\ wire[s][2].type = "giveup"
    BY <1>2, <1>10 DEF Channels
  <2>2. dlq' = [dlq EXCEPT ![m] = @ + 1] /\ UNCHANGED <<main, parked, deaths, expired, left>>
    BY <1>3, <2>1 DEF BrokerReads
  <2>3. \A n \in Msgs : dlq'[n] = IF n = m THEN dlq[n] + 1 ELSE dlq[n]
    BY <1>4, <2>2 DEF Typed
  <2>4. Len(wire'[s]) = 1
    BY <1>2, <1>7, <1>10
  <2>5. DOMAIN wire'[s] = 1 .. Len(wire'[s])
    BY <1>2, <1>7
  <2>6. 1 + 1 \in DOMAIN wire[s] /\ wire'[s][1] = wire[s][1 + 1] /\ 1 + 1 = 2
    BY <1>2, <1>7, <2>4, <2>5
  <2> QED BY <1>2, <1>4, <1>5, <1>6, <1>7, <1>10, <2>1, <2>2, <2>3, <2>4, <2>5, <2>6
<1>11. CASE Len(wire[s]) = 1
  <2>1. f.type # "dead"
    BY <1>2, <1>11 DEF Channels
  <2>2. wire'[s] = <<>>
    BY <1>2, <1>7, <1>11
  <2>3. unacked'[s] = None
    BY <1>7, <2>1 DEF Typed
  <2>4. CASE f.type = "giveup"
    <3>1. UNCHANGED <<main, parked, deaths, dlq, expired, left>>
      BY <2>4 DEF BrokerReads
    <3> QED BY <1>2, <1>4, <1>5, <1>6, <1>11, <2>2, <2>3, <2>4, <3>1
  <2>5. ASSUME NEW d \in Ends, Lands(m, d), f.type # "giveup",
               d = "parked" => f.type = "reject", d = "main" => f.type = "requeue"
        PROVE  \E e \in Ends : /\ Lands(unacked[s], e)
                               /\ e = "parked" => wire[s][1].type = "reject"
                               /\ e = "main" => wire[s][1].type = "requeue"
    BY <1>2, <2>5
  <2>6. CASE f.type = "ack"
    <3>1. left' = left \union {m} /\ UNCHANGED <<main, parked, deaths, dlq, expired>>
      BY <1>3, <2>6 DEF BrokerReads
    <3>2. Lands(m, "left")
      BY <1>8, <3>1 DEF Lands
    <3> QED BY <1>2, <1>4, <1>5, <1>6, <1>11, <2>2, <2>3, <2>5, <2>6, <3>2 DEF Ends
  <2>7. CASE f.type = "reject"
    <3>1. DeadLetter(m) /\ UNCHANGED main
      BY <1>3, <2>7 DEF BrokerReads
    <3>2. PICK d \in Ends \ {"main"} : Lands(m, d)
      BY <1>4, <1>8, <3>1, DeadLetterLands
    <3> QED BY <1>2, <1>4, <1>5, <1>6, <1>11, <2>2, <2>3, <2>5, <2>7, <3>2
  <2>8. CASE f.type = "requeue"
    <3>1. PutBack(m)
      BY <1>3, <2>8 DEF BrokerReads
    <3>2. PICK d \in Ends \ {"parked"} : Lands(m, d)
      BY <1>4, <1>8, <3>1, PutBackLands
    <3> QED BY <1>2, <1>4, <1>5, <1>6, <1>11, <2>2, <2>3, <2>5, <2>8, <3>2
  <2>9. f.type \in {"ack", "giveup", "dead", "reject", "requeue"}
    BY <1>2 DEF Frames
  <2> QED BY <2>1, <2>4, <2>6, <2>7, <2>8, <2>9
<1> QED BY <1>9, <1>10, <1>11

(* A channel that is gone gives its message back.                          *)
LEMMA CloseFacts ==
  ASSUME Typed, Placed, NEW s \in Subs, CloseChannel(s)
  PROVE  /\ pc[s] \in {"closing", "dead"} /\ wire[s] = <<>>
         /\ UNCHANGED <<mode, incoming, pubWire, wire, routed, delivered>>
         /\ unacked'[s] = None /\ pc'[s] \in {"idle", "closed"}
         /\ \A t \in Subs \ {s} : unacked'[t] = unacked[t]
         /\ \A p \in (Msgs \union Subs) \ {s} : pc'[p] = pc[p]
         /\ \/ unacked[s] = None /\ UNCHANGED <<main, parked, deaths, dlq, expired, left, returned>>
            \/ /\ unacked[s] \in Msgs
               /\ \A n \in Msgs : returned'[n] = IF n = unacked[s] THEN returned[n] + 1 ELSE returned[n]
               /\ \E d \in Ends \ {"parked"} : Lands(unacked[s], d)
<1>1. /\ pc[s] \in {"closing", "dead"} /\ wire[s] = <<>>
      /\ UNCHANGED <<mode, incoming, pubWire, wire, routed, delivered>>
      /\ pc' = [pc EXCEPT ![s] = IF pc[s] = "dead" THEN "idle" ELSE "closed"]
      /\ unacked' = [unacked EXCEPT ![s] = None]
  BY DEF CloseChannel, Goto
<1>2. /\ unacked'[s] = None /\ pc'[s] \in {"idle", "closed"}
      /\ \A t \in Subs \ {s} : unacked'[t] = unacked[t]
      /\ \A p \in (Msgs \union Subs) \ {s} : pc'[p] = pc[p]
  BY <1>1 DEF Typed
<1>3. CASE unacked[s] = None
  BY <1>1, <1>2, <1>3 DEF CloseChannel
<1>4. CASE unacked[s] # None
  <2>1. /\ unacked[s] \in Msgs
        /\ PutBack(unacked[s]) /\ returned' = [returned EXCEPT ![unacked[s]] = @ + 1]
    BY <1>4 DEF CloseChannel, Typed
  <2>2. \A n \in Msgs : returned'[n] = IF n = unacked[s] THEN returned[n] + 1 ELSE returned[n]
    BY <2>1 DEF Typed
  <2>3. \E d \in Ends \ {"parked"} : Lands(unacked[s], d)
    BY <1>4, <2>1, PutBackLands DEF Placed
  <2> QED BY <1>1, <1>2, <2>1, <2>2, <2>3
<1> QED BY <1>3, <1>4

(* Only a queue that handles expiry has messages that expire.              *)
LEMMA TtlFacts ==
  ASSUME Typed, Placed, TtlElapses
  PROVE  \E m \in Msgs :
           /\ m \in Range(main) /\ IsInjective(main') /\ Range(main') = Range(main) \ {m}
           /\ expired' = expired \union {m}
           /\ UNCHANGED <<mode, pc, incoming, pubWire, wire, parked, unacked, deaths, dlq, left, routed,
                          delivered, returned>>
<1> DEFINE m == Head(main)
<1>1. main \in Seq(Msgs) /\ main # <<>> /\ IsInjective(main)
  BY DEF TtlElapses, Typed, Placed
<1>2. m \in Msgs /\ m \in Range(main) /\ IsInjective(Tail(main)) /\ Range(Tail(main)) = Range(main) \ {m}
  BY <1>1, TailRange, TailElements
<1>3. Dlx = "expiry"
  BY RabbitAssumption DEF TtlElapses, Typed, Dlx
<1>4. expired' = expired \union {m} /\ UNCHANGED <<parked, deaths, dlq, left>>
  BY <1>3 DEF TtlElapses, DeadLetter
<1>5. main' = Tail(main) /\ UNCHANGED <<mode, pc, incoming, pubWire, wire, unacked, routed, delivered, returned>>
  BY DEF TtlElapses, clientVars
<1> QED BY <1>2, <1>4, <1>5

(* The retry queue gives the message back to the main queue.               *)
LEMMA RetryFacts ==
  ASSUME Typed, Placed, RetryElapses
  PROVE  \E m \in Msgs :
           /\ m \in Range(parked) /\ IsInjective(parked') /\ Range(parked') = Range(parked) \ {m}
           /\ IsInjective(main') /\ Range(main') = Range(main) \union {m}
           /\ UNCHANGED <<mode, pc, incoming, pubWire, wire, unacked, deaths, dlq, expired, left, routed,
                          delivered, returned>>
<1> DEFINE m == Head(parked)
<1>1. parked \in Seq(Msgs) /\ parked # <<>> /\ IsInjective(parked) /\ main \in Seq(Msgs) /\ IsInjective(main)
  BY DEF RetryElapses, Typed, Placed
<1>2. m \in Msgs /\ m \in Range(parked) /\ IsInjective(Tail(parked)) /\ Range(Tail(parked)) = Range(parked) \ {m}
  BY <1>1, TailRange, TailElements
<1>3. m \notin Range(main)
  BY <1>2 DEF Placed
<1>4. IsInjective(Append(main, m)) /\ Range(Append(main, m)) = Range(main) \union {m}
  BY <1>1, <1>2, <1>3, AppendRange
<1>5. /\ parked' = Tail(parked) /\ main' = Append(main, m)
      /\ UNCHANGED <<mode, pc, incoming, pubWire, wire, unacked, deaths, dlq, expired, left, routed,
                     delivered, returned>>
  BY DEF RetryElapses, clientVars, historyVars
<1> QED BY <1>2, <1>4, <1>5

(* A published message reaches the queue, or nobody if there is none yet.  *)
LEMMA RouteFacts ==
  ASSUME Typed, Placed, BrokerRoutes
  PROVE  \E m \in Msgs :
           /\ m \in Range(pubWire) /\ IsInjective(pubWire') /\ Range(pubWire') = Range(pubWire) \ {m}
           /\ \/ UNCHANGED <<main, routed>>
              \/ IsInjective(main') /\ Range(main') = Range(main) \union {m} /\ routed' = routed \union {m}
           /\ UNCHANGED <<mode, pc, incoming, wire, parked, unacked, deaths, dlq, expired, left,
                          delivered, returned>>
<1> DEFINE m == Head(pubWire)
<1>1. pubWire \in Seq(Msgs) /\ pubWire # <<>> /\ IsInjective(pubWire) /\ main \in Seq(Msgs) /\ IsInjective(main)
  BY DEF BrokerRoutes, Typed, Placed
<1>2. m \in Msgs /\ m \in Range(pubWire) /\ IsInjective(Tail(pubWire)) /\ Range(Tail(pubWire)) = Range(pubWire) \ {m}
  BY <1>1, TailRange, TailElements
<1>3. m \notin Range(main)
  BY <1>2 DEF Placed
<1>4. IsInjective(Append(main, m)) /\ Range(Append(main, m)) = Range(main) \union {m}
  BY <1>1, <1>2, <1>3, AppendRange
<1>5. pubWire' = Tail(pubWire) /\ UNCHANGED <<mode, pc, incoming, wire, parked, unacked, deaths, dlq, expired, left,
                          delivered, returned>>
  BY DEF BrokerRoutes
<1>6. UNCHANGED <<main, routed>> \/ (main' = Append(main, m) /\ routed' = routed \union {m})
  BY DEF BrokerRoutes
<1> QED BY <1>2, <1>4, <1>5, <1>6

(* A step of a call that declares, or of an unsubscribe: it moves no       *)
(* message, and starts a channel only where none was.                      *)
Calling ==
  /\ UNCHANGED <<mode, incoming, pubWire, wire, main, parked, unacked, deaths, dlq, expired, routed, left,
                 delivered, returned>>
  /\ \A m \in Msgs : pc[m] = "done" => pc'[m] = "done"
  /\ \A s \in Subs : /\ pc'[s] = "dead" <=> pc[s] = "dead"
                     /\ pc'[s] = "consuming" => pc[s] \notin {"closing", "closed", "dead"}

(* What a step may be.                                                     *)
Stepping ==
  \/ \E s \in Subs : Deliver(s) \/ BrokerReads(s) \/ CloseChannel(s)
  \/ BrokerRoutes \/ RetryElapses \/ TtlElapses \/ Crash
  \/ \E r \in incoming, how \in Settlements : Settle(r, how)
  \/ \E m \in Msgs : PublishWrite(m)
  \/ Calling

(* Every step is one of those.                                             *)
LEMMA StepCases == Typed /\ [Next]_vars => Stepping
<1> SUFFICES ASSUME Typed, [Next]_vars PROVE Stepping
  OBVIOUS
<1>0. \A s \in Subs : s \notin Msgs
  BY RabbitAssumption
<1>1. ASSUME NEW p \in Msgs \union Subs, NEW from, NEW to, pc[p] = from, UNCHANGED pc \/ Goto(p, to),
             from \notin {"done", "closing", "closed", "dead"}, to # "dead",
             UNCHANGED <<mode, incoming, pubWire, wire, queueVars, historyVars>>
      PROVE  Calling
  <2>1. \A q \in Msgs \union Subs : pc'[q] = pc[q] \/ (q = p /\ pc'[q] = to)
    BY <1>1 DEF Goto, Typed
  <2>2. \A m \in Msgs : pc[m] = "done" => pc'[m] = "done"
    BY <1>1, <2>1
  <2>3. \A s \in Subs : /\ pc'[s] = "dead" <=> pc[s] = "dead"
                        /\ pc'[s] = "consuming" => pc[s] \notin {"closing", "closed", "dead"}
    BY <1>1, <2>1
  <2> QED BY <1>1, <2>2, <2>3 DEF Calling, queueVars, historyVars
<1>2. ASSUME NEW m \in Msgs, PublishEnsure(m) PROVE Calling
  <2>1. UNCHANGED pc \/ Goto(m, "declared")
    BY <1>2 DEF PublishEnsure, EnsureBusExchanges
  <2> QED BY <1>1, <1>2, <2>1 DEF PublishEnsure
<1>3. ASSUME NEW s \in Subs, SubscribeEnsure(s) PROVE Calling
  <2>1. pc[s] \in {"idle", "channel", "ttl"}
    BY <1>3 DEF SubscribeEnsure
  <2>2. UNCHANGED pc \/ \E to \in {"channel", "retryQueue", "queue"} : Goto(s, to)
    BY <1>3 DEF SubscribeEnsure, EnsureBusExchanges
  <2> QED BY <1>1, <1>3, <2>1, <2>2 DEF SubscribeEnsure
<1>4. ASSUME NEW s \in Subs, SubscribeSkip(s) \/ SubscribeDeclare(s) \/ Unsubscribe(s) PROVE Calling
  <2>1. pc[s] \in {"channel", "retryQueue", "ttl", "queue", "bind", "consume", "consuming"}
    BY <1>4 DEF SubscribeSkip, SubscribeDeclare, Unsubscribe
  <2>2. \E to \in {"ttl", "queue", "bind", "consume", "consuming", "closing"} : Goto(s, to)
    BY <1>4 DEF SubscribeSkip, SubscribeDeclare, Unsubscribe
  <2> QED BY <1>1, <1>4, <2>1, <2>2 DEF SubscribeSkip, SubscribeDeclare, Unsubscribe
<1>5. CASE UNCHANGED vars
  <2>1. UNCHANGED <<mode, pc, incoming, pubWire, wire, main, parked, unacked, deaths, dlq, expired, routed,
                    left, delivered, returned>>
    BY <1>5 DEF vars, clientVars, queueVars, historyVars
  <2>2. Calling
    BY <2>1 DEF Calling
  <2> QED BY <2>2 DEF Stepping
<1> QED BY <1>2, <1>3, <1>4, <1>5 DEF Next, Stepping

(* A crash leaves what the broker has; a channel with a message is dead.   *)
LEMMA CrashFacts ==
  ASSUME Typed, Channels, Crash
  PROVE  /\ UNCHANGED <<mode, main, parked, unacked, deaths, dlq, expired, routed, left, delivered, returned>>
         /\ incoming' = {} /\ pubWire' = <<>>
         /\ \A s \in Subs : wire'[s] = <<>>
         /\ \A m \in Msgs : pc[m] = "done" => pc'[m] = "done"
         /\ \A s \in Subs : unacked[s] # None => pc'[s] = "dead"
<1>1. /\ UNCHANGED <<mode, main, parked, unacked, deaths, dlq, expired, routed, left, delivered, returned>>
      /\ incoming' = {} /\ pubWire' = <<>> /\ \A s \in Subs : wire'[s] = <<>>
  BY DEF Crash, queueVars, historyVars
<1>2. \A m \in Msgs : pc[m] = "done" => pc'[m] = "done"
  BY DEF Crash
<1>3. ASSUME NEW s \in Subs, unacked[s] # None PROVE pc'[s] = "dead"
  <2>1. s \notin Msgs /\ pc[s] # "closed"
    BY <1>3, RabbitAssumption DEF Channels
  <2> QED BY <1>3, <2>1 DEF Crash
<1> QED BY <1>1, <1>2, <1>3

(* Every step keeps each message in one place.                             *)
LEMMA PlacedStep == Typed /\ Channels /\ Placed /\ [Next]_vars => Placed'
<1> SUFFICES ASSUME Typed, Channels, Placed, [Next]_vars PROVE Placed'
  OBVIOUS
<1>0. ASSUME UNCHANGED <<main, parked, unacked, routed, left>>, pubWire' = pubWire \/ pubWire' = <<>>,
             \A m \in Msgs : pc[m] = "done" => pc'[m] = "done"
      PROVE  Placed'
  <2>1. Range(pubWire') \subseteq Range(pubWire) /\ IsInjective(pubWire')
    BY <1>0 DEF Placed, Range, IsInjective
  <2>2. \A m \in Range(pubWire) \union routed : m \in Msgs
    BY DEF Typed, Range
  <2>3. \A m \in Range(pubWire') : pc'[m] = "done" /\ m \notin routed
    BY <1>0, <2>1, <2>2 DEF Placed
  <2>4. \A m \in routed : pc'[m] = "done"
    BY <1>0, <2>2 DEF Placed
  <2> QED BY <1>0, <2>1, <2>3, <2>4 DEF Placed
<1>1. ASSUME NEW s \in Subs, Deliver(s) PROVE Placed'
  <2>1. PICK m \in Msgs :
          /\ m \in Range(main) /\ IsInjective(main') /\ Range(main') = Range(main) \ {m}
          /\ unacked[s] = None /\ m # None
          /\ \A t \in Subs : unacked'[t] = IF t = s THEN m ELSE unacked[t]
          /\ UNCHANGED <<pc, pubWire, parked, routed, left>>
    BY <1>1, DeliverFacts
  <2>2. m \in routed /\ m \notin Range(parked) /\ \A t \in Subs : unacked[t] # m
    BY <2>1 DEF Placed
  <2>3. \A t \in Subs : unacked'[t] # None => unacked'[t] \in routed \ (Range(main') \union Range(parked))
    BY <2>1, <2>2 DEF Placed
  <2>4. \A t, u \in Subs : unacked'[t] = unacked'[u] /\ unacked'[t] # None => t = u
    BY <2>1, <2>2 DEF Placed
  <2> QED BY <2>1, <2>3, <2>4 DEF Placed
<1>2. ASSUME NEW s \in Subs, NEW d \in Ends, unacked[s] \in Msgs, Lands(unacked[s], d),
             \A t \in Subs : unacked'[t] = IF t = s THEN None ELSE unacked[t],
             UNCHANGED <<pubWire, routed>>,
             \A m \in Msgs : pc[m] = "done" => pc'[m] = "done"
      PROVE  Placed'
  <2> DEFINE m == unacked[s]
  <2>1. m # None /\ m \in routed /\ m \notin Range(main) /\ m \notin Range(parked)
    BY <1>2, RabbitAssumption DEF Placed
  <2>2. /\ IsInjective(main') /\ IsInjective(parked')
        /\ Range(main') \intersect Range(parked') = {}
        /\ Range(main') \subseteq routed /\ Range(parked') \subseteq routed /\ left' \subseteq routed
    BY <1>2, <2>1 DEF Placed, Lands
  <2>3. \A n \in (Range(main') \union Range(parked')) : n = m \/ n \in Range(main) \union Range(parked)
    BY <1>2 DEF Lands
  <2>4. \A t \in Subs : unacked'[t] # None => t # s /\ unacked'[t] = unacked[t] /\ unacked[t] # m
    BY <1>2, <2>1 DEF Placed
  <2>5. \A t \in Subs : unacked'[t] # None => unacked'[t] \in routed \ (Range(main') \union Range(parked'))
    BY <2>3, <2>4 DEF Placed
  <2>6. \A t, u \in Subs : unacked'[t] = unacked'[u] /\ unacked'[t] # None => t = u
    BY <2>4 DEF Placed
  <2>7. \A n \in Range(pubWire) \union routed : n \in Msgs
    BY DEF Typed, Range
  <2>8. /\ \A n \in Range(pubWire') : pc'[n] = "done" /\ n \notin routed'
        /\ \A n \in routed' : pc'[n] = "done"
    BY <1>2, <2>7 DEF Placed
  <2> QED BY <1>2, <2>2, <2>5, <2>6, <2>8 DEF Placed
<1>3. ASSUME NEW s \in Subs, unacked[s] \in Msgs, UNCHANGED <<pc, pubWire, routed, main, parked, left>>,
             \A t \in Subs : unacked'[t] = IF t = s THEN None ELSE unacked[t]
      PROVE  Placed'
  BY <1>3 DEF Placed
<1>4. ASSUME NEW s \in Subs, BrokerReads(s) PROVE Placed'
  <2>1. unacked[s] \in Msgs /\ UNCHANGED <<pc, pubWire, routed>>
    BY <1>4, ReadFacts
  <2>2. \A t \in Subs \ {s} : unacked'[t] = unacked[t]
    BY <1>4, ReadFacts
  <2>3. CASE unacked' = unacked /\ UNCHANGED <<main, parked, left>>
    BY <1>0, <2>1, <2>3
  <2>4. CASE unacked'[s] = None /\ UNCHANGED <<main, parked, left>>
    BY <1>3, <2>1, <2>2, <2>4
  <2>5. CASE unacked'[s] = None /\ \E d \in Ends : Lands(unacked[s], d)
    BY <1>2, <2>1, <2>2, <2>5
  <2> QED BY <1>4, <2>3, <2>4, <2>5, ReadFacts
<1>5. ASSUME NEW s \in Subs, CloseChannel(s) PROVE Placed'
  <2>1. /\ UNCHANGED <<pubWire, routed>> /\ unacked'[s] = None
        /\ \A t \in Subs \ {s} : unacked'[t] = unacked[t]
        /\ \A p \in (Msgs \union Subs) \ {s} : pc'[p] = pc[p]
    BY <1>5, CloseFacts
  <2>2. \A m \in Msgs : pc[m] = "done" => pc'[m] = "done"
    BY <2>1, RabbitAssumption
  <2>3. CASE unacked[s] = None /\ UNCHANGED <<main, parked, left>>
    <3>1. unacked' = unacked
      BY <1>5, <2>3 DEF CloseChannel, Typed
    <3> QED BY <1>0, <2>1, <2>2, <2>3, <3>1
  <2>4. CASE unacked[s] \in Msgs /\ \E d \in Ends : Lands(unacked[s], d)
    BY <1>2, <2>1, <2>2, <2>4
  <2> QED BY <1>5, <2>3, <2>4, CloseFacts
<1>6. CASE BrokerRoutes
  <2>1. PICK m \in Msgs :
          /\ m \in Range(pubWire) /\ IsInjective(pubWire') /\ Range(pubWire') = Range(pubWire) \ {m}
          /\ \/ UNCHANGED <<main, routed>>
             \/ IsInjective(main') /\ Range(main') = Range(main) \union {m} /\ routed' = routed \union {m}
          /\ UNCHANGED <<pc, parked, unacked, left>>
    BY <1>6, RouteFacts
  <2>2. m \notin routed /\ pc[m] = "done"
    BY <2>1 DEF Placed
  <2>3. CASE UNCHANGED <<main, routed>>
    BY <2>1, <2>3 DEF Placed
  <2>4. CASE IsInjective(main') /\ Range(main') = Range(main) \union {m} /\ routed' = routed \union {m}
    <3>1. \A t \in Subs : unacked'[t] # None => unacked'[t] \in routed' \ (Range(main') \union Range(parked'))
      BY <2>1, <2>2, <2>4 DEF Placed
    <3> QED BY <2>1, <2>2, <2>4, <3>1 DEF Placed
  <2> QED BY <2>1, <2>3, <2>4
<1>7. CASE RetryElapses
  <2>1. PICK m \in Msgs :
          /\ m \in Range(parked) /\ IsInjective(parked') /\ Range(parked') = Range(parked) \ {m}
          /\ IsInjective(main') /\ Range(main') = Range(main) \union {m}
          /\ UNCHANGED <<pc, pubWire, unacked, left, routed>>
    BY <1>7, RetryFacts
  <2>2. \A t \in Subs : unacked'[t] # None => unacked'[t] \in routed' \ (Range(main') \union Range(parked'))
    BY <2>1 DEF Placed
  <2> QED BY <2>1, <2>2 DEF Placed
<1>8. CASE TtlElapses
  <2>1. PICK m \in Msgs :
          /\ m \in Range(main) /\ IsInjective(main') /\ Range(main') = Range(main) \ {m}
          /\ UNCHANGED <<pc, pubWire, parked, unacked, left, routed>>
    BY <1>8, TtlFacts
  <2> QED BY <2>1 DEF Placed
<1>9. CASE Crash
  BY <1>0, <1>9, CrashFacts
<1>10. ASSUME NEW r \in incoming, NEW how \in Settlements, Settle(r, how) PROVE Placed'
  BY <1>0, <1>10 DEF Settle, queueVars, historyVars
<1>11. ASSUME NEW m \in Msgs, PublishWrite(m) PROVE Placed'
  <2>1. m \notin Range(pubWire) /\ m \notin routed /\ pubWire \in Seq(Msgs) /\ IsInjective(pubWire)
    BY <1>11 DEF PublishWrite, Placed, Typed
  <2>2. IsInjective(pubWire') /\ Range(pubWire') = Range(pubWire) \union {m}
    BY <1>11, <2>1, AppendRange DEF PublishWrite
  <2>3. \A n \in Msgs : pc'[n] = IF n = m THEN "done" ELSE pc[n]
    BY <1>11 DEF PublishWrite, Goto, Typed
  <2>4. UNCHANGED <<main, parked, unacked, routed, left>>
    BY <1>11 DEF PublishWrite, queueVars, historyVars
  <2>5. \A n \in Range(pubWire) \union routed : n \in Msgs
    BY DEF Typed, Range
  <2>6. /\ \A n \in Range(pubWire') : pc'[n] = "done" /\ n \notin routed'
        /\ \A n \in routed' : pc'[n] = "done"
    BY <2>1, <2>2, <2>3, <2>4, <2>5 DEF Placed
  <2> QED BY <2>2, <2>4, <2>6 DEF Placed
<1>12. CASE Calling
  BY <1>0, <1>12 DEF Calling
<1> QED BY <1>1, <1>4, <1>5, <1>6, <1>7, <1>8, <1>9, <1>10, <1>11, <1>12, StepCases DEF Stepping

(* Placed holds throughout.                                                *)
LEMMA PlacedInvariant == Spec => []Placed
<1>1. Init => Placed
  BY DEF Init, Placed, Range, IsInjective
<1> QED BY <1>1, PlacedStep, TypedInvariant, SettledInvariant, PTL DEF Spec

(* A channel with something written has a message.                         *)
LEMMA ChannelFacts ==
  ASSUME Typed, Channels, NEW s \in Subs, Len(wire[s]) = 1 \/ wire[s] # <<>>
  PROVE  unacked[s] \in Msgs
<1>0. Len(<<>>) # 1
  OBVIOUS
<1>1. wire[s] \in Seq(Frames) /\ wire[s] # <<>>
  BY <1>0 DEF Typed
<1>2. Head(wire[s]) = wire[s][1] /\ Head(wire[s]) \in Frames /\ 1 \in DOMAIN wire[s]
  BY <1>1, TailElements
<1>3. wire[s][1].msg \in Msgs
  BY <1>2 DEF Frames
<1> QED BY <1>2, <1>3 DEF Channels

(* A settlement is written to an empty channel, or is dropped.             *)
LEMMA SettleFacts ==
  ASSUME Typed, Handed, NEW r \in incoming, NEW how \in Settlements, Settle(r, how)
  PROVE  /\ r.sub \in Subs /\ r.msg \in Msgs /\ UNCHANGED <<mode, pc>>
         /\ \A t \in Subs : \/ wire'[t] = wire[t]
                            \/ t = r.sub /\ Open(r) /\ unacked[t] = r.msg /\ wire'[t] = Settlement(r, how)
         /\ \A q \in incoming' : Open(q)' => q \in incoming /\ Open(q)
<1>1. r.sub \in Subs /\ r.msg \in Msgs /\ r \in Incoming
  BY DEF Typed, Incoming
<1>2. /\ UNCHANGED <<mode, pc>> /\ ~r.settled
      /\ wire' = IF pc[r.sub] = "consuming" THEN [wire EXCEPT ![r.sub] = @ \o Settlement(r, how)] ELSE wire
  BY DEF Settle, Unsettled
<1>3. ASSUME NEW t \in Subs, wire'[t] # wire[t]
      PROVE  t = r.sub /\ Open(r) /\ unacked[t] = r.msg /\ wire'[t] = Settlement(r, how)
  <2>1. t = r.sub /\ pc[r.sub] = "consuming" /\ wire'[t] = wire[t] \o Settlement(r, how)
    BY <1>1, <1>2, <1>3 DEF Typed
  <2>2. Open(r)
    BY <1>2, <2>1 DEF Open
  <2>3. wire[t] = <<>> /\ unacked[t] = r.msg
    BY <2>1, <2>2 DEF Handed
  <2>4. Settlement(r, how) \in Seq(Frames)
    BY <1>1, SettlementType
  <2>5. <<>> \o Settlement(r, how) = Settlement(r, how)
    BY <2>4
  <2> QED BY <2>1, <2>2, <2>3, <2>5
<1> DEFINE n == [r EXCEPT !.settled = TRUE]
<1>4. n.settled
  BY <1>1 DEF Incoming
<1>5. \A q \in incoming' : q \in incoming \/ q = n
  BY DEF Settle
<1> HIDE DEF n
<1>6. \A q \in incoming' : Open(q)' => q \in incoming /\ Open(q)
  BY <1>2, <1>4, <1>5 DEF Open
<1> QED BY <1>1, <1>2, <1>3, <1>6

(* Every step keeps what the queue has received.                           *)
LEMMA KeptStep == Typed /\ Channels /\ Handed /\ Placed /\ Kept /\ [Next]_vars => Kept'
<1> SUFFICES ASSUME Typed, Channels, Handed, Placed, Kept, [Next]_vars PROVE Kept'
  OBVIOUS
<1> DEFINE Promised == \A s \in Subs : Len(wire[s]) = 1 /\ wire[s][1].type = "giveup" => dlq[unacked[s]] > 0
<1>0. ASSUME UNCHANGED <<main, parked, unacked, dlq, expired, routed, left>>
      PROVE  \A m \in routed' : Waiting(m)' \/ Ended(m)'
  BY <1>0 DEF Kept, Waiting, Ended
<1>1. ASSUME NEW s \in Subs, Deliver(s) PROVE Kept'
  <2>1. PICK m \in Msgs :
          /\ Range(main') = Range(main) \ {m} /\ unacked[s] = None /\ m # None
          /\ \A t \in Subs : unacked'[t] = IF t = s THEN m ELSE unacked[t]
          /\ UNCHANGED <<wire, parked, dlq, expired, routed, left>>
    BY <1>1, DeliverFacts
  <2>2. ASSUME NEW n \in routed PROVE Waiting(n)' \/ Ended(n)'
    <3>1. CASE n = m
      BY <2>1, <3>1 DEF Waiting
    <3>2. CASE n # m
      <4>1. \A t \in Subs : unacked[t] = n => unacked'[t] = n
        BY <2>1, <3>2, RabbitAssumption DEF Typed
      <4> QED BY <2>1, <3>2, <4>1 DEF Kept, Waiting, Ended
    <3> QED BY <3>1, <3>2
  <2>3. Len(wire[s]) # 1
    BY <1>1, <2>1, RabbitAssumption, ChannelFacts
  <2>4. Promised'
    BY <2>1, <2>3 DEF Kept
  <2> QED BY <2>1, <2>2, <2>4 DEF Kept
<1>2. ASSUME NEW s \in Subs, NEW d \in Ends, unacked[s] \in Msgs, Lands(unacked[s], d),
             \A t \in Subs : unacked'[t] = IF t = s THEN None ELSE unacked[t],
             \A t \in Subs : t # s => wire'[t] = wire[t], wire'[s] = <<>>, UNCHANGED routed
      PROVE  Kept'
  <2> DEFINE m == unacked[s]
  <2>1. \A n \in Msgs : dlq[n] \in Nat /\ (dlq[n] > 0 => dlq'[n] > 0)
    <3> TAKE n \in Msgs
    <3>1. dlq[n] \in Nat
      BY DEF Typed
    <3>2. dlq'[n] = dlq[n] + 1 \/ dlq'[n] = dlq[n]
      BY <1>2 DEF Lands
    <3> QED BY <3>1, <3>2
  <2>2. m \in Range(main') \/ m \in Range(parked') \/ m \in left' \/ m \in expired' \/ dlq'[m] > 0
    BY <1>2, <2>1 DEF Lands, Ends
  <2>3. ASSUME NEW n \in routed PROVE Waiting(n)' \/ Ended(n)'
    <3>1. CASE n = m
      BY <2>2, <3>1 DEF Waiting, Ended
    <3>2. CASE n # m
      <4>1. n \in Msgs /\ (Waiting(n) \/ Ended(n))
        BY DEF Typed, Kept
      <4>2. CASE Waiting(n)
        BY <1>2, <3>2, <4>1, <4>2, RabbitAssumption DEF Waiting, Lands
      <4>3. CASE Ended(n)
        BY <1>2, <2>1, <4>1, <4>3 DEF Ended, Lands
      <4> QED BY <4>1, <4>2, <4>3
    <3> QED BY <3>1, <3>2
  <2>4. ASSUME NEW t \in Subs, Len(wire'[t]) = 1, wire'[t][1].type = "giveup" PROVE dlq'[unacked'[t]] > 0
    <3>1. t # s /\ wire'[t] = wire[t] /\ unacked'[t] = unacked[t]
      <4>1. Len(<<>>) # 1
        OBVIOUS
      <4> QED BY <1>2, <2>4, <4>1
    <3>2. unacked[t] \in Msgs
      BY <2>4, <3>1, ChannelFacts
    <3> QED BY <2>1, <2>4, <3>1, <3>2 DEF Kept
  <2> QED BY <1>2, <2>3, <2>4 DEF Kept
<1>3. ASSUME NEW s \in Subs, BrokerReads(s) PROVE Kept'
  <2>1. unacked[s] \in Msgs /\ UNCHANGED routed /\ \A t \in Subs \ {s} : wire'[t] = wire[t] /\ unacked'[t] = unacked[t]
    BY <1>3, ReadFacts
  <2>2. CASE /\ unacked' = unacked /\ \A n \in Msgs : dlq'[n] = IF n = unacked[s] THEN dlq[n] + 1 ELSE dlq[n]
             /\ UNCHANGED <<main, parked, deaths, expired, left>>
    <3>1. \A n \in Msgs : dlq[n] \in Nat /\ (dlq[n] > 0 => dlq'[n] > 0)
      <4> TAKE n \in Msgs
      <4>1. dlq[n] \in Nat
        BY DEF Typed
      <4>2. dlq'[n] = dlq[n] + 1 \/ dlq'[n] = dlq[n]
        BY <2>2
      <4> QED BY <4>1, <4>2
    <3>2. dlq'[unacked[s]] > 0
      BY <2>1, <2>2, <3>1
    <3>3. ASSUME NEW n \in routed PROVE Waiting(n)' \/ Ended(n)'
      <4>1. n \in Msgs
        BY DEF Typed
      <4> QED BY <2>2, <3>1, <4>1 DEF Kept, Waiting, Ended
    <3>4. ASSUME NEW t \in Subs, Len(wire'[t]) = 1, wire'[t][1].type = "giveup" PROVE dlq'[unacked'[t]] > 0
      <4>1. CASE t = s
        BY <2>2, <3>2, <4>1
      <4>2. CASE t # s
        <5>1. wire'[t] = wire[t] /\ unacked'[t] = unacked[t]
          BY <2>1, <4>2
        <5>2. unacked[t] \in Msgs
          BY <3>4, <5>1, ChannelFacts
        <5> QED BY <3>1, <3>4, <5>1, <5>2 DEF Kept
      <4> QED BY <4>1, <4>2
    <3> QED BY <2>1, <3>3, <3>4 DEF Kept
  <2>3. CASE /\ Len(wire[s]) = 1 /\ wire'[s] = <<>> /\ unacked'[s] = None /\ wire[s][1].type = "giveup"
             /\ UNCHANGED <<main, parked, deaths, dlq, expired, left>>
    <3>1. dlq[unacked[s]] > 0
      BY <2>3 DEF Kept
    <3>2. ASSUME NEW n \in routed PROVE Waiting(n)' \/ Ended(n)'
      <4>1. CASE n = unacked[s]
        BY <2>3, <3>1, <4>1 DEF Ended
      <4>2. CASE n # unacked[s]
        <5>1. \A t \in Subs : unacked[t] = n => unacked'[t] = n
          BY <2>1, <4>2
        <5> QED BY <2>3, <4>2, <5>1 DEF Kept, Waiting, Ended
      <4> QED BY <4>1, <4>2
    <3>3. Len(<<>>) # 1
      OBVIOUS
    <3>4. Promised'
      BY <2>1, <2>3, <3>3 DEF Kept
    <3> QED BY <2>1, <3>2, <3>4 DEF Kept
  <2>4. CASE wire'[s] = <<>> /\ unacked'[s] = None /\ \E d \in Ends : Lands(unacked[s], d)
    BY <1>2, <2>1, <2>4
  <2> QED BY <1>3, <2>2, <2>3, <2>4, ReadFacts
<1>4. ASSUME NEW s \in Subs, CloseChannel(s) PROVE Kept'
  <2>1. /\ UNCHANGED <<routed, wire>> /\ unacked'[s] = None /\ wire[s] = <<>>
        /\ \A t \in Subs \ {s} : unacked'[t] = unacked[t]
    BY <1>4, CloseFacts
  <2>2. CASE unacked[s] = None /\ UNCHANGED <<main, parked, dlq, expired, left>>
    <3>1. unacked' = unacked
      BY <1>4, <2>2 DEF CloseChannel, Typed
    <3>2. Promised'
      BY <2>1, <2>2, <3>1 DEF Kept
    <3> QED BY <1>0, <2>1, <2>2, <3>1, <3>2 DEF Kept
  <2>3. CASE unacked[s] \in Msgs /\ \E d \in Ends : Lands(unacked[s], d)
    BY <1>2, <2>1, <2>3
  <2> QED BY <1>4, <2>2, <2>3, CloseFacts
<1>5. CASE BrokerRoutes
  <2>1. PICK m \in Msgs :
          /\ \/ UNCHANGED <<main, routed>>
             \/ Range(main') = Range(main) \union {m} /\ routed' = routed \union {m}
          /\ UNCHANGED <<wire, parked, unacked, dlq, expired, left>>
    BY <1>5, RouteFacts
  <2>2. \A n \in routed' : Waiting(n)' \/ Ended(n)'
    BY <2>1 DEF Kept, Waiting, Ended
  <2>3. Promised'
    BY <2>1 DEF Kept
  <2> QED BY <2>2, <2>3 DEF Kept
<1>6. CASE RetryElapses
  <2>1. PICK m \in Msgs :
          /\ Range(parked') = Range(parked) \ {m} /\ Range(main') = Range(main) \union {m}
          /\ UNCHANGED <<wire, unacked, dlq, expired, left, routed>>
    BY <1>6, RetryFacts
  <2>2. \A n \in routed' : Waiting(n)' \/ Ended(n)'
    BY <2>1 DEF Kept, Waiting, Ended
  <2>3. Promised'
    BY <2>1 DEF Kept
  <2> QED BY <2>2, <2>3 DEF Kept
<1>7. CASE TtlElapses
  <2>1. PICK m \in Msgs :
          /\ Range(main') = Range(main) \ {m} /\ expired' = expired \union {m}
          /\ UNCHANGED <<wire, parked, unacked, dlq, left, routed>>
    BY <1>7, TtlFacts
  <2>2. \A n \in routed' : Waiting(n)' \/ Ended(n)'
    BY <2>1 DEF Kept, Waiting, Ended
  <2>3. Promised'
    BY <2>1 DEF Kept
  <2> QED BY <2>2, <2>3 DEF Kept
<1>8. CASE Crash
  <2>1. Promised'
    <3>1. Len(<<>>) # 1
      OBVIOUS
    <3> QED BY <1>8, <3>1, CrashFacts
  <2> QED BY <1>0, <1>8, <2>1, CrashFacts DEF Kept
<1>9. ASSUME NEW r \in incoming, NEW how \in Settlements, Settle(r, how) PROVE Kept'
  <2>1. UNCHANGED <<main, parked, unacked, dlq, expired, routed, left>>
    BY <1>9 DEF Settle, queueVars, historyVars
  <2>2. \A t \in Subs : wire'[t] = wire[t] \/ wire'[t] = Settlement(r, how)
    BY <1>9, SettleFacts
  <2>3. Len(Settlement(r, how)) = 1 => Settlement(r, how)[1].type # "giveup"
    BY SettlementFacts
  <2>4. Promised'
    BY <2>1, <2>2, <2>3 DEF Kept
  <2> QED BY <1>0, <2>1, <2>4 DEF Kept
<1>10. ASSUME NEW m \in Msgs, PublishWrite(m) PROVE Kept'
  <2>1. UNCHANGED <<main, parked, unacked, dlq, expired, routed, left, wire>>
    BY <1>10 DEF PublishWrite, queueVars, historyVars
  <2>2. Promised'
    BY <2>1 DEF Kept
  <2> QED BY <1>0, <2>1, <2>2 DEF Kept
<1>11. CASE Calling
  <2>1. Promised'
    BY <1>11 DEF Calling, Kept
  <2> QED BY <1>0, <1>11, <2>1 DEF Calling, Kept
<1> QED BY <1>1, <1>3, <1>4, <1>5, <1>6, <1>7, <1>8, <1>9, <1>10, <1>11, StepCases DEF Stepping

(* Whatever settlements, retries, closed channels and crashes interleave,  *)
(* a message the queue has taken waits in exactly one place or has ended:  *)
(* see NothingLost.                                                        *)
THEOREM DeliverySafety == Spec => []NothingLost
<1>1. Init => Kept
  BY DEF Init, Kept
<1>2. Typed /\ Placed /\ Kept => NothingLost
  <2> SUFFICES ASSUME Typed, Placed, Kept PROVE NothingLost
    OBVIOUS
  <2>1. IsInjective(main \o parked) /\ Range(main \o parked) = Range(main) \union Range(parked)
    BY ConcatInjective, ConcatRange DEF Typed, Placed
  <2> QED BY <2>1 DEF Placed, Kept, NothingLost
<1> QED BY <1>1, <1>2, KeptStep, TypedInvariant, SettledInvariant, PlacedInvariant, PTL DEF Spec

-----------------------------------------------------------------------------
(* How a message ends                                                      *)

(* What Counted says of message m.                                         *)
CountedFor(m) ==
  /\ dlq[m] <= 1 + returned[m]
  /\ Undelivered(m) => dlq[m] <= returned[m]
  /\ \A s \in Subs : unacked[s] = m /\ ~GivingUp(s) => dlq[m] <= returned[m]
  /\ m \in left => ~Waiting(m) /\ (returned[m] = 0 => dlq[m] = 0)

(* A step that gives nobody a message, counts nothing and ends nothing     *)
(* keeps the count.                                                        *)
LEMMA CountedQuiet ==
  ASSUME NEW m \in Msgs, CountedFor(m), dlq'[m] = dlq[m], returned'[m] = returned[m],
         m \in left' => m \in left,
         Undelivered(m)' => Undelivered(m),
         Waiting(m)' => Waiting(m) \/ m \notin left,
         \A s \in Subs : unacked'[s] = m /\ ~GivingUp(s)' => (unacked[s] = m /\ ~GivingUp(s)) \/ Undelivered(m)
  PROVE  CountedFor(m)'
BY DEF CountedFor

(* Every step keeps the count of the dead-letter copies.                   *)
LEMMA CountedStep ==
  Typed /\ Typed' /\ Channels /\ Handed /\ Placed /\ Counted /\ [Next]_vars => Counted'
<1> SUFFICES ASSUME Typed, Typed', Channels, Handed, Placed, Counted, [Next]_vars,
                    NEW n \in Msgs
             PROVE  CountedFor(n)'
  BY DEF Counted, CountedFor
<1>a. CountedFor(n) /\ n # None
  BY RabbitAssumption DEF Counted, CountedFor
<1>b. dlq[n] \in Nat /\ returned[n] \in Nat /\ dlq'[n] \in Nat /\ returned'[n] \in Nat
  BY DEF Typed
<1>1. ASSUME NEW s \in Subs, Deliver(s) PROVE CountedFor(n)'
  <2>1. PICK m \in Msgs :
          /\ m \in Range(main) /\ Range(main') = Range(main) \ {m}
          /\ \A t \in Subs : unacked'[t] = IF t = s THEN m ELSE unacked[t]
          /\ UNCHANGED <<pc, wire, parked, dlq, routed, left, returned>>
    BY <1>1, DeliverFacts
  <2>2. Undelivered(n)' => Undelivered(n)
    BY <2>1 DEF Undelivered
  <2>3. n = m => Undelivered(n) /\ n \notin left
    BY <1>a, <2>1 DEF Undelivered, CountedFor, Waiting
  <2>4. Waiting(n)' => Waiting(n) \/ n \notin left
    BY <2>1, <2>3 DEF Waiting
  <2>5. \A t \in Subs : unacked'[t] = n /\ ~GivingUp(t)' => (unacked[t] = n /\ ~GivingUp(t)) \/ Undelivered(n)
    BY <2>1, <2>3 DEF GivingUp
  <2> QED BY <1>a, <2>1, <2>2, <2>4, <2>5, CountedQuiet
<1>2. ASSUME NEW s \in Subs, NEW d \in Ends, unacked[s] \in Msgs, Lands(unacked[s], d),
             dlq[unacked[s]] <= returned'[unacked[s]],
             \A k \in Msgs : k # unacked[s] => returned'[k] = returned[k],
             \A t \in Subs : unacked'[t] = IF t = s THEN None ELSE unacked[t],
             \A t \in Subs : t # s => wire'[t] = wire[t] /\ pc'[t] = pc[t],
             UNCHANGED routed
      PROVE  CountedFor(n)'
  <2> DEFINE m == unacked[s]
  <2>1. m # None /\ m \in routed /\ m \notin Range(main) /\ m \notin Range(parked) /\ m \notin left
    BY <1>2, RabbitAssumption DEF Placed, Counted, Waiting
  <2>2. CASE n = m
    <3>1. dlq'[n] = IF d = "dlq" THEN dlq[n] + 1 ELSE dlq[n]
      BY <1>2, <2>2 DEF Lands
    <3>2. dlq[n] <= returned'[n]
      BY <1>2, <2>2
    <3>3. dlq'[n] <= 1 + returned'[n] /\ (d # "dlq" => dlq'[n] <= returned'[n])
      BY <1>b, <3>1, <3>2
    <3>4. \A t \in Subs : unacked'[t] # n
      BY <1>2, <1>a, <2>2 DEF Placed
    <3>5. Undelivered(n)' => d \in {"main", "parked"}
      BY <1>2, <2>1, <2>2 DEF Undelivered, Lands
    <3>6. n \in left' => d = "left" /\ ~Waiting(n)'
      BY <1>2, <2>1, <2>2, <3>4 DEF Waiting, Lands
    <3>7. n \in left' /\ returned'[n] = 0 => dlq'[n] = 0
      BY <1>b, <3>3, <3>6
    <3> QED BY <3>3, <3>4, <3>5, <3>6, <3>7 DEF CountedFor
  <2>3. CASE n # m
    <3>1. dlq'[n] = dlq[n] /\ returned'[n] = returned[n] /\ (n \in left' => n \in left)
      BY <1>2, <2>3 DEF Lands
    <3>2. /\ n \in Range(main') => n \in Range(main)
          /\ n \in Range(parked') => n \in Range(parked)
      BY <1>2, <2>3 DEF Lands
    <3>3. \A t \in Subs : unacked'[t] = n => t # s /\ unacked[t] = n
      BY <1>2, <1>a, <2>3
    <3>4. Undelivered(n)' => Undelivered(n)
      BY <1>2, <3>2 DEF Undelivered
    <3>5. Waiting(n)' => Waiting(n)
      BY <3>2, <3>3 DEF Waiting
    <3>6. \A t \in Subs : unacked'[t] = n /\ ~GivingUp(t)' => unacked[t] = n /\ ~GivingUp(t)
      BY <1>2, <3>3 DEF GivingUp
    <3> QED BY <1>a, <3>1, <3>4, <3>5, <3>6, CountedQuiet
  <2> QED BY <2>2, <2>3
<1>3. ASSUME NEW s \in Subs, BrokerReads(s) PROVE CountedFor(n)'
  <2>1. /\ unacked[s] \in Msgs /\ UNCHANGED <<pc, routed, returned>>
        /\ \A t \in Subs \ {s} : wire'[t] = wire[t] /\ unacked'[t] = unacked[t]
    BY <1>3, ReadFacts
  <2>2. pc[s] # "dead"
    <3>1. wire[s] # <<>>
      BY <1>3 DEF BrokerReads
    <3> QED BY <3>1 DEF Channels
  <2>3. CASE /\ Len(wire[s]) = 2 /\ Len(wire'[s]) = 1 /\ wire'[s][1].type = "giveup"
             /\ unacked' = unacked
             /\ \A k \in Msgs : dlq'[k] = IF k = unacked[s] THEN dlq[k] + 1 ELSE dlq[k]
             /\ UNCHANGED <<main, parked, deaths, expired, left>>
    <3>1. ~GivingUp(s) /\ GivingUp(s)'
      BY <2>1, <2>2, <2>3 DEF GivingUp
    <3>2. (Undelivered(n)' <=> Undelivered(n)) /\ (Waiting(n)' <=> Waiting(n))
      BY <2>1, <2>3 DEF Undelivered, Waiting
    <3>3. CASE n = unacked[s]
      <4>1. dlq'[n] <= 1 + returned'[n]
        BY <1>a, <1>b, <2>1, <2>3, <3>1, <3>3 DEF CountedFor
      <4>2. ~Undelivered(n) /\ n \notin left
        BY <1>a, <2>1, <3>3 DEF Undelivered, Placed, CountedFor, Waiting
      <4>3. \A t \in Subs : unacked'[t] = n => t = s
        BY <1>a, <2>3, <3>3 DEF Placed
      <4> QED BY <2>3, <3>1, <3>2, <4>1, <4>2, <4>3 DEF CountedFor
    <3>4. CASE n # unacked[s]
      <4>1. \A t \in Subs : unacked'[t] = n /\ ~GivingUp(t)' => unacked[t] = n /\ ~GivingUp(t)
        BY <2>1, <2>3, <3>4 DEF GivingUp
      <4> QED BY <1>a, <2>1, <2>3, <3>2, <3>4, <4>1, CountedQuiet
    <3> QED BY <3>3, <3>4
  <2>4. CASE unacked'[s] = None /\ UNCHANGED <<main, parked, dlq, left>>
    <3>1. \A t \in Subs : unacked'[t] = n => t # s /\ unacked[t] = n
      BY <1>a, <2>1, <2>4
    <3>2. (Undelivered(n)' => Undelivered(n)) /\ (Waiting(n)' => Waiting(n))
      BY <2>1, <2>4, <3>1 DEF Undelivered, Waiting
    <3>3. \A t \in Subs : unacked'[t] = n /\ ~GivingUp(t)' => unacked[t] = n /\ ~GivingUp(t)
      BY <2>1, <3>1 DEF GivingUp
    <3> QED BY <1>a, <2>1, <2>4, <3>2, <3>3, CountedQuiet
  <2>5. CASE /\ Len(wire[s]) = 1 /\ unacked'[s] = None /\ wire[s][1].type # "giveup"
             /\ \E d \in Ends : Lands(unacked[s], d)
    <3>1. ~GivingUp(s)
      BY <2>2, <2>5 DEF GivingUp
    <3>2. dlq[unacked[s]] <= returned[unacked[s]]
      BY <2>1, <3>1 DEF Counted
    <3> QED BY <1>2, <2>1, <2>5, <3>2
  <2> QED BY <1>3, <2>3, <2>4, <2>5, ReadFacts
<1>4. ASSUME NEW s \in Subs, CloseChannel(s) PROVE CountedFor(n)'
  <2>1. /\ UNCHANGED <<wire, routed>> /\ unacked'[s] = None /\ pc'[s] # "dead"
        /\ \A t \in Subs \ {s} : unacked'[t] = unacked[t] /\ pc'[t] = pc[t]
    BY <1>4, CloseFacts
  <2>2. CASE unacked[s] = None /\ UNCHANGED <<main, parked, dlq, left, returned>>
    <3>1. \A t \in Subs : unacked'[t] = n => t # s /\ unacked[t] = n
      BY <1>a, <2>1
    <3>2. (Undelivered(n)' => Undelivered(n)) /\ (Waiting(n)' => Waiting(n))
      BY <2>1, <2>2, <3>1 DEF Undelivered, Waiting
    <3>3. \A t \in Subs : unacked'[t] = n /\ ~GivingUp(t)' => unacked[t] = n /\ ~GivingUp(t)
      BY <2>1, <3>1 DEF GivingUp
    <3> QED BY <1>a, <2>2, <3>2, <3>3, CountedQuiet
  <2>3. CASE /\ unacked[s] \in Msgs
             /\ \A k \in Msgs : returned'[k] = IF k = unacked[s] THEN returned[k] + 1 ELSE returned[k]
             /\ \E d \in Ends : Lands(unacked[s], d)
    <3>1. dlq[unacked[s]] <= returned'[unacked[s]]
      <4>1. dlq[unacked[s]] \in Nat /\ returned[unacked[s]] \in Nat
        BY <2>3 DEF Typed
      <4>2. dlq[unacked[s]] <= 1 + returned[unacked[s]]
        BY <2>3 DEF Counted
      <4> QED BY <2>3, <4>1, <4>2
    <3> QED BY <1>2, <2>1, <2>3, <3>1
  <2> QED BY <1>4, <2>2, <2>3, CloseFacts
<1>5. CASE BrokerRoutes
  <2>1. PICK m \in Msgs :
          /\ m \in Range(pubWire)
          /\ \/ UNCHANGED <<main, routed>>
             \/ Range(main') = Range(main) \union {m} /\ routed' = routed \union {m}
          /\ UNCHANGED <<pc, wire, parked, unacked, dlq, left, returned>>
    BY <1>5, RouteFacts
  <2>2. m \notin routed /\ m \notin left
    BY <2>1 DEF Placed
  <2>3. Undelivered(n)' => Undelivered(n)
    BY <2>1, <2>2 DEF Undelivered
  <2>4. Waiting(n)' => Waiting(n) \/ n \notin left
    BY <2>1, <2>2 DEF Waiting
  <2>5. \A t \in Subs : unacked'[t] = n /\ ~GivingUp(t)' => unacked[t] = n /\ ~GivingUp(t)
    BY <2>1 DEF GivingUp
  <2> QED BY <1>a, <2>1, <2>3, <2>4, <2>5, CountedQuiet
<1>6. CASE RetryElapses
  <2>1. PICK m \in Msgs :
          /\ m \in Range(parked) /\ Range(parked') = Range(parked) \ {m}
          /\ Range(main') = Range(main) \union {m}
          /\ UNCHANGED <<pc, wire, unacked, dlq, left, routed, returned>>
    BY <1>6, RetryFacts
  <2>2. (Undelivered(n)' => Undelivered(n)) /\ (Waiting(n)' => Waiting(n))
    BY <2>1 DEF Undelivered, Waiting
  <2>3. \A t \in Subs : unacked'[t] = n /\ ~GivingUp(t)' => unacked[t] = n /\ ~GivingUp(t)
    BY <2>1 DEF GivingUp
  <2> QED BY <1>a, <2>1, <2>2, <2>3, CountedQuiet
<1>7. CASE TtlElapses
  <2>1. PICK m \in Msgs :
          /\ m \in Range(main) /\ Range(main') = Range(main) \ {m}
          /\ UNCHANGED <<pc, wire, parked, unacked, dlq, left, routed, returned>>
    BY <1>7, TtlFacts
  <2>2. (Undelivered(n)' => Undelivered(n)) /\ (Waiting(n)' => Waiting(n))
    BY <2>1 DEF Undelivered, Waiting
  <2>3. \A t \in Subs : unacked'[t] = n /\ ~GivingUp(t)' => unacked[t] = n /\ ~GivingUp(t)
    BY <2>1 DEF GivingUp
  <2> QED BY <1>a, <2>1, <2>2, <2>3, CountedQuiet
<1>8. ASSUME UNCHANGED <<main, parked, unacked, dlq, left, routed, returned>>,
             \A t \in Subs : unacked[t] # None /\ ~GivingUp(t)' => ~GivingUp(t)
      PROVE  CountedFor(n)'
  <2>1. (Undelivered(n)' => Undelivered(n)) /\ (Waiting(n)' => Waiting(n))
    BY <1>8 DEF Undelivered, Waiting
  <2>2. \A t \in Subs : unacked'[t] = n /\ ~GivingUp(t)' => unacked[t] = n /\ ~GivingUp(t)
    BY <1>8, <1>a
  <2> QED BY <1>a, <1>8, <2>1, <2>2, CountedQuiet
<1>9. CASE Crash
  <2>1. \A t \in Subs : unacked[t] # None => GivingUp(t)'
    BY <1>9, CrashFacts DEF GivingUp
  <2> QED BY <1>8, <1>9, <2>1, CrashFacts
<1>10. ASSUME NEW r \in incoming, NEW how \in Settlements, Settle(r, how) PROVE CountedFor(n)'
  <2>1. UNCHANGED <<pc, main, parked, unacked, dlq, left, routed, returned>>
    BY <1>10 DEF Settle, queueVars, historyVars
  <2>2. ASSUME NEW t \in Subs, ~GivingUp(t)' PROVE ~GivingUp(t)
    <3>1. CASE wire'[t] = wire[t]
      BY <2>1, <2>2, <3>1 DEF GivingUp
    <3>2. CASE t = r.sub /\ Open(r)
      <4>1. wire[t] = <<>> /\ pc[t] = "consuming"
        BY <3>2 DEF Handed, Open
      <4>2. Len(<<>>) # 1
        OBVIOUS
      <4> QED BY <4>1, <4>2 DEF GivingUp
    <3> QED BY <1>10, <3>1, <3>2, SettleFacts
  <2> QED BY <1>8, <2>1, <2>2
<1>11. ASSUME NEW m \in Msgs, PublishWrite(m) PROVE CountedFor(n)'
  <2>1. UNCHANGED <<wire, main, parked, unacked, dlq, left, routed, returned>>
    BY <1>11 DEF PublishWrite, queueVars, historyVars
  <2>2. \A t \in Subs : pc'[t] = pc[t]
    BY <1>11, RabbitAssumption DEF PublishWrite, Goto, Typed
  <2>3. \A t \in Subs : ~GivingUp(t)' => ~GivingUp(t)
    BY <2>1, <2>2 DEF GivingUp
  <2> QED BY <1>8, <2>1, <2>3
<1>12. CASE Calling
  <2>1. \A t \in Subs : ~GivingUp(t)' => ~GivingUp(t)
    BY <1>12 DEF Calling, GivingUp
  <2> QED BY <1>8, <1>12, <2>1 DEF Calling
<1> QED BY <1>1, <1>3, <1>4, <1>5, <1>6, <1>7, <1>9, <1>10, <1>11, <1>12, StepCases DEF Stepping

(* A message that no channel was lost with ends once: in a handler, at the *)
(* dead-letter address or at the expiry address.  See OneEnding.           *)
THEOREM EndingSafety == Spec => []OneEnding
<1>1. Init => Counted
  BY DEF Init, Counted
<1>2. Typed /\ Counted => OneEnding
  <2> SUFFICES ASSUME Typed, Counted, NEW m \in Msgs
               PROVE  /\ dlq[m] <= 1 + returned[m]
                      /\ returned[m] = 0 /\ dlq[m] > 0 =>
                           m \notin left /\ m \notin Range(main) /\ m \notin Range(parked)
    BY DEF OneEnding
  <2>1. dlq[m] \in Nat /\ returned[m] \in Nat
    BY DEF Typed
  <2> QED BY <2>1 DEF Counted, Undelivered
<1> QED BY <1>1, <1>2, CountedStep, TypedInvariant, SettledInvariant, PlacedInvariant, PTL DEF Spec

-----------------------------------------------------------------------------
(* How often a message is tried                                            *)

(* What Budget says of message m, of channel s and of an open message r.   *)
Tried(m) ==
  /\ deaths[m] <= LastDeath
  /\ delivered[m] <= deaths[m] + returned[m] + 1
  /\ Undelivered(m) => delivered[m] <= deaths[m] + returned[m]

Writing(s) ==
  \A i \in DOMAIN wire[s] :
    /\ wire[s][i].type # "requeue"
    /\ wire[s][i].type = "reject" => deaths[unacked[s]] + 1 < MaxDeliveries

(* Every step keeps the count of the attempts.                             *)
LEMMA BudgetStep ==
  Typed /\ Typed' /\ Channels /\ Handed /\ Placed /\ Budget /\ [Next]_vars => Budget'
<1> SUFFICES ASSUME Typed, Typed', Channels, Handed, Placed, Budget, [Next]_vars, Retry'
             PROVE  /\ \A n \in Msgs : Tried(n)'
                    /\ \A t \in Subs : Writing(t)'
                    /\ \A q \in incoming' : Open(q)' => q.count = deaths'[q.msg] + 1
  BY DEF Budget, Tried, Writing
<1> DEFINE Counting == \A q \in incoming' : Open(q)' => q.count = deaths'[q.msg] + 1
           Trying == \A n \in Msgs : Tried(n)'
           Goal == Trying /\ (\A t \in Subs : Writing(t)') /\ Counting
<1> SUFFICES Goal
  OBVIOUS
<1>m. UNCHANGED mode => Retry
  BY DEF Retry
<1>a. ASSUME Retry
      PROVE  /\ \A n \in Msgs : Tried(n)
             /\ \A t \in Subs : Writing(t)
             /\ \A q \in incoming : Open(q) => q.count = deaths[q.msg] + 1
  BY <1>a DEF Budget, Tried, Writing
<1>b. \A n \in Msgs : /\ deaths[n] \in Nat /\ returned[n] \in Nat /\ delivered[n] \in Nat
                      /\ deaths'[n] \in Nat /\ returned'[n] \in Nat /\ delivered'[n] \in Nat
                      /\ n # None
  BY RabbitAssumption DEF Typed
<1>c. \A q \in incoming : q.msg \in Msgs /\ q.sub \in Subs
  BY DEF Typed, Incoming
<1>q. ASSUME Retry, UNCHANGED <<deaths, delivered, returned>>,
             \A n \in Msgs : Undelivered(n)' => Undelivered(n)
      PROVE  Trying
  BY <1>a, <1>q DEF Tried
<1>1. ASSUME NEW s \in Subs, Deliver(s) PROVE Goal
  <2>1. PICK m \in Msgs :
          /\ m \in Range(main) /\ Range(main') = Range(main) \ {m}
          /\ unacked[s] = None /\ m # None
          /\ \A t \in Subs : unacked'[t] = IF t = s THEN m ELSE unacked[t]
          /\ \A n \in Msgs : delivered'[n] = IF n = m THEN delivered[n] + 1 ELSE delivered[n]
          /\ incoming' = incoming \union
               {[msg |-> m, sub |-> s, count |-> deaths[m] + 1, settled |-> FALSE]}
          /\ UNCHANGED <<mode, pc, wire, parked, deaths, routed, returned>>
    BY <1>1, DeliverFacts
  <2>r. Retry
    BY <1>m, <2>1
  <2>2. ASSUME NEW n \in Msgs PROVE Tried(n)'
    <3>1. Undelivered(n)' => Undelivered(n) /\ (n = m => m \notin Range(main'))
      BY <2>1 DEF Undelivered
    <3>2. ~Undelivered(m)' /\ Undelivered(m)
      BY <2>1 DEF Undelivered, Placed
    <3>3. CASE n = m
      <4>1. delivered'[n] <= deaths'[n] + returned'[n] + 1
        BY <1>a, <1>b, <2>r, <2>1, <3>2, <3>3 DEF Tried
      <4> QED BY <1>a, <2>r, <2>1, <3>2, <3>3, <4>1 DEF Tried
    <3>4. CASE n # m
      BY <1>a, <2>r, <2>1, <3>1, <3>4 DEF Tried
    <3> QED BY <3>3, <3>4
  <2>3. ASSUME NEW t \in Subs PROVE Writing(t)'
    <3>1. CASE t = s
      <4>1. wire[s] = <<>>
        BY <1>b, <2>1, ChannelFacts
      <4>2. DOMAIN wire'[t] = {}
        BY <2>1, <3>1, <4>1
      <4> QED BY <4>2 DEF Writing
    <3>2. CASE t # s
      BY <1>a, <2>r, <2>1, <3>2 DEF Writing
    <3> QED BY <3>1, <3>2
  <2>4. Counting
    <3>1. \A q \in incoming : Open(q)' => Open(q)
      BY <2>1 DEF Open
    <3> QED BY <1>a, <2>r, <2>1, <3>1
  <2> QED BY <2>2, <2>3, <2>4
<1>2. ASSUME NEW s \in Subs, NEW d \in Ends \ {"parked"}, unacked[s] \in Msgs, Lands(unacked[s], d), Retry,
             d = "main" => returned'[unacked[s]] = returned[unacked[s]] + 1,
             \A k \in Msgs : returned'[k] = returned[k] \/ (k = unacked[s] /\ returned'[k] = returned[k] + 1),
             UNCHANGED <<delivered, routed>>
      PROVE  Trying /\ \A k \in Msgs : deaths'[k] = deaths[k]
  <2> DEFINE m == unacked[s]
  <2>1. \A k \in Msgs : deaths'[k] = deaths[k]
    BY <1>2 DEF Lands
  <2>2. m \in routed /\ m \notin Range(main) /\ m \notin Range(parked)
    BY <1>b, <1>2 DEF Placed
  <2>3. ASSUME NEW n \in Msgs PROVE Tried(n)'
    <3>1. Undelivered(n)' => Undelivered(n) \/ (n = m /\ d = "main")
      BY <1>2, <2>2 DEF Undelivered, Lands
    <3>2. Tried(n) /\ deaths'[n] = deaths[n] /\ delivered'[n] = delivered[n]
      BY <1>a, <1>2, <2>1
    <3>3. returned'[n] = returned[n] \/ returned'[n] = returned[n] + 1
      BY <1>2
    <3>4. delivered'[n] <= deaths'[n] + returned'[n] + 1
      BY <1>b, <3>2, <3>3 DEF Tried
    <3>5. Undelivered(n)' => delivered'[n] <= deaths'[n] + returned'[n]
      <4>1. CASE Undelivered(n)
        BY <1>b, <3>2, <3>3, <4>1 DEF Tried
      <4>2. CASE n = m /\ d = "main"
        BY <1>2, <1>b, <3>2, <4>2 DEF Tried
      <4> QED BY <3>1, <4>1, <4>2
    <3> QED BY <3>2, <3>4, <3>5 DEF Tried
  <2> QED BY <2>1, <2>3
<1>3. ASSUME NEW s \in Subs, BrokerReads(s) PROVE Goal
  <2>1. /\ unacked[s] \in Msgs /\ UNCHANGED <<mode, pc, incoming, routed, delivered, returned>>
        /\ \A t \in Subs \ {s} : wire'[t] = wire[t] /\ unacked'[t] = unacked[t]
    BY <1>3, ReadFacts
  <2>r. Retry
    BY <1>m, <2>1
  <2>2. wire[s] \in Seq(Frames) /\ wire[s] # <<>>
    BY <1>3 DEF BrokerReads, Typed
  <2>3. \A q \in incoming : Open(q)' => Open(q) /\ q.sub # s
    BY <2>1, <2>2 DEF Open, Handed
  <2>4. ASSUME \A k \in Msgs : deaths'[k] = deaths[k], Writing(s)'
        PROVE  (\A t \in Subs : Writing(t)') /\ Counting
    <3>1. ASSUME NEW t \in Subs, t # s PROVE Writing(t)'
      <4>1. wire'[t] = wire[t] /\ unacked'[t] = unacked[t] /\ Writing(t)
        BY <1>a, <2>1, <2>r, <3>1
      <4>2. CASE wire[t] = <<>>
        <5>1. DOMAIN wire'[t] = {}
          BY <4>1, <4>2
        <5> QED BY <5>1 DEF Writing
      <4>3. CASE wire[t] # <<>>
        <5>1. unacked[t] \in Msgs
          BY <4>3, ChannelFacts
        <5> QED BY <2>4, <4>1, <5>1 DEF Writing
      <4> QED BY <4>2, <4>3
    <3>2. Counting
      BY <1>a, <1>c, <2>1, <2>r, <2>3, <2>4
    <3> QED BY <2>4, <3>1, <3>2
  <2>5. CASE /\ DOMAIN wire'[s] = 1 .. 1 /\ wire'[s][1].type = "giveup"
             /\ UNCHANGED <<main, parked, deaths>>
    <3>1. Writing(s)'
      BY <2>5 DEF Writing
    <3>2. Trying
      <4>1. \A n \in Msgs : Undelivered(n)' => Undelivered(n)
        BY <2>1, <2>5 DEF Undelivered
      <4> QED BY <1>q, <2>1, <2>r, <2>5, <4>1
    <3> QED BY <2>4, <2>5, <3>1, <3>2
  <2>6. CASE wire'[s] = <<>> /\ UNCHANGED <<main, parked, deaths>>
    <3>1. Writing(s)'
      <4>1. DOMAIN wire'[s] = {}
        BY <2>6
      <4> QED BY <4>1 DEF Writing
    <3>2. Trying
      <4>1. \A n \in Msgs : Undelivered(n)' => Undelivered(n)
        BY <2>1, <2>6 DEF Undelivered
      <4> QED BY <1>q, <2>1, <2>r, <2>6, <4>1
    <3> QED BY <2>4, <2>6, <3>1, <3>2
  <2>7. ASSUME NEW d \in Ends, wire'[s] = <<>>, Len(wire[s]) = 1,
               Lands(unacked[s], d), d = "parked" => wire[s][1].type = "reject",
               d = "main" => wire[s][1].type = "requeue"
        PROVE  Goal
    <3> DEFINE m == unacked[s]
    <3>0. 1 \in DOMAIN wire[s]
      BY <2>2
    <3>1. Writing(s)'
      <4>1. DOMAIN wire'[s] = {}
        BY <2>7
      <4> QED BY <4>1 DEF Writing
    <3>2. d # "main" /\ (d = "parked" => deaths[m] + 1 < MaxDeliveries)
      BY <1>a, <2>r, <2>7, <3>0 DEF Writing
    <3>3. CASE d # "parked"
      <4>1. Trying /\ \A k \in Msgs : deaths'[k] = deaths[k]
        BY <1>2, <2>1, <2>r, <2>7, <3>2, <3>3
      <4> QED BY <2>4, <3>1, <4>1
    <3>4. CASE d = "parked"
      <4>1. \A n \in Msgs : deaths'[n] = IF n = m THEN deaths[n] + 1 ELSE deaths[n]
        BY <2>7, <2>r, <3>4 DEF Lands
      <4>2. m \in routed /\ m \notin Range(main) /\ m \notin Range(parked)
        BY <1>b, <2>1 DEF Placed
      <4>3. Trying
        <5> SUFFICES ASSUME NEW n \in Msgs PROVE Tried(n)'
          OBVIOUS
        <5>1. Tried(n) /\ delivered'[n] = delivered[n] /\ returned'[n] = returned[n]
          BY <1>a, <2>1, <2>r
        <5>2. CASE n = m
          <6>1. deaths'[n] = deaths[n] + 1
            BY <4>1, <5>2
          <6>2. deaths'[n] <= LastDeath
            BY <1>b, <3>2, <3>4, <5>2, <6>1, RabbitAssumption DEF LastDeath
          <6>3. delivered'[n] <= deaths'[n] + returned'[n]
            BY <1>b, <5>1, <6>1 DEF Tried
          <6> QED BY <1>b, <6>2, <6>3 DEF Tried
        <5>3. CASE n # m
          <6>1. deaths'[n] = deaths[n]
            BY <4>1, <5>3
          <6>2. Undelivered(n)' => Undelivered(n)
            BY <2>1, <2>7, <5>3 DEF Undelivered, Lands
          <6> QED BY <5>1, <6>1, <6>2 DEF Tried
        <5> QED BY <5>2, <5>3
      <4>4. ASSUME NEW t \in Subs, t # s PROVE Writing(t)'
        <5>1. wire'[t] = wire[t] /\ unacked'[t] = unacked[t] /\ Writing(t)
          BY <1>a, <2>1, <2>r, <4>4
        <5>2. CASE wire[t] = <<>>
          <6>1. DOMAIN wire'[t] = {}
            BY <5>1, <5>2
          <6> QED BY <6>1 DEF Writing
        <5>3. CASE wire[t] # <<>>
          <6>1. unacked[t] \in Msgs
            BY <5>3, ChannelFacts
          <6>2. unacked[t] # m
            BY <1>b, <2>1, <4>4, <6>1 DEF Placed
          <6>3. deaths'[unacked[t]] = deaths[unacked[t]]
            BY <4>1, <6>1, <6>2
          <6> QED BY <5>1, <6>3 DEF Writing
        <5> QED BY <5>2, <5>3
      <4>5. Counting
        <5> SUFFICES ASSUME NEW q \in incoming, Open(q)' PROVE q.count = deaths'[q.msg] + 1
          BY <2>1
        <5>1. Open(q) /\ q.sub # s /\ unacked[q.sub] = q.msg /\ q.msg \in Msgs /\ q.sub \in Subs
          BY <1>c, <2>3 DEF Handed
        <5>2. q.msg # m
          BY <1>b, <2>1, <5>1 DEF Placed
        <5> QED BY <1>a, <2>r, <4>1, <5>1, <5>2
      <4> QED BY <3>1, <4>3, <4>4, <4>5
    <3> QED BY <3>3, <3>4
  <2> QED BY <1>3, <2>5, <2>6, <2>7, ReadFacts
<1>4. ASSUME NEW s \in Subs, CloseChannel(s) PROVE Goal
  <2>1. /\ UNCHANGED <<mode, incoming, wire, routed, delivered>> /\ wire[s] = <<>>
        /\ pc'[s] # "consuming"
        /\ \A t \in Subs \ {s} : unacked'[t] = unacked[t] /\ pc'[t] = pc[t]
    BY <1>4, CloseFacts
  <2>r. Retry
    BY <1>m, <2>1
  <2>2. ASSUME \A k \in Msgs : deaths'[k] = deaths[k]
        PROVE  (\A t \in Subs : Writing(t)') /\ Counting
    <3>1. ASSUME NEW t \in Subs PROVE Writing(t)'
      <4>1. CASE wire[t] = <<>>
        <5>1. DOMAIN wire'[t] = {}
          BY <2>1, <4>1
        <5> QED BY <5>1 DEF Writing
      <4>2. CASE wire[t] # <<>>
        <5>1. unacked[t] \in Msgs /\ t # s
          BY <2>1, <4>2, ChannelFacts
        <5> QED BY <1>a, <2>r, <2>1, <2>2, <5>1 DEF Writing
      <4> QED BY <4>1, <4>2
    <3>2. \A q \in incoming : Open(q)' => Open(q)
      BY <1>c, <2>1 DEF Open
    <3>3. Counting
      BY <1>a, <1>c, <2>r, <2>1, <2>2, <3>2
    <3> QED BY <3>1, <3>3
  <2>3. CASE UNCHANGED <<main, parked, deaths, returned>>
    <3>1. \A n \in Msgs : Undelivered(n)' => Undelivered(n)
      BY <2>1, <2>3 DEF Undelivered
    <3> QED BY <1>q, <2>1, <2>r, <2>2, <2>3, <3>1
  <2>4. CASE /\ unacked[s] \in Msgs
             /\ \A k \in Msgs : returned'[k] = IF k = unacked[s] THEN returned[k] + 1 ELSE returned[k]
             /\ \E d \in Ends \ {"parked"} : Lands(unacked[s], d)
    <3>1. Trying /\ \A k \in Msgs : deaths'[k] = deaths[k]
      BY <1>2, <2>1, <2>r, <2>4
    <3> QED BY <2>2, <3>1
  <2> QED BY <1>4, <2>3, <2>4, CloseFacts
<1>5. ASSUME UNCHANGED <<mode, unacked, deaths, delivered, returned>>,
             \A n \in Msgs : Undelivered(n)' => Undelivered(n),
             \A t \in Subs : wire'[t] = wire[t] \/ wire'[t] = <<>>,
             \A q \in incoming' : Open(q)' => q \in incoming /\ Open(q)
      PROVE  Goal
  <2>r. Retry
    BY <1>m, <1>5
  <2>1. ASSUME NEW t \in Subs PROVE Writing(t)'
    <3>1. CASE wire'[t] = <<>>
      <4>1. DOMAIN wire'[t] = {}
        BY <3>1
      <4> QED BY <4>1 DEF Writing
    <3>2. CASE wire'[t] = wire[t]
      BY <1>5, <1>a, <2>r, <3>2 DEF Writing
    <3> QED BY <1>5, <3>1, <3>2
  <2>2. Counting
    BY <1>5, <1>a, <2>r
  <2> QED BY <1>5, <1>q, <2>r, <2>1, <2>2
<1>6. CASE BrokerRoutes
  <2>1. PICK m \in Msgs :
          /\ m \in Range(pubWire)
          /\ UNCHANGED <<main, routed>> \/ (Range(main') = Range(main) \union {m} /\ routed' = routed \union {m})
          /\ UNCHANGED <<mode, pc, incoming, wire, parked, unacked, deaths, delivered, returned>>
    BY <1>6, RouteFacts
  <2>2. \A n \in Msgs : Undelivered(n)' => Undelivered(n)
    BY <2>1 DEF Undelivered, Placed
  <2> QED BY <1>5, <2>1, <2>2 DEF Open
<1>7. CASE RetryElapses
  <2>1. PICK m \in Msgs :
          /\ m \in Range(parked) /\ Range(parked') = Range(parked) \ {m}
          /\ Range(main') = Range(main) \union {m}
          /\ UNCHANGED <<mode, pc, incoming, wire, unacked, deaths, routed, delivered, returned>>
    BY <1>7, RetryFacts
  <2>2. \A n \in Msgs : Undelivered(n)' => Undelivered(n)
    BY <2>1 DEF Undelivered
  <2> QED BY <1>5, <2>1, <2>2 DEF Open
<1>8. CASE TtlElapses
  <2>1. PICK m \in Msgs :
          /\ m \in Range(main) /\ Range(main') = Range(main) \ {m}
          /\ UNCHANGED <<mode, pc, incoming, wire, parked, unacked, deaths, routed, delivered, returned>>
    BY <1>8, TtlFacts
  <2>2. \A n \in Msgs : Undelivered(n)' => Undelivered(n)
    BY <2>1 DEF Undelivered
  <2> QED BY <1>5, <2>1, <2>2 DEF Open
<1>9. CASE Crash
  <2>1. /\ UNCHANGED <<mode, main, parked, unacked, deaths, routed, delivered, returned>>
        /\ incoming' = {} /\ \A t \in Subs : wire'[t] = <<>>
    BY <1>9, CrashFacts
  <2>2. \A n \in Msgs : Undelivered(n)' => Undelivered(n)
    BY <2>1 DEF Undelivered
  <2> QED BY <1>5, <2>1, <2>2
<1>10. ASSUME NEW r \in incoming, NEW how \in Settlements, Settle(r, how) PROVE Goal
  <2>1. /\ UNCHANGED <<mode, pc, main, parked, unacked, deaths, routed, delivered, returned>>
        /\ \A q \in incoming' : Open(q)' => q \in incoming /\ Open(q)
    BY <1>10, SettleFacts DEF Settle, queueVars, historyVars
  <2>r. Retry
    BY <1>m, <2>1
  <2>2. \A n \in Msgs : Undelivered(n)' => Undelivered(n)
    BY <2>1 DEF Undelivered
  <2>3. ASSUME NEW t \in Subs PROVE Writing(t)'
    <3>1. CASE wire'[t] = wire[t]
      BY <1>a, <2>r, <2>1, <3>1 DEF Writing
    <3>2. CASE t = r.sub /\ Open(r) /\ unacked[t] = r.msg /\ wire'[t] = Settlement(r, how)
      <4> DEFINE w == Settlement(r, how)
      <4>1. r.count = deaths[r.msg] + 1 /\ r.msg \in Msgs
        BY <1>a, <1>c, <2>r, <3>2
      <4>2. ~Spent(r) => deaths[r.msg] + 1 < MaxDeliveries
        BY <1>b, <4>1, RabbitAssumption DEF Spent
      <4>3. /\ Len(w) \in {1, 2} /\ DOMAIN w = 1 .. Len(w)
            /\ Len(w) = 1 => w[1].type # "requeue" /\ (w[1].type = "reject" => ~Spent(r))
            /\ Len(w) = 2 => w[1].type = "dead" /\ w[2].type = "giveup"
        BY <2>r, SettlementFacts
      <4>4. ASSUME NEW i \in DOMAIN w PROVE w[i].type # "requeue" /\ (w[i].type = "reject" => ~Spent(r))
        <5> HIDE DEF w
        <5>1. i = 1 \/ (i = 2 /\ Len(w) = 2)
          BY <4>3
        <5> QED BY <4>3, <5>1
      <4>5. unacked'[t] = r.msg /\ deaths' = deaths
        BY <2>1, <3>2
      <4> QED BY <3>2, <4>2, <4>4, <4>5 DEF Writing
    <3> QED BY <1>10, <3>1, <3>2, SettleFacts
  <2>4. Counting
    BY <1>a, <2>r, <2>1
  <2> QED BY <1>q, <2>r, <2>1, <2>2, <2>3, <2>4
<1>11. ASSUME NEW m \in Msgs, PublishWrite(m) PROVE Goal
  <2>1. UNCHANGED <<mode, incoming, wire, main, parked, unacked, deaths, routed, delivered, returned>>
    BY <1>11 DEF PublishWrite, queueVars, historyVars
  <2>2. \A t \in Subs : pc'[t] = pc[t]
    BY <1>11, RabbitAssumption DEF PublishWrite, Goto, Typed
  <2>3. \A q \in incoming' : Open(q)' => q \in incoming /\ Open(q)
    BY <1>c, <2>1, <2>2 DEF Open
  <2>4. \A n \in Msgs : Undelivered(n)' => Undelivered(n)
    BY <2>1 DEF Undelivered
  <2> QED BY <1>5, <2>1, <2>3, <2>4
<1>12. CASE Calling
  <2>1. \A q \in incoming' : Open(q)' => q \in incoming /\ Open(q)
    BY <1>c, <1>12 DEF Calling, Open, Handed
  <2>2. \A n \in Msgs : Undelivered(n)' => Undelivered(n)
    BY <1>12 DEF Calling, Undelivered
  <2> QED BY <1>5, <1>12, <2>1, <2>2 DEF Calling
<1> QED BY <1>1, <1>3, <1>4, <1>6, <1>7, <1>8, <1>9, <1>10, <1>11, <1>12, StepCases DEF Stepping

(* Poison messages: with a retry queue no message is tried more often than *)
(* maxDeliveries and the lost channels allow.  See AttemptsBounded.        *)
THEOREM AttemptSafety == Spec => []AttemptsBounded
<1>1. Init => Budget
  <2> SUFFICES ASSUME Init PROVE Budget
    OBVIOUS
  <2>1. LastDeath \in Nat
    BY RabbitAssumption DEF LastDeath
  <2>2. \A s \in Subs : wire[s] = <<>>
    BY DEF Init
  <2>3. \A s \in Subs : DOMAIN wire[s] = {}
    BY <2>2
  <2> QED BY <2>1, <2>3 DEF Init, Budget
<1>2. Typed /\ Budget => AttemptsBounded
  <2> SUFFICES ASSUME Typed, Budget, Retry, NEW m \in Msgs
               PROVE  delivered[m] <= returned[m] + (IF MaxDeliveries = 0 THEN 1 ELSE MaxDeliveries)
    BY DEF AttemptsBounded
  <2>1. delivered[m] \in Nat /\ returned[m] \in Nat /\ deaths[m] \in Nat
    BY DEF Typed
  <2>2. deaths[m] <= LastDeath /\ delivered[m] <= deaths[m] + returned[m] + 1
    BY DEF Budget
  <2> QED BY <2>1, <2>2, RabbitAssumption DEF LastDeath
<1> QED BY <1>1, <1>2, BudgetStep, TypedInvariant, SettledInvariant, PlacedInvariant, PTL DEF Spec
=============================================================================
