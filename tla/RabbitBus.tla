------------------------------ MODULE RabbitBus ------------------------------
(***************************************************************************)
(* One subscriber queue of the RabbitMQ adapter, bus port                  *)
(* (typescript/src/adapters/rabbitmq.ts).                                  *)
(*                                                                         *)
(* The adapter runs on the Node event loop; every await is a point where   *)
(* other calls run, so the publish() and subscribe() calls are stepped     *)
(* from await to await.  What a channel is given to write reaches the      *)
(* broker later, in order, and is lost with the connection.  The broker    *)
(* (external) keeps the durable queues; a process that crashed starts      *)
(* again with empty caches.                                                *)
(***************************************************************************)
EXTENDS Integers, Sequences, FiniteSets, SequencesExt

CONSTANTS
  Msgs,           \* publish() calls, one message each
  Subs,           \* subscribe() calls with the same subscriberId
  None,           \* no message
  Modes,          \* the option sets the queue may be declared with
  MaxDeliveries,  \* options.maxDeliveries
  MaxDelivered,   \* bound: deliveries of one message
  MaxCrashes      \* bound: crashes of the process

(* deadLetter; retryDelayMs > 0; ttlMs; the messages with a ttlMs and those *)
(* whose IncomingMessage may be settled again.  Only a queue that handles  *)
(* expiry (ttlMs) gets messages with a ttlMs.                              *)
Mode == [deadLetter: BOOLEAN, retry: BOOLEAN, expiry: BOOLEAN,
         ttl: SUBSET Msgs, late: SUBSET Msgs]

ASSUME RabbitAssumption ==
  /\ Msgs \intersect Subs = {} /\ None \notin Msgs
  /\ Modes \subseteq Mode /\ \A md \in Modes : md.ttl # {} => md.expiry
  /\ MaxDeliveries \in Nat /\ MaxDelivered \in Nat /\ MaxCrashes \in Nat

VARIABLES
  mode,       \* the options of the subscribe() calls
  pc,         \* the await each call has come to
  half,       \* calls between the two assertExchange of ensureBusExchanges
  cached,     \* busTopology
  incoming,   \* IncomingMessage objects
  pubWire,    \* written to the shared channel, not yet read by the broker
  wire,       \* the same for the channel of each subscription
  exchanges,  \* broker: declared exchanges
  queues,     \* broker: declared queues, "bound" once the main one is bound
  main,       \* broker: the main queue
  parked,     \* broker: the retry queue
  unacked,    \* broker: the message each channel has not settled
  deaths,     \* broker: x-death (retry) or x-delivery-count (quorum)
  dlq,        \* broker: copies that reached the dead-letter exchange
  expired,    \* broker: messages that reached the expiry exchange
  routed,     \* history: messages the main queue has received
  left,       \* history: messages acked by a handler, or dropped
  delivered,  \* history: deliveries of each message
  returned,   \* history: times a closed channel gave the message back
  crashes     \* history: crashes so far

clientVars == <<pc, half, cached, incoming, pubWire>>
queueVars == <<main, parked, unacked, deaths, dlq, expired>>
historyVars == <<routed, left, delivered, returned>>
vars == <<mode, clientVars, wire, exchanges, queues, queueVars, historyVars, crashes>>

Retry == mode.deadLetter /\ mode.retry
Quorum == mode.deadLetter /\ ~mode.retry

Init ==
  /\ mode \in Modes
  /\ pc = [p \in Msgs \union Subs |-> "idle"]
  /\ half = {} /\ cached = {} /\ incoming = {} /\ pubWire = <<>>
  /\ wire = [s \in Subs |-> <<>>]
  /\ exchanges = {} /\ queues = {}
  /\ main = <<>> /\ parked = <<>>
  /\ unacked = [s \in Subs |-> None]
  /\ deaths = [m \in Msgs |-> 0] /\ dlq = [m \in Msgs |-> 0]
  /\ expired = {} /\ routed = {} /\ left = {}
  /\ delivered = [m \in Msgs |-> 0] /\ returned = [m \in Msgs |-> 0]
  /\ crashes = 0
-----------------------------------------------------------------------------
(* Topology and publishing                                                 *)

Goto(p, to) == pc' = [pc EXCEPT ![p] = to]

\* Mutant: the address is cached before its exchanges exist.
EnsureCachedEarly(p, addr, to) ==
  \/ /\ addr \in cached /\ p \notin half
     /\ Goto(p, to)
     /\ UNCHANGED <<half, cached, exchanges>>
  \/ /\ addr \notin cached /\ p \notin half
     /\ half' = half \union {p}
     /\ cached' = cached \union {addr}
     /\ exchanges' = exchanges \union {<<addr, "topic">>}
     /\ UNCHANGED pc
  \/ /\ p \in half
     /\ half' = half \ {p}
     /\ exchanges' = exchanges \union {<<addr, "fanout">>}
     /\ UNCHANGED cached
     /\ Goto(p, to)

\* Two assertExchange calls, unless some call has been through them before.
EnsureBusExchanges(p, addr, to) ==
  \/ /\ addr \in cached /\ p \notin half
     /\ Goto(p, to)
     /\ UNCHANGED <<half, cached, exchanges>>
  \/ /\ addr \notin cached /\ p \notin half
     /\ half' = half \union {p}
     /\ exchanges' = exchanges \union {<<addr, "topic">>}
     /\ UNCHANGED <<pc, cached>>
  \/ /\ p \in half
     /\ half' = half \ {p}
     /\ exchanges' = exchanges \union {<<addr, "fanout">>}
     /\ cached' = cached \union {addr}
     /\ Goto(p, to)

PublishEnsure(m) ==
  /\ pc[m] = "idle"
  /\ EnsureBusExchanges(m, "topic", "declared")
  /\ UNCHANGED <<mode, incoming, pubWire, wire, queues, queueVars, historyVars, crashes>>

\* The copies for the topic and the fanout exchange, as one: the queue gets
\* only one of them.  publish() is over.
PublishWrite(m) ==
  /\ pc[m] = "declared"
  /\ Goto(m, "done")
  /\ pubWire' = Append(pubWire, m)
  /\ UNCHANGED <<mode, half, cached, incoming, wire, exchanges, queues, queueVars,
                 historyVars, crashes>>

\* The broker routes to the queue, which is bound to one of the exchanges.
BrokerRoutes ==
  /\ pubWire # <<>>
  /\ pubWire' = Tail(pubWire)
  /\ IF "bound" \in queues
     THEN main' = Append(main, Head(pubWire)) /\ routed' = routed \union {Head(pubWire)}
     ELSE UNCHANGED <<main, routed>>
  /\ UNCHANGED <<mode, pc, half, cached, incoming, wire, exchanges, queues, parked,
                 unacked, deaths, dlq, expired, left, delivered, returned,
                 crashes>>
-----------------------------------------------------------------------------
(* subscribe(), from await to await                                        *)

SubscribeEnsure(s) ==
  /\ \/ pc[s] = "idle" /\ EnsureBusExchanges(s, "topic", "channel")
     \/ /\ pc[s] = "channel" /\ mode.deadLetter
        /\ EnsureBusExchanges(s, "dla", "retryQueue")
     \/ /\ pc[s] = "ttl" /\ mode.expiry
        /\ EnsureBusExchanges(s, "expiry", "queue")
  /\ UNCHANGED <<mode, incoming, pubWire, wire, queues, queueVars, historyVars, crashes>>

\* The branches of the options that are not set.
SubscribeSkip(s) ==
  /\ \/ pc[s] = "channel" /\ ~mode.deadLetter /\ Goto(s, "ttl")
     \/ pc[s] = "retryQueue" /\ ~Retry /\ Goto(s, "ttl")
     \/ pc[s] = "ttl" /\ ~mode.expiry /\ Goto(s, "queue")
  /\ UNCHANGED <<mode, half, cached, incoming, pubWire, wire, exchanges, queues,
                 queueVars, historyVars, crashes>>

\* assertQueue(retryQueue), assertQueue(queue), bindQueue, consume
SubscribeDeclare(s) ==
  /\ \/ /\ pc[s] = "retryQueue" /\ Retry
        /\ queues' = queues \union {"retry"} /\ Goto(s, "ttl")
     \/ pc[s] = "queue" /\ queues' = queues \union {"main"} /\ Goto(s, "bind")
     \/ pc[s] = "bind" /\ queues' = queues \union {"bound"} /\ Goto(s, "consume")
     \/ pc[s] = "consume" /\ UNCHANGED queues /\ Goto(s, "consuming")
  /\ UNCHANGED <<mode, half, cached, incoming, pubWire, wire, exchanges, queueVars,
                 historyVars, crashes>>

\* ch.close(): what was written before is still read by the broker.
Unsubscribe(s) ==
  /\ pc[s] = "consuming"
  /\ Goto(s, "closing")
  /\ UNCHANGED <<mode, half, cached, incoming, pubWire, wire, exchanges, queues,
                 queueVars, historyVars, crashes>>
-----------------------------------------------------------------------------
(* Deliveries and settlement                                               *)

\* The broker pushes to a channel that has settled everything (prefetch 1);
\* toIncoming works out the count.
Deliver(s) ==
  LET m == Head(main) IN
  /\ pc[s] = "consuming"
  /\ main # <<>> /\ unacked[s] = None /\ delivered[m] < MaxDelivered
  /\ main' = Tail(main)
  /\ unacked' = [unacked EXCEPT ![s] = m]
  /\ delivered' = [delivered EXCEPT ![m] = @ + 1]
  /\ incoming' = incoming \union
       {[msg |-> m, sub |-> s, count |-> deaths[m] + 1, settled |-> FALSE]}
  /\ UNCHANGED <<mode, pc, half, cached, pubWire, wire, exchanges, queues, parked,
                 deaths, dlq, expired, routed, left, returned, crashes>>

Frame(type, m) == [type |-> type, msg |-> m]

SpentLate(r) == r.count > MaxDeliveries  \* mutant: off by one
Spent(r) == r.count >= MaxDeliveries

GiveUpAckFirst(m) == <<Frame("giveup", m), Frame("dead", m)>>  \* mutant: swapped
GiveUp(m) == <<Frame("dead", m), Frame("giveup", m)>>

\* ack(), nack(false) and nack(true)
Settlement(r, how) ==
  IF how = "ack" THEN <<Frame("ack", r.msg)>>
  ELSE IF Retry /\ (how = "dead" \/ Spent(r)) THEN GiveUp(r.msg)
  ELSE IF Retry \/ how = "dead" THEN <<Frame("reject", r.msg)>>
  ELSE <<Frame("requeue", r.msg)>>

UnsettledAlways(r) == TRUE  \* mutant: no settled flag
Unsettled(r) == ~r.settled

\* By the handler, or by deliver() when the handler threw: nack(true).  A
\* channel that is closed takes no more frames.
Settle(r, how) ==
  /\ Unsettled(r)
  /\ incoming' = (incoming \ {r}) \union
       (IF r.msg \in mode.late THEN {[r EXCEPT !.settled = TRUE]} ELSE {})
  /\ wire' = IF pc[r.sub] = "consuming"
             THEN [wire EXCEPT ![r.sub] = @ \o Settlement(r, how)] ELSE wire
  /\ UNCHANGED <<mode, pc, half, cached, pubWire, exchanges, queues, queueVars,
                 historyVars, crashes>>
-----------------------------------------------------------------------------
(* The broker                                                              *)

\* x-dead-letter-exchange of the main queue; the expiry wiring comes last.
Dlx ==
  IF mode.expiry THEN "expiry" ELSE IF Retry THEN "retry"
  ELSE IF Quorum THEN "dlq" ELSE "none"

DeadLetter(m) ==
  \/ /\ Dlx = "retry"
     /\ parked' = Append(parked, m)
     /\ deaths' = [deaths EXCEPT ![m] = @ + 1]
     /\ UNCHANGED <<dlq, expired, left>>
  \/ /\ Dlx = "dlq"
     /\ dlq' = [dlq EXCEPT ![m] = @ + 1]
     /\ UNCHANGED <<parked, deaths, expired, left>>
  \/ /\ Dlx = "expiry"
     /\ expired' = expired \union {m}
     /\ UNCHANGED <<parked, deaths, dlq, left>>
  \/ /\ Dlx = "none"
     /\ left' = left \union {m}
     /\ UNCHANGED <<parked, deaths, dlq, expired>>

\* Back to the head of the queue; a quorum queue counts and has a limit.
PutBack(m) ==
  \/ /\ Quorum /\ deaths[m] >= MaxDeliveries
     /\ DeadLetter(m)
     /\ UNCHANGED main
  \/ /\ Quorum => deaths[m] < MaxDeliveries
     /\ main' = <<m>> \o main
     /\ deaths' = IF Quorum THEN [deaths EXCEPT ![m] = @ + 1] ELSE deaths
     /\ UNCHANGED <<parked, dlq, expired, left>>

BrokerReads(s) ==
  LET f == Head(wire[s])
      m == f.msg IN
  /\ wire[s] # <<>>
  /\ wire' = [wire EXCEPT ![s] = Tail(@)]
  /\ \/ /\ f.type = "ack"
        /\ left' = left \union {m}
        /\ UNCHANGED <<main, parked, deaths, dlq, expired>>
     \/ /\ f.type = "giveup"
        /\ UNCHANGED <<main, parked, deaths, dlq, expired, left>>
     \/ /\ f.type = "dead"
        /\ dlq' = [dlq EXCEPT ![m] = @ + 1]
        /\ UNCHANGED <<main, parked, deaths, expired, left>>
     \/ f.type = "reject" /\ DeadLetter(m) /\ UNCHANGED main
     \/ f.type = "requeue" /\ PutBack(m)
  /\ unacked' = IF f.type = "dead" THEN unacked ELSE [unacked EXCEPT ![s] = None]
  /\ UNCHANGED <<mode, clientVars, exchanges, queues, routed, delivered,
                 returned, crashes>>

\* A channel that was closed, or whose process died, gives back what it
\* has not settled.
CloseChannel(s) ==
  /\ pc[s] \in {"closing", "dead"} /\ wire[s] = <<>>
  /\ Goto(s, IF pc[s] = "dead" THEN "idle" ELSE "closed")
  /\ unacked' = [unacked EXCEPT ![s] = None]
  /\ \/ unacked[s] = None /\ UNCHANGED <<main, parked, deaths, dlq, expired, left, returned>>
     \/ /\ unacked[s] # None
        /\ PutBack(unacked[s])
        /\ returned' = [returned EXCEPT ![unacked[s]] = @ + 1]
  /\ UNCHANGED <<mode, half, cached, incoming, pubWire, wire, exchanges, queues,
                 routed, delivered, crashes>>

\* The retry queue's x-message-ttl: back to the main queue.
RetryElapses ==
  /\ parked # <<>>
  /\ parked' = Tail(parked)
  /\ main' = Append(main, Head(parked))
  /\ UNCHANGED <<mode, clientVars, wire, exchanges, queues, unacked, deaths, dlq,
                 expired, historyVars, crashes>>

\* The expiration of a message at the head of the queue.
TtlElapses ==
  /\ main # <<>> /\ Head(main) \in mode.ttl
  /\ main' = Tail(main)
  /\ DeadLetter(Head(main))
  /\ UNCHANGED <<mode, clientVars, wire, exchanges, queues, unacked, routed,
                 delivered, returned, crashes>>

\* The process dies with its connection and starts again: what the broker
\* had not read yet is lost, and it takes back the channels one by one.
Crash ==
  /\ crashes < MaxCrashes
  /\ crashes' = crashes + 1
  /\ pc' = [p \in Msgs \union Subs |->
             IF p \in Msgs THEN IF pc[p] = "done" THEN "done" ELSE "idle"
             ELSE IF pc[p] = "closed" THEN "closed"
             ELSE IF unacked[p] = None THEN "idle" ELSE "dead"]
  /\ half' = {} /\ cached' = {} /\ incoming' = {} /\ pubWire' = <<>>
  /\ wire' = [s \in Subs |-> <<>>]
  /\ UNCHANGED <<mode, exchanges, queues, queueVars, historyVars>>
-----------------------------------------------------------------------------
Settlements == {"ack", "dead", "requeue"}

Next ==
  \/ \E m \in Msgs : PublishEnsure(m) \/ PublishWrite(m)
  \/ \E s \in Subs :
       \/ SubscribeEnsure(s) \/ SubscribeSkip(s) \/ SubscribeDeclare(s)
       \/ Unsubscribe(s) \/ Deliver(s) \/ BrokerReads(s) \/ CloseChannel(s)
  \/ \E r \in incoming, how \in Settlements : Settle(r, how)
  \/ BrokerRoutes \/ RetryElapses \/ TtlElapses \/ Crash

Spec == Init /\ [][Next]_vars
-----------------------------------------------------------------------------
(* The cache of declared topics is never ahead of the broker: whatever two *)
(* calls interleave, nothing is written for an exchange the broker would   *)
(* not know when it reads it, which would close the channel.               *)
PublishesToDeclared ==
  /\ pubWire # <<>> => {<<"topic", "topic">>, <<"topic", "fanout">>} \subseteq exchanges
  /\ \A s \in Subs : (\E i \in DOMAIN wire[s] : wire[s][i].type = "dead")
       => <<"dla", "fanout">> \in exchanges
  /\ parked # <<>> => "retry" \in queues

Waiting(m) ==
  \/ m \in Range(main) \/ m \in Range(parked) \/ \E s \in Subs : unacked[s] = m

Ended(m) == m \in left \/ dlq[m] > 0 \/ m \in expired

(* At least once: a message the queue has taken is never lost, through     *)
(* settlements, retries, closed channels and crashes: it waits in exactly  *)
(* one place until a handler has acked (or, without dead-lettering,        *)
(* refused) it, or it has reached the dead-letter or the expiry address.   *)
NothingLost ==
  /\ IsInjective(main \o parked)
  /\ \A s \in Subs : unacked[s] # None =>
       /\ unacked[s] \notin Range(main \o parked)
       /\ \A t \in Subs : unacked[t] = unacked[s] => t = s
  /\ \A m \in routed : Waiting(m) \/ Ended(m)

(* Exactly one ending, unless a channel was lost between the dead-letter   *)
(* copy and the ack of the original: without that no message reaches the   *)
(* dead-letter address twice, or once and is also processed or delivered.  *)
OneEnding ==
  \A m \in Msgs :
    /\ dlq[m] <= 1 + returned[m]
    /\ returned[m] = 0 /\ dlq[m] > 0 =>
         m \notin left /\ m \notin Range(main) /\ m \notin Range(parked)

(* Settling twice is harmless: the broker never reads a settlement of a    *)
(* delivery that is already settled (it would close the channel), also     *)
(* when the message is out again on the same channel.                      *)
SettledOnce ==
  \A s \in Subs : \A i, j \in DOMAIN wire[s] :
    /\ wire[s][i].msg = unacked[s]
    /\ wire[s][i].type # "dead" /\ wire[s][j].type # "dead" => i = j

(* Poison messages (S11): with a retry queue a message is delivered at     *)
(* most maxDeliveries times, plus once for every lost channel.             *)
AttemptsBounded ==
  Retry => \A m \in Msgs :
    delivered[m] <= returned[m] + (IF MaxDeliveries = 0 THEN 1 ELSE MaxDeliveries)
=============================================================================
