----------------------------- MODULE MCScenarios -----------------------------
(* Every scenario, a client that calls in any order and disposes in        *)
(* between, and one subscription for every pattern and key of the bound.   *)
EXTENDS Scenarios

CONSTANTS Words,     \* words of routing keys
          MaxWords   \* bound: words in a pattern or key

UpTo(W, n) == UNION {[1 .. m -> W] : m \in 1 .. n}

Retried == [Defaults EXCEPT !.deadLetter = TRUE, !.retry = TRUE, !.maxDeliveries = 2]

Free ==
  << {Queue("a", "nack", Retried), Queue("b", "refuse", Defaults),
      Sub("c", T, "s", "ack", [Defaults EXCEPT !.replay = TRUE]),
      Pub([Plain(T, 1, <<>>) EXCEPT !.dedup = "d", !.ttl = TRUE]),
      Pub([Plain(T, 2, <<>>) EXCEPT !.dedup = "d"]), Stop("a"), [do |-> "dispose"]}, {Delay} >>

Route(p, k) ==
  << {Sub("a", T, "a", "ack", [Defaults EXCEPT !.pattern = p])}, {Pub(Plain(T, 1, k))} >>

MCScripts ==
  {[name |-> "S5", stages |-> PubSub], [name |-> "S6", stages |-> Fanout],
   [name |-> "S7a", stages |-> AckRemoves], [name |-> "S7b", stages |-> NackRequeues],
   [name |-> "S7c", stages |-> CrashRedelivers], [name |-> "S8", stages |-> PoisonDlq],
   [name |-> "S9", stages |-> CompetingConsumers], [name |-> "S10a", stages |-> WithoutStore],
   [name |-> "S10b", stages |-> WithStore], [name |-> "S10c", stages |-> StoreDown],
   [name |-> "S11", stages |-> RetryQueue], [name |-> "S12", stages |-> MessageGroups],
   [name |-> "S13", stages |-> BrokerNativeDedup], [name |-> "S14", stages |-> Priority],
   [name |-> "S15", stages |-> RequestReply], [name |-> "S16", stages |-> TtlExpiry],
   [name |-> "S17", stages |-> DurableSubscription], [name |-> "S18", stages |-> SingleActiveConsumer],
   [name |-> "S19", stages |-> StreamReplay], [name |-> "S20", stages |-> HandlerFaultIsolation],
   [name |-> "crashDemo", stages |-> ConsumerCrashDemo], [name |-> "poisonDemo", stages |-> PoisonDemo],
   [name |-> "free", stages |-> Free]}
  \union {[name |-> "route", stages |-> Route(p, k)] :
            p \in UpTo(Words \union {Star, Hash}, MaxWords), k \in UpTo(Words, MaxWords)}
=============================================================================
