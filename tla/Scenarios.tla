------------------------------ MODULE Scenarios ------------------------------
(***************************************************************************)
(* The bus scenarios S5-S20 (typescript/src/scenarios) and the scripted    *)
(* fault demos, run against the in-process bus, which is the executable    *)
(* specification of the adapters.  A scenario is a script of stages, a     *)
(* stage a set of calls made in any order (Promise.all), and handlers are  *)
(* told by what they do with a message.  The loop bounds of the scripts    *)
(* are cut down to Count.  The bus declares every capability, so the       *)
(* `unsupported` returns are never taken here.                             *)
(*                                                                         *)
(* Event loop: a timer fires only when no microtask is left and the script *)
(* waits in a delay or a waitUntil.  waitUntil polls from a timer (its     *)
(* first poll comes before the last call's messages reach a handler), and  *)
(* gives up only when nothing is left that could happen, since every time  *)
(* limit in the scripts is longer than the timers in play.                 *)
(***************************************************************************)
EXTENDS MemoryBus

CONSTANTS
  Scripts,   \* what may be run: records [name, stages]
  Count      \* bound: messages of a batch

VARIABLES
  bus,        \* InMemoryBus
  name,       \* the scenario
  script,     \* its stages still to come, the first partly done
  does,       \* what each handler does
  received,   \* received by all collectors, in the order of arrival
  running,    \* handlers that are in an await, with what they do next
  store,      \* InMemoryIdempotencyStore: keys seen
  processed,  \* processCount of S10
  verdict     \* ScenarioResult.status

vars == <<bus, name, script, does, received, running, store, processed, verdict>>

T == <<"t">>   \* the topic of a scenario

\* Bodies are numbers; these two stand for "poison-1" and "HIGH".
Poison == -1
High == -2

Sub(c, topic, id, handler, opts) ==
  [do |-> "subscribe", who |-> c, topic |-> topic, id |-> id, handler |-> handler, opts |-> opts]
Pub(e) == [do |-> "publish", e |-> e]
Say(body) == Pub(Plain(T, body, <<>>))
Stop(c) == [do |-> "stop", of |-> <<c>>]
\* waitUntil: for each pair, its collectors have received so many together.
Wait(need) == [do |-> "wait", need |-> need, must |-> TRUE, skip |-> 0]
Await(need) == [Wait(need) EXCEPT !.must = FALSE]
Delay == [do |-> "delay"]
Check(what) == [do |-> "check", what |-> what]

Each(n, Op(_)) == [i \in 1 .. n |-> {Op(i)}]
Queue(c, handler, opts) == Sub(c, T, "q", handler, opts)
-----------------------------------------------------------------------------
(* The scripts                                                             *)

PubSub ==
  LET on(c, pattern) == {Sub(c, T, c, "ack", [Defaults EXCEPT !.pattern = pattern])}
  IN  << on("a", <<"order", "created">>), on("b", <<"order", Hash>>),
         {Pub(Plain(T, 1, <<"order", "created">>))}, {Pub(Plain(T, 2, <<"order", "shipped">>))},
         {Wait({<<{"a"}, 1>>, <<{"b"}, 2>>})}, {Check("pubSub")}, {Stop("a")}, {Stop("b")} >>

Fanout ==
  LET subs == {"a", "b", "c"}
  IN  << {Sub(c, T, c, "ack", [Defaults EXCEPT !.kind = "fanout"]) : c \in subs},
         {Say(1)}, {Wait({<<{c}, 1>> : c \in subs})}, {Check("fanout")}, {Stop(c) : c \in subs} >>

AckRemoves ==
  << {Queue("a", "ack", Defaults)}, {Say(1)}, {Await({<<{"a"}, 1>>})}, {Delay},
     {Check("once")}, {Stop("a")} >>

NackRequeues ==
  << {Queue("a", "nackOnce", Defaults)}, {Say(1)}, {Wait({<<{"a"}, 2>>})},
     {Check("secondCount")}, {Stop("a")} >>

CrashRedelivers ==
  << {Queue("a", "never", Defaults)}, {Say(1)}, {Await({<<{"a"}, 1>>})}, {Stop("a")},
     {Queue("b", "ack", Defaults)}, {Wait({<<{"b"}, 1>>})}, {Check("done")}, {Stop("b")} >>

ConsumerCrashDemo ==
  << {Queue("a", "never", Defaults)}, {Say(1)}, {Wait({<<{"a"}, 1>>})}, {Stop("a")},
     {Queue("b", "ack", Defaults)}, {Wait({<<{"b"}, 1>>})}, {Stop("b")}, {Check("done")} >>

DlqWatch == Sub("b", DeadLetterAddress(T), "dlq", "ack", [Defaults EXCEPT !.kind = "fanout"])

PoisonDlq ==
  << {Queue("a", "nack", [Defaults EXCEPT !.deadLetter = TRUE])}, {DlqWatch}, {Say(1)},
     {Wait({<<{"b"}, 1>>})}, {Check("attempts")}, {Stop("a")}, {Stop("b")} >>

PoisonDemo ==
  << {Queue("a", "nack", [Defaults EXCEPT !.deadLetter = TRUE])}, {DlqWatch}, {Say(1)},
     {Wait({<<{"b"}, 1>>})}, {Stop("a")}, {Stop("b")}, {Check("done")} >>

CompetingConsumers ==
  << {Queue("a", "ack", Defaults)}, {Queue("b", "ack", Defaults)} >>
  \o Each(Count, Say)
  \o << {Wait({<<{"a", "b"}, Count>>})}, {Check("shared")}, {Stop("a")}, {Stop("b")} >>

\* S10: two consumers, the first dropping without an ack.
Idempotent(first, second, what) ==
  << {Queue("a", first, Defaults)}, {Say(1)}, {Await({<<{"a"}, 1>>})}, {Stop("a")},
     {Queue("b", second, Defaults)}, {Wait({<<{"b"}, 1>>})}, {Stop("b")}, {Check(what)} >>
WithoutStore == Idempotent("countNever", "countAck", "twice")
WithStore == Idempotent("markNever", "markAck", "one")
StoreDown ==
  << {Queue("a", "storeDown", Defaults)}, {Say(1)}, {Wait({<<{"a"}, 1>>})}, {Delay},
     {Check("one")}, {Stop("a")} >>

RetryQueue ==
  << {Queue("a", "poison", [Defaults EXCEPT !.deadLetter = TRUE, !.retry = TRUE])}, {DlqWatch},
     {Say(1)}, {Say(Poison)} >>
  \o [i \in 1 .. Count - 1 |-> {Say(i + 1)}]
  \o << {[Wait({<<{"a"}, Count>>, <<{"b"}, 1>>}) EXCEPT !.skip = Poison]}, {Check("unblocked")}, {Stop("a")}, {Stop("b")} >>

MessageGroups ==
  LET opts == [Defaults EXCEPT !.byGroup = TRUE]
      in(g, body) == {Pub([Plain(T, body, <<>>) EXCEPT !.group = g])}
  IN  << {Queue("a", "ack", opts)}, {Queue("b", "ack", opts)} >>
      \o FlattenSeq([i \in 1 .. Count |-> <<in("odd", 2 * i - 1), in("even", 2 * i)>>])
      \o << {Wait({<<{"a", "b"}, 2 * Count>>})}, {Check("groups")}, {Stop("a")}, {Stop("b")} >>

BrokerNativeDedup ==
  LET dup == {Pub([Plain(T, 1, <<>>) EXCEPT !.dedup = "d"])}
  IN  << {Queue("a", "ack", Defaults)}, dup, dup, {Wait({<<{"a"}, 1>>})}, {Delay},
         {Check("once")}, {Stop("a")} >>

Priority ==
  << {Queue("a", "slow", Defaults)} >>
  \o [i \in 1 .. Count |-> {Pub([Plain(T, i, <<>>) EXCEPT !.priority = 1])}]
  \o << {Pub([Plain(T, High, <<>>) EXCEPT !.priority = 9])},
        {Wait({<<{"a"}, Count + 1>>})}, {[do |-> "settled"]}, {Check("overtakes")}, {Stop("a")} >>

RequestReply ==
  LET reply == <<"reply">>
  IN  << {Queue("a", "echo", Defaults)}, {Sub("b", reply, "r", "ack", Defaults)},
         {Pub([Plain(T, 1, <<>>) EXCEPT !.replyTo = reply, !.correlation = "corr"])},
         {Wait({<<{"b"}, 1>>})}, {Check("reply")}, {Stop("a")}, {Stop("b")} >>

TtlExpiry ==
  << {Queue("a", "ack", Defaults)}, {Stop("a")},
     {Sub("b", ExpiryAddress(T), "x", "ack", [Defaults EXCEPT !.kind = "fanout"])},
     {Pub([Plain(T, 1, <<>>) EXCEPT !.ttl = TRUE])}, {Wait({<<{"b"}, 1>>})},
     {Check("expired")}, {Stop("b")} >>

DurableSubscription ==
  << {Queue("a", "ack", Defaults)}, {Stop("a")}, {Delay} >> \o Each(Count, Say)
  \o << {Delay}, {Queue("b", "ack", Defaults)}, {Wait({<<{"b"}, Count>>})}, {Check("allOfB")},
        {Stop("b")} >>

\* unsubscribe whichever was active
StopActive == [do |-> "stop", of |-> <<"a", "b">>]

SingleActiveConsumer ==
  LET opts == [Defaults EXCEPT !.single = TRUE]
  IN  << {Queue("a", "ack", opts)}, {Queue("b", "ack", opts)} >> \o Each(Count, Say)
      \o << {Wait({<<{"a", "b"}, Count>>})}, {Delay}, {Check("oneActive")}, {StopActive}, {Delay} >>
      \o [i \in 1 .. Count |-> {Say(Count + i)}]
      \o << {Wait({<<{"a", "b"}, 2 * Count>>})}, {Delay}, {Check("takeOver")}, {Stop("a")}, {Stop("b")} >>

StreamReplay ==
  LET opts == [Defaults EXCEPT !.replay = TRUE]
  IN  << {Sub("a", T, "a", "ack", opts)}, {Delay} >> \o Each(Count, Say)
      \o << {Wait({<<{"a"}, Count>>})}, {Stop("a")}, {Delay}, {Sub("b", T, "b", "ack", opts)},
            {Wait({<<{"b"}, Count>>})}, {Check("allOfB")}, {Stop("b")} >>

HandlerFaultIsolation ==
  << {Queue("a", "throwOnce", Defaults)} >> \o Each(Count, Say)
  \o << {Wait({<<{"a"}, 2 * Count>>})}, {Check("recovered")}, {Stop("a")} >>
-----------------------------------------------------------------------------
(* The driver                                                              *)

By(c) == SelectSeq(received, LAMBDA r : r.by = c)
Bodies(c) == [i \in DOMAIN By(c) |-> By(c)[i].body]

\* The microtasks are done.
Quiet == (\A j \in DOMAIN bus.queues : bus.queues[j].calls = <<>>) /\ \A r \in running : r.timer

\* The script is in a delay or a waitUntil, or over.
Blocked == script # <<>> => \A op \in Head(script) : op.do \in {"wait", "delay", "settled"}

Satisfied(op) ==
  \A n \in op.need :
    n[2] <= Cardinality({i \in DOMAIN received :
              received[i].by \in n[1] /\ ~(received[i].by = "a" /\ received[i].body = op.skip)})

\* The busier of the two consumers, the first if they are even.
Chosen(of) == IF Len(of) = 2 /\ Len(By(of[2])) > Len(By(of[1])) THEN of[2] ELSE of[1]

Increasing(s) == \A i \in 1 .. Len(s) - 1 : s[i] < s[i + 1]
All(n) == 1 .. n
OneIsIdle == By("a") = <<>> \/ By("b") = <<>>

\* The assertions the scripts make.
Holds(what) ==
  CASE what = "pubSub" -> Bodies("a") = <<1>>
    [] what = "fanout" -> \A c \in {"a", "b", "c"} : Len(By(c)) = 1
    [] what = "once" -> Len(By("a")) = 1
    [] what = "secondCount" -> By("a")[2].count = 2
    [] what = "attempts" -> Len(By("a")) \in 2 .. DefaultMaxDeliveries + 1
    [] what = "shared" -> /\ Len(received) = Count /\ {received[i].body : i \in All(Count)} = All(Count)
                          /\ By("a") # <<>> /\ By("b") # <<>>
    [] what = "twice" -> processed = 2
    [] what = "one" -> processed = 1
    [] what = "unblocked" ->
         LET at(b, c) == {i \in DOMAIN received : received[i].body = b /\ received[i].by = c}
         IN  /\ \A b \in All(Count) : Cardinality(at(b, "a")) = 1
             /\ Cardinality(at(Poison, "a")) \in 2 .. DefaultMaxDeliveries + 1
             /\ \A b \in All(Count) : \A i \in at(b, "a"), d \in at(Poison, "b") : i < d
    [] what = "groups" ->
         \A g \in {0, 1} : \E c \in {"a", "b"} :
           SelectSeq(Bodies(c), LAMBDA x : x % 2 = g) = [i \in All(Count) |-> 2 * i - g]
    [] what = "overtakes" -> High \in {Bodies("a")[1], Bodies("a")[2]}
    [] what = "reply" -> By("b")[1].body = -1 /\ By("b")[1].correlation = "corr"
    [] what = "expired" -> Bodies("b")[1] = 1
    [] what = "allOfB" -> All(Count) \subseteq ToSet(Bodies("b"))
    [] what = "oneActive" -> OneIsIdle
    [] what = "takeOver" ->
         /\ ToSet(Bodies("a")) \union ToSet(Bodies("b")) = All(2 * Count)
         /\ Increasing(Bodies("a")) /\ Increasing(Bodies("b"))
         /\ ~OneIsIdle /\ \E x \in ToSet(Bodies("b")) : x > Count
    [] what = "recovered" -> \A b \in All(Count) : Len(SelectSeq(Bodies("a"), LAMBDA x : x = b)) >= 2
    [] OTHER -> TRUE

Init ==
  \E s \in Scripts :
    /\ name = s.name /\ script = s.stages
    /\ bus = NewBus /\ does = [c \in Consumers |-> "ack"]
    /\ received = <<>> /\ running = {} /\ store = {} /\ processed = 0
    /\ verdict = "none"

\* One call of the script is done.
Done(op) ==
  script' = IF Head(script) = {op} THEN Tail(script)
            ELSE <<Head(script) \ {op}>> \o Tail(script)

Call(op) ==
  /\ \/ op.do = "subscribe" /\ bus' = Subscribe(bus, op.who, op.topic, op.id, op.opts)
        /\ does' = [does EXCEPT ![op.who] = op.handler]
     \/ op.do = "publish" /\ bus' = Publish(bus, op.e) /\ UNCHANGED does
     \/ /\ op.do = "stop" /\ bus.sub[Chosen(op.of)] # 0
        /\ bus' = Unsubscribe(bus, Chosen(op.of)) /\ UNCHANGED does
     \/ op.do = "dispose" /\ bus' = Dispose(bus) /\ UNCHANGED does
  /\ Done(op)
  /\ UNCHANGED <<name, received, running, store, processed, verdict>>

\* delay and waitUntil, its time-out included
Waits(op) ==
  /\ \/ op.do = "delay" /\ Quiet /\ UNCHANGED verdict
     \/ op.do = "settled" /\ Quiet /\ running = {} /\ UNCHANGED verdict
     \/ op.do = "wait" /\ Quiet /\ Satisfied(op) /\ UNCHANGED verdict
     \/ /\ op.do = "wait" /\ Quiet /\ ~Satisfied(op)
        /\ bus.timers = {} /\ running = {}
        /\ verdict' = IF op.must THEN "fail" ELSE verdict
  /\ Done(op)
  /\ UNCHANGED <<bus, name, does, received, running, store, processed>>

\* The last check passes the scenario, unless something failed before.
Asserts(op) ==
  /\ op.do = "check"
  /\ verdict' = IF verdict = "fail" \/ ~Holds(op.what) THEN "fail"
                ELSE IF op.what = "oneActive" THEN verdict ELSE "pass"
  /\ Done(op)
  /\ UNCHANGED <<bus, name, does, received, running, store, processed>>

Step == script # <<>> /\ \E op \in Head(script) : Call(op) \/ Waits(op) \/ Asserts(op)
-----------------------------------------------------------------------------
(* Handlers                                                                *)

Times(c, body) == Len(SelectSeq(Bodies(c), LAMBDA x : x = body))

\* What handler c does with a message before its first await.
AtOnce(c, body) ==
  CASE does[c] \in {"ack", "countAck"} -> "ack"
    [] does[c] = "nack" -> "requeue"
    [] does[c] = "refuse" -> "dead"
    [] does[c] = "nackOnce" -> IF By(c) = <<>> THEN "requeue" ELSE "ack"
    [] does[c] = "poison" -> IF body = Poison THEN "requeue" ELSE "ack"
    [] does[c] = "throwOnce" -> IF Times(c, body) = 0 THEN "await" ELSE "ack"
    [] does[c] \in {"slow", "echo", "markNever", "markAck", "storeDown"} -> "await"
    [] OTHER -> "nothing"

\* And after it.
Later(c, body) ==
  LET new == does[c] = "storeDown" \/ (does[c] \in {"markNever", "markAck"} /\ body \notin store)
  IN  [timer |-> does[c] = "slow",
       counts |-> new,
       how |-> CASE does[c] = "throwOnce" -> "requeue"
                 [] does[c] = "markNever" /\ new -> "nothing"
                 [] OTHER -> "ack"]

SettleAs(b, j, at, c, how) == IF how \in {"ack", "requeue", "dead"} THEN Settle(b, j, at, c, how) ELSE b

\* The microtask of a delivery: the handler, up to its first await.
Invoke(j) ==
  /\ bus.queues[j].calls # <<>>
  /\ LET m == Head(bus.queues[j].calls)
         e == bus.hist[m.at]
         c == m.to
         called == [bus EXCEPT !.queues[j].calls = Tail(@)]
         later == [queue |-> j, at |-> m.at, to |-> c] @@ Later(c, e.body)
     IN  /\ received' = Append(received, [by |-> c, body |-> e.body, count |-> m.count,
                                          correlation |-> e.correlation])
         /\ bus' = IF does[c] = "echo" /\ e.replyTo # <<>>
                   THEN Publish(called, [Plain(e.replyTo, -e.body, <<>>) EXCEPT !.correlation = e.correlation])
                   ELSE SettleAs(called, j, m.at, c, AtOnce(c, e.body))
         /\ running' = IF AtOnce(c, e.body) = "await" THEN running \union {later} ELSE running
         /\ store' = IF does[c] \in {"markNever", "markAck"} THEN store \union {e.body} ELSE store
         /\ processed' = IF does[c] \in {"countNever", "countAck"} THEN processed + 1 ELSE processed
  /\ UNCHANGED <<name, script, does, verdict>>

\* The rest of a handler that was in an await.
Finish(r) ==
  /\ r \in running /\ (r.timer => Quiet /\ Blocked)
  /\ running' = running \ {r}
  /\ bus' = SettleAs(bus, r.queue, r.at, r.to, r.how)
  /\ processed' = IF r.counts THEN processed + 1 ELSE processed
  /\ UNCHANGED <<name, script, does, received, store, verdict>>

TimerFires(t) ==
  /\ t \in bus.timers /\ Quiet /\ Blocked
  /\ bus' = Fire(bus, t)
  /\ UNCHANGED <<name, script, does, received, running, store, processed, verdict>>

Next ==
  \/ Step
  \/ \E j \in DOMAIN bus.queues : Invoke(j)
  \/ \E r \in running : Finish(r)
  \/ \E t \in bus.timers : TimerFires(t)

Spec == Init /\ [][Next]_vars

\* The event loop goes on as long as there is something to do.
FairSpec == Spec /\ WF_vars(Next)
-----------------------------------------------------------------------------
(* Properties                                                              *)

Routes(q, key) == q.opts.kind = "fanout" \/ q.opts.pattern = <<>> \/ Binding(q.opts.pattern, key)

\* What a queue ought to have been given: the publishes of its topic that its
\* binding takes, repeats of a dedupId left out, since it was made or, for a
\* replay, since the log began, until the bus was disposed.
Owed(q) ==
  {i \in DOMAIN bus.hist :
     /\ bus.hist[i].topic = q.topic /\ Routes(q, bus.hist[i].key)
     /\ i >= (IF q.opts.replay THEN q.first ELSE q.since + 1)
     /\ q.last >= 0 => i <= q.last
     /\ ~\E h \in 1 .. i - 1 : bus.hist[h].dedup = bus.hist[i].dedup /\ bus.hist[i].dedup # ""}

\* What it has: waiting, with a consumer, parked for retry, or done with.
Kept(j) ==
  LET q == bus.queues[j]
      parked == {t \in bus.timers : t.for = "retry" /\ t.queue = j}
  IN  [i \in DOMAIN q.pending |-> q.pending[i].at] \o [i \in DOMAIN q.inflight |-> q.inflight[i].m.at]
      \o q.gone \o SetToSeq({t.at : t \in parked})

(* Every queue has exactly what it is owed, each message once and in one   *)
(* place, whichever other queues, consumers, retries, dead letters,        *)
(* replays and dispose() there are (publish, subscribe, settle, dispose).  *)
EachHasItsOwn ==
  \A j \in DOMAIN bus.queues :
    ToSet(Kept(j)) = Owed(bus.queues[j]) /\ Len(Kept(j)) = Cardinality(Owed(bus.queues[j]))

(* Where the pattern has no `#`, the Artemis selector (toSelector) lets    *)
(* through whatever this bus routes to the queue; without any wildcard it  *)
(* lets through just that, as the SSE bindings user.<id>, org.<id> need.   *)
SelectorLosesNothing ==
  \A j \in DOMAIN bus.queues, i \in DOMAIN bus.hist :
    LET p == bus.queues[j].opts.pattern
        k == bus.hist[i].key
    IN  p # <<>> /\ Hash \notin ToSet(p) =>
          /\ TopicMatches(p, k) => SelectorMatches(p, k)
          /\ Star \notin ToSet(p) => (SelectorMatches(p, k) <=> TopicMatches(p, k))

(* Every scenario passes in the end, in whatever order microtasks and      *)
(* timers run (BusScenario.run on the in-process adapter).                 *)
EveryScenarioPasses == name \notin {"free", "route"} => <>(verdict = "pass")
=============================================================================
