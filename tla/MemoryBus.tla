------------------------------ MODULE MemoryBus ------------------------------
(***************************************************************************)
(* InMemoryBus (typescript/src/adapters/in-memory-bus.ts): the maps of     *)
(* queues, the dedup set, the stream log and what one call does to all of  *)
(* them.  BusQueue studies one queue step by step; here a call, with the   *)
(* pump it ends in, is one step, as it is between two turns of the event   *)
(* loop, and messages travel from queue to queue.                          *)
(*                                                                         *)
(* The bus is a record and a call maps it to the bus it leaves behind:     *)
(*   queues   every BusQueue made so far, those dispose() forgot included  *)
(*   live     the indices the maps `queues` and `byTopic` still hold       *)
(*   dedup    seenDedupIds                                                 *)
(*   log      streamLog, of all topics                                     *)
(*   timers   armed timers                                                 *)
(*   sub      the queue of each consumer's Subscription, 0 before it       *)
(*   hist     history: the arguments of every publish()                    *)
(*   cleared  history: publishes before the last dispose()                 *)
(* A queue also has the history fields `gone` (messages acked, given up or *)
(* expired) and `since`, `first`, `last`: it was made after publish number *)
(* `since`, when the log began with `first`, and forgotten after `last`.   *)
(* A message is an index of hist; a copy is told by its queue and index.   *)
(* Topics and keys are sequences of words; empty means not given.          *)
(***************************************************************************)
EXTENDS TopicMatch, FiniteSets, SequencesExt

CONSTANTS Consumers   \* handlers

NewBus ==
  [queues |-> <<>>, live |-> {}, dedup |-> {}, log |-> <<>>, timers |-> {},
   sub |-> [c \in Consumers |-> 0], hist |-> <<>>, cleared |-> 0]

\* DEFAULT_MAX_DELIVERIES
DefaultMaxDeliveries == 3

DeadLetterAddress(topic) == Append(topic, "dlq")
ExpiryAddress(topic) == Append(topic, "expiry")

\* The arguments of a publish() without options.
Plain(topic, body, key) ==
  [topic |-> topic, body |-> body, key |-> IF key = <<>> THEN topic ELSE key, priority |-> 0,
   group |-> "", dedup |-> "", replyTo |-> <<>>, correlation |-> "", ttl |-> FALSE]

\* The options of a subscribe() that gives none.
Defaults ==
  [kind |-> "topic", pattern |-> <<>>, maxDeliveries |-> DefaultMaxDeliveries,
   deadLetter |-> FALSE, retry |-> FALSE, byGroup |-> FALSE, single |-> FALSE,
   replay |-> FALSE]
-----------------------------------------------------------------------------
(* One queue                                                               *)

Matches(q, key) ==
  q.opts.kind = "fanout" \/ q.opts.pattern = <<>> \/ TopicMatches(q.opts.pattern, key)

Busy(q) == {f.to : f \in ToSet(q.inflight)}

\* Mutant: always from the first on.
TurnFromFirst(q) == q.consumers

\* The consumers in the order the round robin tries them.
Turn(q) ==
  LET n == Len(q.consumers)
  IN  [i \in 1 .. n |-> q.consumers[((q.rr + i - 1) % n) + 1]]

\* How often the round robin moves: up to the first free one, or a whole turn.
Tries(q) ==
  LET free == {i \in DOMAIN q.consumers : Turn(q)[i] \notin Busy(q)}
  IN  IF free = {} THEN Len(q.consumers) ELSE CHOOSE i \in free : \A j \in free : i <= j

\* Highest priority, oldest first.
Best(q) ==
  CHOOSE i \in DOMAIN q.pending : \A j \in DOMAIN q.pending :
    \/ q.pending[i].priority > q.pending[j].priority
    \/ q.pending[i].priority = q.pending[j].priority /\ i <= j

\* Hand out pending[i] to c.
Hand(q, i, c) ==
  LET m == [q.pending[i] EXCEPT !.count = @ + 1]
  IN  [q EXCEPT !.pending = RemoveAt(@, i),
                !.inflight = Append(@, [m |-> m, to |-> c]),
                !.calls = Append(@, [at |-> m.at, count |-> m.count, to |-> c])]

\* nextGroupDelivery(), from pending[i] on.
RECURSIVE GroupFrom(_, _)
GroupFrom(q, i) ==
  IF i > Len(q.pending) THEN q
  ELSE LET g == q.pending[i].group
           owner == IF g \in DOMAIN q.pins /\ q.pins[g] \in ToSet(q.consumers) THEN {q.pins[g]} ELSE {}
           free == ToSet(q.consumers) \ Busy(q)
           moved == [q EXCEPT !.rr = @ + Tries(q), !.pins = Restrict(@, DOMAIN @ \ {g})]
           c == Turn(q)[Tries(q)]
       IN  IF owner # {}
           THEN IF owner \subseteq Busy(q) THEN GroupFrom(q, i + 1)
                ELSE Hand(q, i, CHOOSE o \in owner : TRUE)
           ELSE IF free = {} THEN GroupFrom(moved, i + 1)
           ELSE Hand([moved EXCEPT !.pins = (g :> c) @@ @], i, c)

\* nextConsumer() and nextPending()
Shared(q) ==
  IF q.opts.single
  THEN IF q.inflight = <<>> THEN Hand(q, Best(q), Head(q.consumers)) ELSE q
  ELSE LET moved == [q EXCEPT !.rr = @ + Tries(q)]
       IN  IF ToSet(q.consumers) \subseteq Busy(q) THEN moved
           ELSE Hand(moved, Best(q), Turn(q)[Tries(q)])

\* pump(): hand out until a round hands out nothing.
RECURSIVE Pump(_)
Pump(q) ==
  IF q.pending = <<>> \/ q.consumers = <<>> THEN q
  ELSE LET r == IF q.opts.byGroup THEN GroupFrom(q, 1) ELSE Shared(q)
       IN  IF r.inflight = q.inflight THEN r ELSE Pump(r)
-----------------------------------------------------------------------------
(* Calls                                                                   *)

Copy(hist, i) ==
  [at |-> i, count |-> 0, priority |-> hist[i].priority, group |-> hist[i].group]

Duplicate(b, e) == e.dedup # "" /\ e.dedup \in b.dedup

\* publish(topic, body, routingKey, options)
Publish(b, e) ==
  LET hist == Append(b.hist, e)
      to == {j \in b.live : b.queues[j].topic = e.topic /\ Matches(b.queues[j], e.key)}
  IN  IF Duplicate(b, e) THEN [b EXCEPT !.hist = hist]
      ELSE [b EXCEPT
              !.hist = hist,
              !.dedup = IF e.dedup = "" THEN @ ELSE @ \union {e.dedup},
              !.log = Append(@, Len(hist)),
              !.timers = IF e.ttl THEN @ \union {[for |-> "expiry", queue |-> j, at |-> Len(hist)] : j \in to}
                         ELSE @,
              !.queues = [j \in DOMAIN @ |->
                            IF j \in to
                            THEN Pump([@[j] EXCEPT !.pending = Append(@, Copy(hist, Len(hist)))])
                            ELSE @[j]]]

\* The retained messages of a topic that match, as a new queue is seeded with.
Seed(b, q) ==
  LET mine == SelectSeq(b.log, LAMBDA i : b.hist[i].topic = q.topic /\ Matches(q, b.hist[i].key))
  IN  [i \in DOMAIN mine |-> Copy(b.hist, mine[i])]

\* The queue of a topic and subscriber id, made with the options of the first.
QueueFor(b, topic, id, opts) ==
  LET old == {j \in b.live : b.queues[j].topic = topic /\ b.queues[j].id = id}
      fresh == [topic |-> topic, id |-> id, opts |-> opts, pending |-> <<>>, inflight |-> <<>>,
                consumers |-> <<>>, rr |-> 0, pins |-> <<>>, calls |-> <<>>,
                gone |-> <<>>, since |-> Len(b.hist), first |-> b.cleared + 1, last |-> -1]
      new == IF opts.replay THEN [fresh EXCEPT !.pending = Seed(b, fresh)] ELSE fresh
  IN  IF old # {} THEN [bus |-> b, at |-> CHOOSE j \in old : TRUE]
      ELSE [bus |-> [b EXCEPT !.queues = Append(@, new), !.live = @ \union {Len(b.queues) + 1}],
            at |-> Len(b.queues) + 1]

\* subscribe(topic, handler, options)
Subscribe(b, c, topic, id, opts) ==
  LET r == QueueFor(b, topic, id, opts)
  IN  [r.bus EXCEPT !.queues[r.at] = Pump([@ EXCEPT !.consumers = Append(@, c)]),
                    !.sub[c] = r.at]

\* Subscription.unsubscribe()
Unsubscribe(b, c) ==
  LET q == b.queues[b.sub[c]]
      his == SelectSeq(q.inflight, LAMBDA f : f.to = c)
      back == Reverse([i \in DOMAIN his |-> his[i].m])
  IN  [b EXCEPT !.queues[b.sub[c]] =
         Pump([q EXCEPT !.consumers = SelectSeq(@, LAMBDA x : x # c),
                        !.inflight = SelectSeq(@, LAMBDA f : f.to # c),
                        !.pending = back \o @])]

\* deadLetter(): the body goes to the dead-letter address, or nowhere.
DeadLetter(b, q, m) ==
  IF q.opts.deadLetter
  THEN Publish(b, Plain(DeadLetterAddress(q.topic), b.hist[m.at].body, b.hist[m.at].key))
  ELSE b

Spent(q, m) == m.count >= q.opts.maxDeliveries

\* settle(): ack(), nack(true) and nack(false) of message `at` by consumer c.
Settle(b, j, at, c, how) ==
  LET q == b.queues[j]
      held == SelectSeq(q.inflight, LAMBDA f : f.m.at = at /\ f.to = c)
      m == held[1].m
      freed == [b EXCEPT !.queues[j].inflight = SelectSeq(@, LAMBDA f : f.m.at # at)]
      ended == [freed EXCEPT !.queues[j].gone = Append(@, at)]
  IN  IF held = <<>> THEN b
      ELSE IF how = "ack" THEN [ended EXCEPT !.queues[j] = Pump(@)]
      ELSE IF how = "dead" \/ Spent(q, m) THEN [DeadLetter(ended, q, m) EXCEPT !.queues[j] = Pump(@)]
      ELSE IF q.opts.retry
           THEN [freed EXCEPT !.timers = @ \union {[for |-> "retry", queue |-> j, at |-> at, m |-> m]},
                              !.queues[j] = Pump(@)]
      ELSE [freed EXCEPT !.queues[j] = Pump([@ EXCEPT !.pending = Append(@, m)])]

\* The retry timer and the expiry timer.
Fire(b, t) ==
  LET q == b.queues[t.queue]
      done == [b EXCEPT !.timers = @ \ {t}]
      held == {f.m.at : f \in ToSet(q.inflight)} \union {m.at : m \in ToSet(q.pending)}
      gone == [done EXCEPT !.queues[t.queue].pending = SelectSeq(@, LAMBDA m : m.at # t.at),
                           !.queues[t.queue].inflight = SelectSeq(@, LAMBDA f : f.m.at # t.at),
                           !.queues[t.queue].gone = Append(@, t.at)]
  IN  CASE t.for = "retry" ->
             [done EXCEPT !.queues[t.queue] = Pump([@ EXCEPT !.pending = Append(@, t.m)])]
        [] t.for = "expiry" /\ t.at \in held ->
             Publish(gone, Plain(ExpiryAddress(q.topic), b.hist[t.at].body, b.hist[t.at].key))
        [] OTHER -> done

\* dispose(): the maps and the log are emptied; queues in use live on.
Dispose(b) ==
  [b EXCEPT !.live = {}, !.log = <<>>, !.cleared = Len(b.hist),
            !.queues = [j \in DOMAIN @ |-> IF j \in b.live THEN [@[j] EXCEPT !.last = Len(b.hist)] ELSE @[j]]]
=============================================================================
