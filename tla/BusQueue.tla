------------------------------ MODULE BusQueue ------------------------------
(***************************************************************************)
(* One subscriber queue of the in-process bus                              *)
(* (typescript/src/adapters/in-memory-bus.ts, class BusQueue and the       *)
(* methods of InMemoryBus that touch one queue).                           *)
(*                                                                         *)
(* The code runs on the Node event loop: a call runs to completion, and    *)
(* interleaving happens between calls, microtasks and timers.  Each        *)
(* operation is one action.  The only loop, pump(), is unrolled: an        *)
(* operation that calls pump() sets `pumping`, and while `pumping` holds   *)
(* the iterations of the loop are the only steps, so no other call, timer  *)
(* or handler runs inside it.                                              *)
(*                                                                         *)
(* A message body is a model value.  Publishing to another address (the    *)
(* dead-letter or the expiry address) is, seen from this queue, the        *)
(* message leaving it; it is recorded in `gone`.                           *)
(***************************************************************************)
EXTENDS Integers, Sequences, FiniteSets, SequencesExt

CONSTANTS
  Msgs,              \* BusMessage objects that may be put on this queue
  Handlers,          \* AckHandler functions that may subscribe
  NoHandler,         \* "undefined" where an AckHandler is expected
  Groups,            \* groupId values ('' for a message without one)
  GroupOf,           \* BusMessage.groupId ?? ''
  PriorityOf,        \* BusMessage.priority ?? 0
  Setups,            \* the ways the queue is created and used
  RRPeriod,          \* rr is kept modulo this multiple of every consumer count
  MaxAttach          \* bound: subscribe() calls of each handler

(* SubscribeOptions of the subscribe() that creates the queue (later ones  *)
(* are ignored), and what its users do: the messages they publish, those   *)
(* with a ttlMs >= 0, those whose IncomingMessage may be settled again.    *)
Setup == [maxDeliveries: Nat, deadLetter: BOOLEAN, retryDelay: BOOLEAN,
          partitionByGroup: BOOLEAN, singleActive: BOOLEAN,
          msgs: SUBSET Msgs, ttl: SUBSET Msgs, late: SUBSET Msgs]

ASSUME HandlersAssumption == NoHandler \notin Handlers
ASSUME MessagesAssumption ==
  /\ GroupOf \in [Msgs -> Groups]
  /\ PriorityOf \in [Msgs -> Int]
ASSUME OptionsAssumption ==
  /\ Setups \subseteq Setup
  /\ MaxAttach \in [Handlers -> Nat]
  /\ RRPeriod \in Nat \ {0}

VARIABLES
  setup,          \* the Setup of this queue
  pending,        \* BusQueue.pending
  inflight,       \* BusQueue.inflight: the consumer holding each message
  consumers,      \* BusQueue.consumers
  rr,             \* BusQueue.rr, modulo RRPeriod
  affinity,       \* BusQueue.groupAffinity
  deliveryCount,  \* BusMessage.deliveryCount
  parked,         \* messages whose retry timer is armed
  ttlArmed,       \* messages whose expiry timer is armed
  incoming,       \* IncomingMessage objects still reachable by a handler
  pumping,        \* the call stack is inside pump()
  published,      \* history: the messages in publish order
  gone,           \* history: how each message left the queue
  returned,       \* history: times an unsubscribe took the message back
  attached        \* history: subscribe() calls of each handler

queueVars == <<pending, inflight, consumers, rr, affinity, deliveryCount>>
timerVars == <<parked, ttlArmed>>
restVars == <<setup, published, gone, returned, attached>>
vars == <<queueVars, timerVars, incoming, pumping, restVars>>

MaxDeliveries == setup.maxDeliveries
DeadLetter == setup.deadLetter
RetryDelay == setup.retryDelay  \* retryDelayMs && retryDelayMs > 0
PartitionByGroup == setup.partitionByGroup
SingleActive == setup.singleActive

Exit == {"no", "acked", "dead", "dropped", "expired"}
Incoming == [msg: Msgs, count: Nat, consumer: Handlers,
             invoked: BOOLEAN, settled: BOOLEAN]

Init ==
  /\ setup \in Setups
  /\ pending = <<>>
  /\ inflight = [m \in Msgs |-> NoHandler]
  /\ consumers = <<>>
  /\ rr = 0
  /\ affinity = [g \in Groups |-> NoHandler]
  /\ deliveryCount = [m \in Msgs |-> 0]
  /\ parked = {} /\ ttlArmed = {} /\ incoming = {}
  /\ pumping = FALSE
  /\ published = <<>>
  /\ gone = [m \in Msgs |-> "no"]
  /\ returned = [m \in Msgs |-> 0]
  /\ attached = [h \in Handlers |-> 0]
-----------------------------------------------------------------------------
(* Who can be handed a message, and which message                          *)

\* i = s.indexOf(e)
FirstAt(s, e, i) == s[i] = e /\ \A j \in 1 .. i - 1 : s[j] # e

\* new Set(this.inflight.values())
Busy == {inflight[m] : m \in Msgs} \ {NoHandler}

\* Mutant: rr % (consumers.length + 1) reads past the end of the array.
RoundRobinPastEnd(k) ==
  LET n == (rr + k) % (Len(consumers) + 1)
  IN  IF n = Len(consumers) THEN NoHandler ELSE consumers[n + 1]

\* this.consumers[this.rr % this.consumers.length], k iterations further on
RoundRobin(k) == consumers[((rr + k) % Len(consumers)) + 1]

Advance(k) == (rr + k) % RRPeriod

\* Mutant: the scan does not look at what the consumer holds.
FirstIgnoringBusy(k) == k = 0 /\ consumers # <<>>

\* The scan of nextConsumer / pickFreeConsumer stops at iteration k.
FirstFree(k) ==
  /\ k \in 0 .. Len(consumers) - 1
  /\ RoundRobin(k) \notin Busy
  /\ \A j \in 0 .. k - 1 : RoundRobin(j) \in Busy

\* this.consumers[0]
ActiveNewest == consumers[Len(consumers)]  \* mutant: the newest one
Active == consumers[1]

NobodyFree == \A h \in Range(consumers) : h \in Busy

\* Mutant: `>=` where nextPending has `>`, so the newest of equals wins.
NextPendingNewest(i) ==
  /\ i \in DOMAIN pending
  /\ \A j \in DOMAIN pending :
       /\ PriorityOf[pending[j]] <= PriorityOf[pending[i]]
       /\ j > i => PriorityOf[pending[j]] < PriorityOf[pending[i]]

\* nextPending: the highest priority, first come first served among equals.
NextPending(i) ==
  /\ i \in DOMAIN pending
  /\ \A j \in DOMAIN pending :
       /\ PriorityOf[pending[j]] <= PriorityOf[pending[i]]
       /\ j < i => PriorityOf[pending[j]] < PriorityOf[pending[i]]

\* The pinned consumer of a group; a pin to a departed consumer is void.
Owner(g) == IF affinity[g] \in Range(consumers) THEN affinity[g] ELSE NoHandler

\* Mutant: a pinned group does not wait for its consumer.
GroupReadyBusy(i) == ~NobodyFree

\* nextGroupDelivery can hand pending[i] to somebody.
GroupReady(i) ==
  LET o == Owner(GroupOf[pending[i]])
  IN  IF o = NoHandler THEN ~NobodyFree ELSE o \notin Busy

\* The scan of nextGroupDelivery stops at index i.
NextGroup(i) ==
  /\ i \in DOMAIN pending
  /\ GroupReady(i)
  /\ \A j \in DOMAIN pending : j < i => ~GroupReady(j)

\* pump() finds a message and a consumer for it.
CanDeliver ==
  /\ pending # <<>>
  /\ consumers # <<>>
  /\ IF PartitionByGroup THEN \E i \in DOMAIN pending : GroupReady(i)
     ELSE IF SingleActive THEN Busy = {}
     ELSE ~NobodyFree
-----------------------------------------------------------------------------
(* pump(), one iteration at a time                                         *)

\* splice the message out, count the attempt, put it in flight and queue the
\* microtask that will invoke the handler.
Deliver(i, c) ==
  LET m == pending[i] IN
  /\ pending' = RemoveAt(pending, i)
  /\ deliveryCount' = [deliveryCount EXCEPT ![m] = @ + 1]
  /\ inflight' = [inflight EXCEPT ![m] = c]
  /\ incoming' = incoming \union
       {[msg |-> m, count |-> deliveryCount[m] + 1, consumer |-> c,
         invoked |-> FALSE, settled |-> FALSE]}

\* nextConsumer() with singleActiveConsumer, then nextPending().
PumpActive ==
  /\ pumping /\ pending # <<>> /\ consumers # <<>>
  /\ ~PartitionByGroup /\ SingleActive
  /\ Busy = {}
  /\ \E i \in DOMAIN pending : NextPending(i) /\ Deliver(i, Active)
  /\ UNCHANGED <<consumers, rr, affinity, timerVars, pumping, restVars>>

\* nextConsumer() round robin, then nextPending().
PumpShared ==
  /\ pumping /\ pending # <<>> /\ consumers # <<>>
  /\ ~PartitionByGroup /\ ~SingleActive
  /\ \E k \in 0 .. Len(consumers) - 1, i \in DOMAIN pending :
       /\ FirstFree(k) /\ NextPending(i)
       /\ Deliver(i, RoundRobin(k))
       /\ rr' = Advance(k + 1)
  /\ UNCHANGED <<consumers, affinity, timerVars, pumping, restVars>>

\* nextGroupDelivery() finds the group's own consumer free.
PumpPinned ==
  /\ pumping /\ pending # <<>> /\ consumers # <<>>
  /\ PartitionByGroup
  /\ \E i \in DOMAIN pending :
       LET o == Owner(GroupOf[pending[i]]) IN
       /\ NextGroup(i) /\ o # NoHandler
       /\ Deliver(i, o)
  /\ UNCHANGED <<consumers, rr, affinity, timerVars, pumping, restVars>>

\* nextGroupDelivery() pins an ownerless group to the next free consumer.
PumpPin ==
  /\ pumping /\ pending # <<>> /\ consumers # <<>>
  /\ PartitionByGroup
  /\ \E i \in DOMAIN pending, k \in 0 .. Len(consumers) - 1 :
       LET g == GroupOf[pending[i]] IN
       /\ NextGroup(i) /\ Owner(g) = NoHandler
       /\ FirstFree(k)
       /\ affinity' = [affinity EXCEPT ![g] = RoundRobin(k)]
       /\ Deliver(i, RoundRobin(k))
       /\ rr' = Advance(k + 1)
  /\ UNCHANGED <<consumers, timerVars, pumping, restVars>>

\* Mutant: `if` where pump() has `while`.
PumpOnce ==
  /\ pumping /\ pumping' = FALSE
  /\ UNCHANGED <<queueVars, timerVars, incoming, restVars>>

\* The loop ends.  A scan that found nobody free has still moved rr a full
\* turn (per ownerless message in group mode) and erased void pins.
PumpStop ==
  LET ownerless == {i \in DOMAIN pending : Owner(GroupOf[pending[i]]) = NoHandler}
      scanned   == pending # <<>> /\ consumers # <<>>
  IN
  /\ pumping /\ ~CanDeliver
  /\ pumping' = FALSE
  /\ rr' = IF ~scanned THEN rr
           ELSE IF PartitionByGroup
                THEN Advance(Len(consumers) * Cardinality(ownerless))
           ELSE IF SingleActive THEN rr
           ELSE Advance(Len(consumers))
  /\ affinity' = IF scanned /\ PartitionByGroup
                 THEN [g \in Groups |-> IF \E i \in ownerless : GroupOf[pending[i]] = g
                                        THEN NoHandler ELSE affinity[g]]
                 ELSE affinity
  /\ UNCHANGED <<pending, inflight, consumers, deliveryCount, timerVars,
                 incoming, restVars>>

Pump == PumpActive \/ PumpShared \/ PumpPinned \/ PumpPin \/ PumpStop
-----------------------------------------------------------------------------
(* The port: publish, subscribe, unsubscribe                               *)

\* publish() on a queue that the routing key reaches: enqueue, arm the expiry
\* timer when there is a ttlMs, pump.  The first subscribe created the queue.
Publish(m) ==
  /\ ~pumping
  /\ \E h \in Handlers : attached[h] > 0
  /\ m \in setup.msgs \ Range(published)
  /\ published' = Append(published, m)
  /\ pending' = Append(pending, m)
  /\ ttlArmed' = IF m \in setup.ttl THEN ttlArmed \union {m} ELSE ttlArmed
  /\ pumping' = TRUE
  /\ UNCHANGED <<inflight, consumers, rr, affinity, deliveryCount, parked,
                 incoming, setup, gone, returned, attached>>

Subscribe(h) ==
  /\ ~pumping
  /\ attached[h] < MaxAttach[h]
  /\ attached' = [attached EXCEPT ![h] = @ + 1]
  /\ consumers' = Append(consumers, h)
  /\ pumping' = TRUE
  /\ UNCHANGED <<pending, inflight, rr, affinity, deliveryCount, timerVars,
                 incoming, setup, published, gone, returned>>

\* unsubscribe() of any Subscription ever returned, a second time too: drop
\* the first entry of the handler, if there is one, and put what the handler
\* holds back at the head of the queue.
Unsubscribe(h) ==
  LET held == {m \in Msgs : inflight[m] = h} IN
  /\ ~pumping
  /\ attached[h] > 0
  /\ \/ /\ h \notin Range(consumers)
        /\ consumers' = consumers
     \/ \E i \in DOMAIN consumers :
          /\ FirstAt(consumers, h, i)
          /\ consumers' = RemoveAt(consumers, i)
  /\ \E back \in SetToSeqs(held) : pending' = back \o pending
  /\ inflight' = [m \in Msgs |-> IF m \in held THEN NoHandler ELSE inflight[m]]
  /\ returned' = [m \in Msgs |-> IF m \in held THEN returned[m] + 1 ELSE returned[m]]
  /\ pumping' = TRUE
  /\ UNCHANGED <<rr, affinity, deliveryCount, timerVars, incoming, setup,
                 published, gone, attached>>
-----------------------------------------------------------------------------
(* Handlers and settlement                                                 *)

\* The microtask queued by pump() calls the handler, even one that has
\* unsubscribed meanwhile.
Invoke(r) ==
  /\ ~pumping
  /\ ~r.invoked
  /\ incoming' = (incoming \ {r}) \union {[r EXCEPT !.invoked = TRUE]}
  /\ UNCHANGED <<queueVars, timerVars, pumping, restVars>>

\* deadLetter(): publish to the dead-letter address, or drop.
DeadExit == IF DeadLetter THEN "dead" ELSE "dropped"

Leave(m, how) ==
  /\ gone' = [gone EXCEPT ![m] = how]
  /\ UNCHANGED <<pending, parked>>

ExhaustedLate(m) == deliveryCount[m] > MaxDeliveries  \* mutant: off by one
Exhausted(m) == deliveryCount[m] >= MaxDeliveries

Requeue(m) ==
  \/ Exhausted(m) /\ Leave(m, DeadExit)
  \/ /\ ~Exhausted(m) /\ RetryDelay
     /\ parked' = parked \union {m}
     /\ UNCHANGED <<pending, gone>>
  \/ /\ ~Exhausted(m) /\ ~RetryDelay
     /\ pending' = Append(pending, m)
     /\ UNCHANGED <<parked, gone>>

\* The in-flight entry that settle() looks for.
HoldsAlways(r) == TRUE  \* mutant: no check
Holds(r) == inflight[r.msg] = r.consumer

\* settle(): ignored when the consumer no longer holds the message.
Settle(r, resolved) ==
  \/ /\ ~Holds(r)
     /\ UNCHANGED <<pending, inflight, parked, gone, pumping>>
  \/ /\ Holds(r)
     /\ inflight' = [inflight EXCEPT ![r.msg] = NoHandler]
     /\ pumping' = TRUE
     /\ \/ resolved = "ack" /\ Leave(r.msg, "acked")
        \/ resolved = "dead" /\ Leave(r.msg, DeadExit)
        \/ resolved = "requeue" /\ Requeue(r.msg)

\* ack(), nack(true) or nack(false), called by the handler while it runs or
\* by code that kept the IncomingMessage; nothing stops a second call, but
\* only the holders of setup.late make one.
Resolve(r, resolved) ==
  /\ ~pumping
  /\ r.invoked
  /\ Settle(r, resolved)
  /\ incoming' = (incoming \ {r}) \union
       (IF r.msg \in setup.late THEN {[r EXCEPT !.settled = TRUE]} ELSE {})
  /\ UNCHANGED <<consumers, rr, affinity, deliveryCount, ttlArmed, setup,
                 published, returned, attached>>

\* The handler throws without having called ack() or nack(): redeliver.
Throw(r) == ~r.settled /\ Resolve(r, "requeue")

\* The handler returns and nobody keeps the IncomingMessage; a message it did
\* not settle stays in flight until the consumer drops.
Return(r) ==
  /\ ~pumping
  /\ r.invoked
  /\ incoming' = incoming \ {r}
  /\ UNCHANGED <<queueVars, timerVars, pumping, restVars>>
-----------------------------------------------------------------------------
(* Timers: a macrotask, so every queued microtask has run.                 *)

MicrotasksDone == ~pumping /\ \A r \in incoming : r.invoked

\* Mutant: the retry timer does not pump.
RetryTimerNoPump(m) ==
  /\ MicrotasksDone
  /\ m \in parked
  /\ parked' = parked \ {m}
  /\ pending' = Append(pending, m)
  /\ UNCHANGED <<inflight, consumers, rr, affinity, deliveryCount, ttlArmed,
                 incoming, pumping, restVars>>

\* The retry timer of a nacked message.
RetryTimer(m) ==
  /\ MicrotasksDone
  /\ m \in parked
  /\ parked' = parked \ {m}
  /\ pending' = Append(pending, m)
  /\ pumping' = TRUE
  /\ UNCHANGED <<inflight, consumers, rr, affinity, deliveryCount, ttlArmed,
                 incoming, restVars>>

UnconsumedPending(m) == m \in Range(pending)  \* mutant: in flight is forgotten
Unconsumed(m) == m \in Range(pending) \/ inflight[m] # NoHandler

\* Out of pending, else out of flight, and on to the expiry address.
Expire(m) ==
  /\ \/ /\ \E i \in DOMAIN pending :
             /\ FirstAt(pending, m, i)
             /\ pending' = RemoveAt(pending, i)
        /\ UNCHANGED inflight
     \/ /\ m \notin Range(pending)
        /\ inflight' = [inflight EXCEPT ![m] = NoHandler]
        /\ UNCHANGED pending
  /\ gone' = [gone EXCEPT ![m] = "expired"]

\* The expiry timer.  This queue is not pumped.
ExpiryTimer(m) ==
  /\ MicrotasksDone
  /\ m \in ttlArmed
  /\ ttlArmed' = ttlArmed \ {m}
  /\ \/ Unconsumed(m) /\ Expire(m)
     \/ ~Unconsumed(m) /\ UNCHANGED <<pending, inflight, gone>>
  /\ UNCHANGED <<consumers, rr, affinity, deliveryCount, parked, incoming,
                 pumping, setup, published, returned, attached>>
-----------------------------------------------------------------------------
Resolutions == {"ack", "requeue", "dead"}

Port ==
  \/ \E m \in Msgs : Publish(m)
  \/ \E h \in Handlers : Subscribe(h) \/ Unsubscribe(h)

Consumer ==
  \E r \in incoming :
    \/ Invoke(r)
    \/ \E resolved \in Resolutions : Resolve(r, resolved)
    \/ Throw(r)
    \/ Return(r)

Timers == \E m \in Msgs : RetryTimer(m) \/ ExpiryTimer(m)

Next == Pump \/ Port \/ Consumer \/ Timers

Spec == Init /\ [][Next]_vars

(* pump() runs to its end.  A queued microtask or a due timer runs even if  *)
(* other calls keep coming: the event loop takes its tasks in order, so    *)
(* calls that pump in between (which disable the step) cannot starve it.   *)
(* That an invoked handler settles what it was handed is an assumption on  *)
(* the application.                                                        *)
Fairness ==
  /\ WF_vars(Pump)
  /\ \A m \in Msgs :
       /\ SF_vars(\E r \in incoming : r.msg = m /\ Invoke(r))
       /\ SF_vars(\E r \in incoming, resolved \in Resolutions :
                    r.msg = m /\ ~r.settled /\ Resolve(r, resolved))
       /\ SF_vars(RetryTimer(m))

LiveSpec == Spec /\ Fairness
-----------------------------------------------------------------------------
(* Type invariant: the shape of the queue's fields.                        *)
TypeOK ==
  /\ setup \in Setups
  /\ pending \in Seq(Msgs)
  /\ inflight \in [Msgs -> Handlers \union {NoHandler}]
  /\ consumers \in Seq(Handlers)
  /\ rr \in 0 .. RRPeriod - 1
  /\ affinity \in [Groups -> Handlers \union {NoHandler}]
  /\ deliveryCount \in [Msgs -> Nat]
  /\ parked \subseteq Msgs /\ ttlArmed \subseteq Msgs
  /\ incoming \subseteq Incoming
  /\ pumping \in BOOLEAN
  /\ published \in Seq(Msgs)
  /\ gone \in [Msgs -> Exit]
  /\ returned \in [Msgs -> Nat]
  /\ attached \in [Handlers -> Nat]

(* Settlement conserves messages: a published message is in exactly one    *)
(* place - queued (once), in flight, parked for retry, or gone - through   *)
(* every ack, nack, throw, crash, late settle, retry timer and expiry, so  *)
(* none is lost and none is duplicated inside the queue.                   *)
ExactlyOnePlace ==
  /\ IsInjective(pending)
  /\ \A m \in Msgs :
       LET queued == m \in Range(pending)
           flying == inflight[m] # NoHandler
           waits  == m \in parked
           left   == gone[m] # "no"
       IN  /\ (m \in Range(published)) <=> (queued \/ flying \/ waits \/ left)
           /\ ~(queued /\ flying) /\ ~(queued /\ waits) /\ ~(queued /\ left)
           /\ ~(flying /\ waits) /\ ~(flying /\ left) /\ ~(waits /\ left)

(* Prefetch of 1 and crash recovery: a consumer holds at most one message  *)
(* and only while it is attached, so nothing is ever stuck with a consumer *)
(* that has unsubscribed.                                                  *)
PrefetchOne ==
  \A m \in Msgs : inflight[m] # NoHandler =>
    /\ inflight[m] \in Range(consumers)
    /\ \A n \in Msgs : inflight[n] = inflight[m] => n = m

(* Single active consumer (S18): only the longest-attached consumer holds  *)
(* a message, also right after the active one dropped and a standby was    *)
(* promoted, and never two messages at a time.                             *)
OneActiveConsumer ==
  SingleActive /\ ~PartitionByGroup =>
    /\ \A m \in Msgs : inflight[m] # NoHandler => inflight[m] = consumers[1]
    /\ \A m, n \in Msgs : inflight[m] # NoHandler /\ inflight[n] # NoHandler => m = n

(* Group affinity (S12): a group's in-flight message is with the consumer  *)
(* the group is pinned to, so two messages of one group are never handled  *)
(* at the same time, whoever joined or left in between.                    *)
GroupsPinned ==
  PartitionByGroup =>
    \A m \in Msgs : inflight[m] # NoHandler =>
      /\ inflight[m] = affinity[GroupOf[m]]
      /\ \A n \in Msgs : inflight[n] # NoHandler /\ GroupOf[n] = GroupOf[m] => n = m

(* Order: a message is handed out for the first time only after every      *)
(* earlier message it must not overtake (same group in group mode, at      *)
(* least its priority otherwise) was handed out or expired, whatever       *)
(* requeues, crashes and retries did to the queue in between.              *)
MustPrecede(m, n) ==
  IF PartitionByGroup THEN GroupOf[m] = GroupOf[n]
  ELSE PriorityOf[m] >= PriorityOf[n]

FirstDeliveryInOrder ==
  \A i, j \in DOMAIN published :
    /\ i < j /\ MustPrecede(published[i], published[j])
    /\ deliveryCount[published[j]] > 0
    => deliveryCount[published[i]] > 0 \/ gone[published[i]] = "expired"

(* Poison messages (S8): whatever mixture of nack(true), throwing, late    *)
(* settles and retry timers, a message is handed out at most maxDeliveries *)
(* times; only a consumer that drops with the message in flight adds one.  *)
Limit == IF MaxDeliveries = 0 THEN 1 ELSE MaxDeliveries

AttemptsBounded ==
  \A m \in Msgs :
    deliveryCount[m] <= returned[m] + Limit

(* pump() leaves no work behind: when the event loop is idle, no message   *)
(* waits in the queue that an attached consumer could be handed, as long   *)
(* as no message has expired.                                              *)
NothingStranded ==
  ~pumping /\ (\A m \in Msgs : gone[m] # "expired") => ~CanDeliver

(* Freeing a consumer's slot re-pumps: when the event loop is idle, no     *)
(* message waits that an attached consumer could be handed.                *)
AlwaysRepumped == ~pumping => ~CanDeliver

Outlived(m) ==
  /\ m \in setup.ttl /\ m \in Range(published)
  /\ m \notin ttlArmed /\ gone[m] = "no"

(* Time-to-live (S16): without a retry delay, once the expiry timer of a   *)
(* message has fired the message is out of the queue for good, wherever it *)
(* was at that moment and whatever its holders do afterwards.              *)
TtlFinal == ~RetryDelay => \A m \in Msgs : ~Outlived(m)

StaysGone(m) == gone[m] # "no" =>
  gone'[m] = gone[m] /\ deliveryCount'[m] = deliveryCount[m]

(* What settlement reports is final: a message that was acked, dead-       *)
(* lettered, dropped or expired never comes back to the queue, not even    *)
(* through a late settle, a retry timer or a consumer that drops.          *)
GoneForGood == [][\A m \in Msgs : StaysGone(m)]_vars

(* A message in flight whose handler is over without having settled it.    *)
Abandoned(m) ==
  /\ inflight[m] # NoHandler
  /\ ~\E r \in incoming : r.msg = m /\ r.consumer = inflight[m] /\ ~r.settled

(* Progress: if some consumer eventually stays attached and handlers never *)
(* walk away from a message, every published message is eventually acked,  *)
(* dead-lettered, dropped or expired.                                      *)
EveryMessageLeaves ==
  (<>[](consumers # <<>>) /\ []~(\E m \in Msgs : Abandoned(m)))
    => \A m \in Msgs : (m \in Range(published)) ~> (gone[m] # "no")
=============================================================================
