--------------------------- MODULE BusQueueProofs ---------------------------
(***************************************************************************)
(* Safety of one subscriber queue, for any number of messages, handlers    *)
(* and groups and every combination of subscribe options.                  *)
(***************************************************************************)
EXTENDS BusQueue, ArrayLemmas, FiniteSetTheorems

USE HandlersAssumption, MessagesAssumption, OptionsAssumption

-----------------------------------------------------------------------------
(* The inductive core: a message is in one place and a consumer holds one. *)

Core == TypeOK /\ ExactlyOnePlace /\ PrefetchOne

(* The options are those of the subscribe() that created the queue: no     *)
(* step changes them.                                                      *)
LEMMA SetupKept == [Next]_vars => UNCHANGED setup
  BY DEF Next, vars, restVars, Pump, PumpActive, PumpShared, PumpPinned, PumpPin,
         PumpStop, Port, Publish, Subscribe, Unsubscribe, Consumer, Invoke,
         Resolve, Throw, Return, Timers, RetryTimer, ExpiryTimer

(* What is read from the options is fixed with them.                       *)
LEMMA OptionsKept ==
  ASSUME UNCHANGED setup
  PROVE  /\ Limit' = Limit
         /\ PartitionByGroup' = PartitionByGroup /\ SingleActive' = SingleActive
  BY DEF Limit, MaxDeliveries, PartitionByGroup, SingleActive

(* A queue allows at least one attempt, and one that maxDeliveries allows  *)
(* is within the limit.                                                    *)
LEMMA LimitFacts ==
  ASSUME setup \in Setups
  PROVE  /\ Limit \in Nat /\ Limit > 0
         /\ MaxDeliveries \in Nat /\ MaxDeliveries <= Limit
  BY DEF Limit, MaxDeliveries, Setup

(* unsubscribe() has at most one message to put back, so the order in      *)
(* which it walks the in-flight map does not matter.                       *)
LEMMA TakeBack ==
  ASSUME Core, NEW h \in Handlers,
         NEW back \in SetToSeqs({m \in Msgs : inflight[m] = h})
  PROVE  LET held == {m \in Msgs : inflight[m] = h} IN
         /\ back \in Seq(Msgs) /\ back \o pending \in Seq(Msgs)
         /\ Range(back \o pending) = Range(pending) \union held
         /\ IsInjective(back \o pending)
<1> DEFINE held == {m \in Msgs : inflight[m] = h}
<1>1. pending \in Seq(Msgs) /\ IsInjective(pending)
  BY DEF Core, TypeOK, ExactlyOnePlace
<1>2. CASE held = {}
  <2>1. Cardinality(held) = 0
    BY <1>2, FS_EmptySet
  <2>2. back \in [1 .. 0 -> {}]
    BY <1>2, <2>1 DEF SetToSeqs
  <2>3. back = <<>>
    BY <2>2
  <2>4. back \o pending = pending
    BY <1>1, <2>3
  <2>5. back \in Seq(Msgs)
    BY <2>3
  <2> QED BY <1>1, <1>2, <2>4, <2>5
<1>3. CASE held # {}
  <2>1. PICK m \in Msgs : held = {m}
    BY <1>3 DEF Core, PrefetchOne
  <2>2. inflight[m] = h /\ m \notin Range(pending)
    BY <2>1 DEF Core, ExactlyOnePlace
  <2>3. Cardinality(held) = 1
    BY <2>1, FS_Singleton
  <2>4. back \in [1 .. 1 -> {m}]
    BY <2>1, <2>3 DEF SetToSeqs
  <2>5. back = <<m>>
    BY <2>4
  <2> QED BY <1>1, <2>1, <2>2, <2>5, PrependRange
<1> QED BY <1>2, <1>3

(* One iteration of pump(): a queued message goes in flight at a consumer  *)
(* that is attached and free.                                              *)
LEMMA DeliverCore ==
  ASSUME Core, NEW i \in DOMAIN pending, NEW c \in Range(consumers),
         c \notin Busy, Deliver(i, c),
         rr' \in 0 .. RRPeriod - 1, affinity' \in [Groups -> Handlers \union {NoHandler}],
         UNCHANGED <<consumers, timerVars, pumping, restVars>>
  PROVE  Core'
<1> DEFINE m == pending[i]
<1>1. TypeOK /\ ExactlyOnePlace /\ PrefetchOne
  BY DEF Core
<1>2. /\ pending \in Seq(Msgs) /\ consumers \in Seq(Handlers)
      /\ IsInjective(pending)
  BY <1>1 DEF TypeOK, ExactlyOnePlace
<1>3. m \in Msgs /\ m \in Range(pending) /\ c \in Handlers /\ c # NoHandler
  BY <1>2 DEF Range
<1>4. /\ pending' \in Seq(Msgs) /\ IsInjective(pending')
      /\ Range(pending') = Range(pending) \ {m}
  BY <1>2, RemoveAtDef, RemoveAtInjective DEF Deliver
<1>5. inflight' = [inflight EXCEPT ![m] = c]
  BY DEF Deliver
<1>6. TypeOK'
  <2>0. deliveryCount[m] \in Nat /\ deliveryCount[m] + 1 \in Nat
    BY <1>1, <1>3 DEF TypeOK
  <2>1. incoming' \subseteq Incoming
    <3>1. [msg |-> m, count |-> deliveryCount[m] + 1, consumer |-> c,
           invoked |-> FALSE, settled |-> FALSE] \in Incoming
      BY <1>3, <2>0 DEF Incoming
    <3>2. incoming \subseteq Incoming
      BY <1>1 DEF TypeOK
    <3> QED BY <3>1, <3>2 DEF Deliver
  <2>2. deliveryCount' \in [Msgs -> Nat]
    BY <1>1, <1>3 DEF TypeOK, Deliver
  <2>3. inflight' \in [Msgs -> Handlers \union {NoHandler}]
    BY <1>1, <1>3, <1>5 DEF TypeOK
  <2> QED BY <1>1, <1>4, <2>1, <2>2, <2>3 DEF TypeOK, timerVars, restVars
<1>7. ExactlyOnePlace'
  BY <1>1, <1>3, <1>4, <1>5 DEF TypeOK, ExactlyOnePlace, timerVars, restVars
<1>8. PrefetchOne'
  <2>1. \A n \in Msgs : inflight[n] # c
    BY <1>1, <1>3 DEF Busy, TypeOK
  <2> QED BY <1>1, <1>3, <1>5, <2>1 DEF TypeOK, PrefetchOne
<1> QED BY <1>6, <1>7, <1>8 DEF Core

(* A consumer picked by the round-robin scan is attached and free.         *)
LEMMA FirstFreeFacts ==
  ASSUME TypeOK, NEW k \in 0 .. Len(consumers) - 1, FirstFree(k)
  PROVE  /\ RoundRobin(k) \in Range(consumers) /\ RoundRobin(k) \notin Busy
         /\ RoundRobin(k) \in Handlers
         /\ Advance(k + 1) \in 0 .. RRPeriod - 1
<1>1. /\ consumers \in Seq(Handlers) /\ Len(consumers) \in Nat /\ Len(consumers) > 0
      /\ rr \in Nat /\ k \in Nat
  BY DEF TypeOK
<1>2. ((rr + k) % Len(consumers)) + 1 \in 1 .. Len(consumers)
  BY <1>1
<1>3. (rr + (k + 1)) % RRPeriod \in 0 .. RRPeriod - 1
  BY <1>1
<1> QED BY <1>1, <1>2, <1>3 DEF FirstFree, RoundRobin, Advance, Range

(* Every iteration of pump(), in each of its modes, and its end.           *)
LEMMA PumpCore == Core /\ Pump => Core'
<1> SUFFICES ASSUME Core, Pump PROVE Core'
  OBVIOUS
<1>0. TypeOK
  BY DEF Core
<1>1. CASE PumpActive
  <2>1. PICK i \in DOMAIN pending : Deliver(i, consumers[1])
    BY <1>1 DEF PumpActive, Active
  <2>2. consumers[1] \in Range(consumers)
    <3>1. consumers \in Seq(Handlers) /\ consumers # <<>>
      BY <1>0, <1>1 DEF PumpActive, TypeOK
    <3> QED BY <3>1 DEF Range
  <2>3. consumers[1] \notin Busy /\ UNCHANGED <<consumers, timerVars, pumping, restVars>>
    BY <1>1 DEF PumpActive
  <2>4. /\ rr' \in 0 .. RRPeriod - 1
        /\ affinity' \in [Groups -> Handlers \union {NoHandler}]
    BY <1>0, <1>1 DEF PumpActive, TypeOK
  <2> QED BY <2>1, <2>2, <2>3, <2>4, DeliverCore
<1>2. CASE PumpShared
  <2>1. PICK k \in 0 .. Len(consumers) - 1, i \in DOMAIN pending :
          FirstFree(k) /\ Deliver(i, RoundRobin(k)) /\ rr' = Advance(k + 1)
    BY <1>2 DEF PumpShared
  <2> QED BY <1>0, <1>2, <2>1, FirstFreeFacts, DeliverCore DEF PumpShared, TypeOK
<1>3. CASE PumpPinned
  <2>1. PICK i \in DOMAIN pending :
          /\ NextGroup(i) /\ Owner(GroupOf[pending[i]]) # NoHandler
          /\ Deliver(i, Owner(GroupOf[pending[i]]))
    BY <1>3 DEF PumpPinned
  <2>2. /\ Owner(GroupOf[pending[i]]) \in Range(consumers)
        /\ Owner(GroupOf[pending[i]]) \notin Busy
    BY <2>1 DEF NextGroup, GroupReady, Owner
  <2> QED BY <1>0, <1>3, <2>1, <2>2, DeliverCore DEF PumpPinned, TypeOK
<1>4. CASE PumpPin
  <2>1. PICK i \in DOMAIN pending, k \in 0 .. Len(consumers) - 1 :
          /\ FirstFree(k) /\ Deliver(i, RoundRobin(k)) /\ rr' = Advance(k + 1)
          /\ affinity' = [affinity EXCEPT ![GroupOf[pending[i]]] = RoundRobin(k)]
    BY <1>4 DEF PumpPin
  <2>2. affinity' \in [Groups -> Handlers \union {NoHandler}]
    BY <1>0, <2>1, FirstFreeFacts DEF TypeOK
  <2> QED BY <1>0, <1>4, <2>1, <2>2, FirstFreeFacts, DeliverCore DEF PumpPin
<1>5. CASE PumpStop
  <2> DEFINE ownerless == {i \in DOMAIN pending : Owner(GroupOf[pending[i]]) = NoHandler}
  <2>1. Cardinality(ownerless) \in Nat /\ Len(consumers) \in Nat /\ rr \in Nat
    <3>1. ownerless \subseteq 1 .. Len(pending) /\ Len(pending) \in Nat
      BY <1>0 DEF TypeOK
    <3> HIDE DEF ownerless
    <3>2. IsFiniteSet(1 .. Len(pending))
      BY <3>1, FS_Interval
    <3>3. Cardinality(ownerless) \in Nat
      BY <3>1, <3>2, FS_Subset, FS_CardinalityType
    <3> QED BY <1>0, <3>3 DEF TypeOK
  <2>2. \A n \in Nat : Advance(n) \in 0 .. RRPeriod - 1
    BY <2>1 DEF Advance
  <2>3. Len(consumers) * Cardinality(ownerless) \in Nat
    <3> HIDE DEF ownerless
    <3> QED BY <2>1
  <2>4. rr' \in 0 .. RRPeriod - 1
    BY <1>0, <1>5, <2>1, <2>2, <2>3 DEF PumpStop, TypeOK
  <2>5. affinity' \in [Groups -> Handlers \union {NoHandler}]
    BY <1>0, <1>5 DEF PumpStop, TypeOK
  <2>6. TypeOK'
    BY <1>0, <1>5, <2>4, <2>5 DEF TypeOK, PumpStop, timerVars, restVars
  <2> QED BY <1>5, <2>6 DEF Core, ExactlyOnePlace, PrefetchOne, PumpStop, timerVars, restVars
<1> QED BY <1>1, <1>2, <1>3, <1>4, <1>5 DEF Pump
-----------------------------------------------------------------------------
(* The other operations                                                    *)

(* publish(), subscribe() and unsubscribe() keep the core invariant.       *)
LEMMA PortCore == Core /\ Port => Core'
<1> SUFFICES ASSUME Core, Port PROVE Core'
  OBVIOUS
<1>0. TypeOK /\ ExactlyOnePlace /\ PrefetchOne
  BY DEF Core
<1>00. /\ pending \in Seq(Msgs) /\ consumers \in Seq(Handlers) /\ published \in Seq(Msgs)
       /\ IsInjective(pending)
  BY <1>0 DEF TypeOK, ExactlyOnePlace
<1>1. ASSUME NEW m \in Msgs, Publish(m) PROVE Core'
  <2>1. m \notin Range(published) /\ m \notin Range(pending)
    BY <1>0, <1>1 DEF Publish, ExactlyOnePlace
  <2>2. /\ pending' \in Seq(Msgs) /\ IsInjective(pending')
        /\ Range(pending') = Range(pending) \union {m}
        /\ published' \in Seq(Msgs)
        /\ Range(published') = Range(published) \union {m}
    BY <1>00, <1>1, <2>1, AppendRange DEF Publish
  <2>3. TypeOK'
    BY <1>0, <1>1, <2>2 DEF TypeOK, Publish
  <2>4. ExactlyOnePlace'
    BY <1>0, <1>1, <2>1, <2>2 DEF ExactlyOnePlace, Publish
  <2>5. PrefetchOne'
    BY <1>0, <1>1 DEF PrefetchOne, Publish
  <2> QED BY <2>3, <2>4, <2>5 DEF Core
<1>2. ASSUME NEW h \in Handlers, Subscribe(h) PROVE Core'
  <2>1. consumers' \in Seq(Handlers) /\ Range(consumers') = Range(consumers) \union {h}
    BY <1>00, <1>2, AppendRange DEF Subscribe
  <2>2. TypeOK'
    <3>1. attached' \in [Handlers -> Nat]
      BY <1>0, <1>2 DEF TypeOK, Subscribe
    <3> QED BY <1>0, <1>2, <2>1, <3>1 DEF TypeOK, Subscribe, timerVars
  <2>3. ExactlyOnePlace'
    BY <1>0, <1>2 DEF ExactlyOnePlace, Subscribe, timerVars
  <2>4. PrefetchOne'
    BY <1>0, <1>2, <2>1 DEF PrefetchOne, Subscribe
  <2> QED BY <2>2, <2>3, <2>4 DEF Core
<1>3. ASSUME NEW h \in Handlers, Unsubscribe(h) PROVE Core'
  <2> DEFINE held == {m \in Msgs : inflight[m] = h}
  <2>1. /\ pending' \in Seq(Msgs) /\ IsInjective(pending')
        /\ Range(pending') = Range(pending) \union held
    BY <1>3, TakeBack DEF Unsubscribe
  <2>2. consumers' \in Seq(Handlers) /\ Range(consumers) \ {h} \subseteq Range(consumers')
    BY <1>00, <1>3, RemoveAtDef, RemoveAtRange DEF Unsubscribe, FirstAt
  <2>3. inflight' = [m \in Msgs |-> IF m \in held THEN NoHandler ELSE inflight[m]]
    BY <1>3 DEF Unsubscribe
  <2>4. TypeOK'
    BY <1>0, <1>3, <2>1, <2>2, <2>3 DEF TypeOK, Unsubscribe, timerVars
  <2>5. ExactlyOnePlace'
    BY <1>0, <1>3, <2>1, <2>3 DEF TypeOK, ExactlyOnePlace, Unsubscribe, timerVars
  <2>6. PrefetchOne'
    BY <1>0, <2>2, <2>3 DEF TypeOK, PrefetchOne
  <2> QED BY <2>4, <2>5, <2>6 DEF Core
<1> QED BY <1>1, <1>2, <1>3 DEF Port

(* settle(): the message leaves the consumer for exactly one other place.  *)
LEMMA SettleCore ==
  ASSUME Core, NEW r \in incoming, NEW resolved, Settle(r, resolved),
         incoming' \subseteq Incoming,
         UNCHANGED <<consumers, rr, affinity, deliveryCount, ttlArmed, setup, published,
                     returned, attached>>
  PROVE  Core'
<1>0. TypeOK /\ ExactlyOnePlace /\ PrefetchOne
  BY DEF Core
<1> DEFINE m == r.msg
<1>1. m \in Msgs /\ r.consumer \in Handlers
  BY <1>0 DEF TypeOK, Incoming
<1>2. CASE ~Holds(r)
  BY <1>0, <1>2 DEF Settle, Core, TypeOK, ExactlyOnePlace, PrefetchOne
<1>3. CASE Holds(r)
  <2>1. /\ inflight[m] # NoHandler
        /\ inflight' = [inflight EXCEPT ![m] = NoHandler] /\ pumping' = TRUE
    BY <1>1, <1>3 DEF Holds, Settle
  <2>2. m \notin Range(pending) /\ m \notin parked /\ gone[m] = "no"
    BY <1>0, <1>1, <2>1 DEF ExactlyOnePlace
  <2>3. PrefetchOne'
    BY <1>0, <1>1, <2>1 DEF PrefetchOne, TypeOK
  <2>4. ASSUME NEW how \in Exit, how # "no", Leave(m, how) PROVE Core'
    <3>1. TypeOK'
      BY <1>0, <1>1, <2>1, <2>4 DEF TypeOK, Leave
    <3>2. ExactlyOnePlace'
      BY <1>0, <1>1, <2>1, <2>2, <2>4 DEF TypeOK, ExactlyOnePlace, Leave
    <3> QED BY <2>3, <3>1, <3>2 DEF Core
  <2>5. CASE parked' = parked \union {m} /\ UNCHANGED <<pending, gone>>
    <3>1. TypeOK'
      BY <1>0, <1>1, <2>1, <2>5 DEF TypeOK
    <3>2. ExactlyOnePlace'
      BY <1>0, <1>1, <2>1, <2>2, <2>5 DEF TypeOK, ExactlyOnePlace
    <3> QED BY <2>3, <3>1, <3>2 DEF Core
  <2>6. CASE pending' = Append(pending, m) /\ UNCHANGED <<parked, gone>>
    <3>1. /\ pending' \in Seq(Msgs) /\ IsInjective(pending')
          /\ Range(pending') = Range(pending) \union {m}
      BY <1>0, <1>1, <2>2, <2>6, AppendRange DEF TypeOK, ExactlyOnePlace
    <3>2. TypeOK'
      BY <1>0, <2>1, <2>6, <3>1 DEF TypeOK
    <3>3. ExactlyOnePlace'
      BY <1>0, <1>1, <2>1, <2>2, <2>6, <3>1 DEF TypeOK, ExactlyOnePlace
    <3> QED BY <2>3, <3>2, <3>3 DEF Core
  <2>7. DeadExit \in Exit /\ DeadExit # "no" /\ "acked" \in Exit
    BY DEF DeadExit, Exit
  <2> QED BY <1>3, <2>4, <2>5, <2>6, <2>7 DEF Settle, Requeue
<1> QED BY <1>2, <1>3

(* Handlers, however they settle, throw or return, keep it.                *)
LEMMA ConsumerCore == Core /\ Consumer => Core'
<1> SUFFICES ASSUME Core, NEW r \in incoming,
                    \/ Invoke(r) \/ \E resolved \in Resolutions : Resolve(r, resolved)
                    \/ Throw(r) \/ Return(r)
             PROVE  Core'
  BY DEF Consumer
<1>0. TypeOK /\ incoming \subseteq Incoming
  BY DEF Core, TypeOK
<1>1. [r EXCEPT !.invoked = TRUE] \in Incoming /\ [r EXCEPT !.settled = TRUE] \in Incoming
  BY <1>0 DEF Incoming
<1>2. ASSUME NEW resolved, Resolve(r, resolved) PROVE Core'
  <2>1. incoming' \subseteq Incoming
    BY <1>0, <1>1, <1>2 DEF Resolve
  <2> QED BY <1>2, <2>1, SettleCore DEF Resolve
<1>3. CASE Invoke(r)
  <2>1. incoming' \subseteq Incoming
    BY <1>0, <1>1, <1>3 DEF Invoke
  <2> QED BY <1>3, <2>1 DEF Core, TypeOK, ExactlyOnePlace, PrefetchOne, Invoke,
                          queueVars, timerVars, restVars
<1>4. CASE Return(r)
  <2>1. incoming' \subseteq Incoming
    BY <1>0, <1>4 DEF Return
  <2> QED BY <1>4, <2>1 DEF Core, TypeOK, ExactlyOnePlace, PrefetchOne, Return,
                          queueVars, timerVars, restVars
<1> QED BY <1>2, <1>3, <1>4 DEF Throw

(* The retry timer and the expiry timer keep it.                           *)
LEMMA TimersCore == Core /\ Timers => Core'
<1> SUFFICES ASSUME Core, NEW m \in Msgs, RetryTimer(m) \/ ExpiryTimer(m) PROVE Core'
  BY DEF Timers
<1>0. TypeOK /\ ExactlyOnePlace /\ PrefetchOne
  BY DEF Core
<1>1. pending \in Seq(Msgs) /\ IsInjective(pending)
  BY <1>0 DEF TypeOK, ExactlyOnePlace
<1>2. CASE RetryTimer(m)
  <2>1. m \in parked /\ m \notin Range(pending)
    BY <1>0, <1>2 DEF RetryTimer, ExactlyOnePlace
  <2>2. /\ pending' \in Seq(Msgs) /\ IsInjective(pending')
        /\ Range(pending') = Range(pending) \union {m}
    BY <1>1, <1>2, <2>1, AppendRange DEF RetryTimer
  <2>3. TypeOK'
    BY <1>0, <1>2, <2>2 DEF TypeOK, RetryTimer, restVars
  <2>4. ExactlyOnePlace'
    BY <1>0, <1>2, <2>1, <2>2 DEF ExactlyOnePlace, RetryTimer, restVars
  <2>5. PrefetchOne'
    BY <1>0, <1>2 DEF PrefetchOne, RetryTimer
  <2> QED BY <2>3, <2>4, <2>5 DEF Core
<1>3. ASSUME ExpiryTimer(m), NEW i \in DOMAIN pending, FirstAt(pending, m, i),
             pending' = RemoveAt(pending, i),
             gone' = [gone EXCEPT ![m] = "expired"], UNCHANGED inflight
      PROVE  Core'
  <2>1. m \in Range(pending)
    BY <1>3 DEF FirstAt, Range
  <2>2. /\ pending' \in Seq(Msgs) /\ IsInjective(pending')
        /\ Range(pending') = Range(pending) \ {m}
    BY <1>1, <1>3, RemoveAtDef, RemoveAtInjective DEF FirstAt
  <2>3. TypeOK'
    BY <1>0, <1>3, <2>2 DEF TypeOK, ExpiryTimer, Exit
  <2>4. ExactlyOnePlace'
    BY <1>0, <1>3, <2>1, <2>2 DEF TypeOK, ExactlyOnePlace, ExpiryTimer
  <2>5. PrefetchOne'
    BY <1>0, <1>3 DEF PrefetchOne, ExpiryTimer
  <2> QED BY <2>3, <2>4, <2>5 DEF Core
<1>4. ASSUME ExpiryTimer(m), inflight[m] # NoHandler,
             inflight' = [inflight EXCEPT ![m] = NoHandler],
             gone' = [gone EXCEPT ![m] = "expired"], UNCHANGED pending
      PROVE  Core'
  <2>1. TypeOK'
    BY <1>0, <1>4 DEF TypeOK, ExpiryTimer, Exit
  <2>2. ExactlyOnePlace'
    BY <1>0, <1>4 DEF TypeOK, ExactlyOnePlace, ExpiryTimer
  <2>3. PrefetchOne'
    BY <1>0, <1>4 DEF TypeOK, PrefetchOne, ExpiryTimer
  <2> QED BY <2>1, <2>2, <2>3 DEF Core
<1>5. ASSUME ExpiryTimer(m), UNCHANGED <<pending, inflight, gone>> PROVE Core'
  BY <1>0, <1>5 DEF Core, TypeOK, ExactlyOnePlace, PrefetchOne, ExpiryTimer
<1>6. CASE ExpiryTimer(m)
  BY <1>0, <1>3, <1>4, <1>5, <1>6 DEF ExpiryTimer, Unconsumed, Expire
<1> QED BY <1>2, <1>6

(* Settlement conserves messages and a consumer holds at most one, for any *)
(* numbers of messages, consumers and attempts.                            *)
THEOREM CoreSafety == Spec => [](TypeOK /\ ExactlyOnePlace /\ PrefetchOne)
<1>1. Init => Core
  <2> SUFFICES ASSUME Init PROVE Core
    OBVIOUS
  <2>1. Range(pending) = {} /\ Range(published) = {} /\ IsInjective(pending)
    BY DEF Init, Range, IsInjective
  <2>2. TypeOK
    <3>1. rr \in 0 .. RRPeriod - 1
      BY DEF Init
    <3>2. gone \in [Msgs -> Exit]
      BY DEF Init, Exit
    <3>3. /\ pending \in Seq(Msgs) /\ consumers \in Seq(Handlers)
          /\ published \in Seq(Msgs)
      BY DEF Init
    <3>4. /\ inflight \in [Msgs -> Handlers \union {NoHandler}]
          /\ affinity \in [Groups -> Handlers \union {NoHandler}]
          /\ deliveryCount \in [Msgs -> Nat] /\ returned \in [Msgs -> Nat]
          /\ attached \in [Handlers -> Nat]
      BY DEF Init
    <3> QED BY <3>1, <3>2, <3>3, <3>4 DEF Init, TypeOK
  <2> QED BY <2>1, <2>2 DEF Init, Core, ExactlyOnePlace, PrefetchOne
<1>2. Core /\ [Next]_vars => Core'
  <2>1. Core /\ UNCHANGED vars => Core'
    BY DEF Core, TypeOK, ExactlyOnePlace, PrefetchOne, vars, queueVars, timerVars, restVars
  <2> QED BY <2>1, PumpCore, PortCore, ConsumerCore, TimersCore DEF Next
<1> QED BY <1>1, <1>2, PTL DEF Spec, Core
-----------------------------------------------------------------------------
(* Delivery attempts                                                       *)

(* What is waiting has an attempt left, unless a drop gave it one back.    *)
Ledger ==
  /\ \A m \in Msgs : m \notin Range(published) => deliveryCount[m] = 0
  /\ \A m \in Msgs : m \in Range(pending) \union parked =>
       deliveryCount[m] < returned[m] + Limit
  /\ AttemptsBounded

(* At the start no attempt has been made.                                  *)
LEMMA LedgerInit == Init => Ledger
<1> SUFFICES ASSUME Init PROVE Ledger
  OBVIOUS
<1>1. Range(pending) = {}
  BY DEF Init, Range
<1>2. Limit \in Nat
  BY LimitFacts DEF Init
<1> QED BY <1>1, <1>2 DEF Init, Ledger, AttemptsBounded

(* Handing out a queued message spends the attempt the ledger still has.   *)
LEMMA LedgerDeliver ==
  ASSUME Core, Ledger, NEW i \in DOMAIN pending, NEW c, Deliver(i, c),
         UNCHANGED <<timerVars, restVars>>
  PROVE  Ledger'
<1> DEFINE m == pending[i]
<1>0. TypeOK /\ pending \in Seq(Msgs) /\ IsInjective(pending)
  BY DEF Core, TypeOK, ExactlyOnePlace
<1>1. TypeOK /\ pending \in Seq(Msgs) /\ IsInjective(pending) /\ m \in Msgs /\ m \in Range(pending)
  BY <1>0 DEF Range
<1>2. m \in Range(published) /\ m \notin parked
  BY <1>1 DEF Core, ExactlyOnePlace
<1>3. Range(pending') = Range(pending) \ {m}
  BY <1>1, RemoveAtInjective DEF Deliver
<1>4. deliveryCount' = [deliveryCount EXCEPT ![m] = @ + 1]
  BY DEF Deliver
<1>5. Limit \in Nat /\ Limit' = Limit
  BY <1>1, LimitFacts, OptionsKept DEF TypeOK, restVars
<1>6. deliveryCount[m] + 1 <= returned[m] + Limit
  BY <1>1, <1>5 DEF Ledger, TypeOK
<1> QED
  BY <1>1, <1>2, <1>3, <1>4, <1>5, <1>6
     DEF TypeOK, Ledger, AttemptsBounded, timerVars, restVars

(* Every step of the queue keeps the ledger of attempts.                   *)
LEMMA LedgerNext == Core /\ Ledger /\ Next => Ledger'
<1> SUFFICES ASSUME Core, Ledger, Next PROVE Ledger'
  OBVIOUS
<1>0. /\ TypeOK /\ Limit \in Nat /\ ExactlyOnePlace
      /\ pending \in Seq(Msgs) /\ published \in Seq(Msgs)
  BY LimitFacts DEF Core, TypeOK
<1>00. Limit' = Limit
  BY SetupKept, OptionsKept
<1>1. CASE Pump
  <2>1. CASE PumpStop
    BY <1>00, <2>1 DEF PumpStop, Ledger, AttemptsBounded, timerVars, restVars
  <2>2. CASE ~PumpStop
    <3>1. /\ UNCHANGED <<timerVars, restVars>>
          /\ \E i \in DOMAIN pending : \E c : Deliver(i, c)
      BY <1>1, <2>2 DEF Pump, PumpActive, PumpShared, PumpPinned, PumpPin
    <3> QED BY <3>1, LedgerDeliver
  <2> QED BY <2>1, <2>2
<1>2. ASSUME NEW m \in Msgs, Publish(m) PROVE Ledger'
  <2>1. /\ Range(pending') = Range(pending) \union {m}
        /\ Range(published') = Range(published) \union {m}
    BY <1>0, <1>2, AppendRange DEF Publish
  <2>2. deliveryCount[m] < returned[m] + Limit
    BY <1>0, <1>2, LimitFacts DEF Publish, Ledger, TypeOK
  <2> QED BY <1>00, <1>2, <2>1, <2>2 DEF Publish, Ledger, AttemptsBounded
<1>3. ASSUME NEW h \in Handlers, Subscribe(h) PROVE Ledger'
  BY <1>00, <1>3 DEF Subscribe, Ledger, AttemptsBounded, timerVars
<1>4. ASSUME NEW h \in Handlers, Unsubscribe(h) PROVE Ledger'
  <2> DEFINE held == {m \in Msgs : inflight[m] = h}
  <2>1. Range(pending') = Range(pending) \union held
    BY <1>4, TakeBack DEF Unsubscribe
  <2>2. \A m \in Msgs : returned'[m] = IF m \in held THEN returned[m] + 1 ELSE returned[m]
    BY <1>4 DEF Unsubscribe
  <2> HIDE DEF held
  <2>3. UNCHANGED <<deliveryCount, parked, published>>
    BY <1>4 DEF Unsubscribe, timerVars
  <2>4. ASSUME NEW m \in Msgs
        PROVE  /\ deliveryCount'[m] <= returned'[m] + Limit
               /\ m \in Range(pending') \union parked' =>
                    deliveryCount'[m] < returned'[m] + Limit
    <3>1. /\ returned[m] \in Nat /\ deliveryCount[m] \in Nat
          /\ deliveryCount'[m] = deliveryCount[m]
          /\ deliveryCount[m] <= returned[m] + Limit
      BY <1>0, <2>3 DEF TypeOK, Ledger, AttemptsBounded
    <3>2. CASE m \in held
      <4>1. returned'[m] = returned[m] + 1
        BY <2>2, <3>2
      <4> QED BY <1>0, <3>1, <4>1
    <3>3. CASE m \notin held
      <4>1. returned'[m] = returned[m]
        BY <2>2, <3>3
      <4>2. m \in Range(pending') \union parked' => m \in Range(pending) \union parked
        BY <2>1, <2>3, <3>3
      <4>3. m \in Range(pending) \union parked => deliveryCount[m] < returned[m] + Limit
        BY DEF Ledger
      <4> QED BY <3>1, <4>1, <4>2, <4>3
    <3> QED BY <3>2, <3>3
  <2> QED BY <1>00, <2>3, <2>4 DEF Ledger, AttemptsBounded
<1>5. ASSUME NEW r \in incoming, NEW resolved, Resolve(r, resolved) PROVE Ledger'
  <2>1. r.msg \in Msgs /\ UNCHANGED <<deliveryCount, returned, published>>
    BY <1>0, <1>5 DEF TypeOK, Incoming, Resolve
  <2>2. CASE UNCHANGED <<pending, parked>>
    BY <1>00, <2>1, <2>2 DEF Ledger, AttemptsBounded
  <2>3. ASSUME deliveryCount[r.msg] < MaxDeliveries,
               Range(pending') \union parked' = Range(pending) \union parked \union {r.msg}
        PROVE  Ledger'
    <3>1. deliveryCount[r.msg] < returned[r.msg] + Limit
      BY <1>0, <2>1, <2>3, LimitFacts DEF TypeOK
    <3> QED BY <1>00, <2>1, <2>3, <3>1 DEF Ledger, AttemptsBounded
  <2>4. \/ UNCHANGED <<pending, parked>>
        \/ /\ deliveryCount[r.msg] < MaxDeliveries
           /\ Range(pending') \union parked' = Range(pending) \union parked \union {r.msg}
    <3>1. Range(Append(pending, r.msg)) = Range(pending) \union {r.msg}
      BY <1>0, <2>1, AppendRange
    <3>2. Settle(r, resolved)
      BY <1>5 DEF Resolve
    <3>3. Requeue(r.msg) => \/ UNCHANGED <<pending, parked>>
                            \/ /\ deliveryCount[r.msg] < MaxDeliveries
                               /\ \/ pending' = pending /\ parked' = parked \union {r.msg}
                                  \/ parked' = parked /\ pending' = Append(pending, r.msg)
      BY <1>0, <2>1, LimitFacts DEF Requeue, Leave, Exhausted, TypeOK
    <3>4. UNCHANGED <<pending, parked>> \/ Requeue(r.msg)
      BY <3>2 DEF Settle, Leave
    <3> QED BY <3>1, <3>3, <3>4
  <2> QED BY <2>2, <2>3, <2>4
<1>6. ASSUME NEW r \in incoming, Invoke(r) \/ Return(r) PROVE Ledger'
  BY <1>00, <1>6 DEF Invoke, Return, Ledger, AttemptsBounded, queueVars, timerVars, restVars
<1>7. ASSUME NEW m \in Msgs, RetryTimer(m) PROVE Ledger'
  <2>1. Range(pending') \union parked' = Range(pending) \union parked
    BY <1>0, <1>7, AppendRange DEF RetryTimer
  <2> QED BY <1>00, <1>7, <2>1 DEF RetryTimer, Ledger, AttemptsBounded, restVars
<1>8. ASSUME NEW m \in Msgs, ExpiryTimer(m) PROVE Ledger'
  <2>1. Range(pending') \subseteq Range(pending)
    BY <1>0, <1>8, RemoveAtRange DEF ExpiryTimer, Expire
  <2> QED BY <1>00, <1>8, <2>1 DEF ExpiryTimer, Ledger, AttemptsBounded
<1> QED BY <1>1, <1>2, <1>3, <1>4, <1>5, <1>6, <1>7, <1>8
        DEF Next, Port, Consumer, Timers, Throw

(* A poison message is handed out at most maxDeliveries times plus once    *)
(* for every consumer that dropped while holding it (S8).                  *)
THEOREM AttemptSafety == Spec => []AttemptsBounded
<1>1. Ledger /\ UNCHANGED vars => Ledger'
  BY OptionsKept DEF Ledger, AttemptsBounded, vars, queueVars, timerVars, restVars
<1>2. Core /\ Ledger /\ [Next]_vars => Ledger'
  BY <1>1, LedgerNext
<1>3. Spec => []Core
  BY CoreSafety, PTL DEF Core
<1>4. Ledger => AttemptsBounded
  BY DEF Ledger
<1> QED BY <1>2, <1>3, <1>4, LedgerInit, PTL DEF Spec
-----------------------------------------------------------------------------
(* Group affinity                                                          *)

(* nextGroupDelivery() delivers to the consumer of the group and pins only *)
(* groups that have none.                                                  *)
LEMMA GroupsPump == Core /\ GroupsPinned /\ Pump => GroupsPinned'
<1> SUFFICES ASSUME Core, GroupsPinned, Pump, PartitionByGroup PROVE GroupsPinned'
  BY SetupKept, OptionsKept DEF GroupsPinned, Next
<1>0. TypeOK /\ PrefetchOne /\ pending \in Seq(Msgs)
  BY DEF Core, TypeOK
<1>1. \A m \in Msgs : inflight[m] # NoHandler =>
        /\ inflight[m] = affinity[GroupOf[m]]
        /\ Owner(GroupOf[m]) = inflight[m] /\ inflight[m] \in Busy
  BY <1>0 DEF GroupsPinned, PrefetchOne, Owner, Busy
<1>2. ASSUME NEW i \in DOMAIN pending, NEW c \in Handlers, Deliver(i, c),
             affinity'[GroupOf[pending[i]]] = c,
             \A g \in Groups : g # GroupOf[pending[i]] => affinity'[g] = affinity[g],
             \A m \in Msgs : inflight[m] # NoHandler => GroupOf[m] # GroupOf[pending[i]]
      PROVE  GroupsPinned'
  <2>1. pending[i] \in Msgs
    BY <1>0
  <2>2. inflight' = [inflight EXCEPT ![pending[i]] = c]
    BY <1>2 DEF Deliver
  <2>3. ASSUME NEW m \in Msgs, inflight'[m] # NoHandler
        PROVE  /\ inflight'[m] = affinity'[GroupOf[m]]
               /\ m = pending[i] \/ (inflight[m] # NoHandler /\ GroupOf[m] # GroupOf[pending[i]])
    BY <1>0, <1>1, <1>2, <2>1, <2>2, <2>3 DEF TypeOK
  <2>4. \A m, n \in Msgs :
          inflight[m] # NoHandler /\ inflight[n] # NoHandler /\ GroupOf[n] = GroupOf[m] => n = m
    BY DEF GroupsPinned
  <2> QED BY <2>3, <2>4 DEF GroupsPinned
<1>3. CASE PumpPinned
  <2>1. PICK i \in DOMAIN pending :
          /\ NextGroup(i) /\ Owner(GroupOf[pending[i]]) # NoHandler
          /\ Deliver(i, Owner(GroupOf[pending[i]]))
    BY <1>3 DEF PumpPinned
  <2>2. /\ Owner(GroupOf[pending[i]]) \notin Busy
        /\ Owner(GroupOf[pending[i]]) = affinity[GroupOf[pending[i]]]
    BY <2>1 DEF NextGroup, GroupReady, Owner
  <2>3. Owner(GroupOf[pending[i]]) \in Handlers
    BY <1>0, <2>1, <2>2 DEF TypeOK
  <2>4. affinity' = affinity
    BY <1>3 DEF PumpPinned
  <2> QED BY <1>1, <1>2, <2>1, <2>2, <2>3, <2>4
<1>4. CASE PumpPin
  <2>1. PICK i \in DOMAIN pending, k \in 0 .. Len(consumers) - 1 :
          /\ FirstFree(k) /\ Deliver(i, RoundRobin(k))
          /\ Owner(GroupOf[pending[i]]) = NoHandler
          /\ affinity' = [affinity EXCEPT ![GroupOf[pending[i]]] = RoundRobin(k)]
    BY <1>4 DEF PumpPin
  <2>2. RoundRobin(k) \in Handlers
    BY <1>0, <2>1, FirstFreeFacts
  <2>3. GroupOf[pending[i]] \in Groups
    BY <1>0
  <2>4. /\ affinity'[GroupOf[pending[i]]] = RoundRobin(k)
        /\ \A g \in Groups : g # GroupOf[pending[i]] => affinity'[g] = affinity[g]
    BY <1>0, <2>1, <2>3 DEF TypeOK
  <2> QED BY <1>1, <1>2, <2>1, <2>2, <2>4
<1>5. CASE PumpStop
  <2>1. inflight' = inflight
    BY <1>5 DEF PumpStop
  <2>2. ASSUME NEW m \in Msgs, inflight[m] # NoHandler
        PROVE  affinity'[GroupOf[m]] = affinity[GroupOf[m]]
    <3>1. GroupOf[m] \in Groups /\ Owner(GroupOf[m]) # NoHandler
      BY <1>1, <2>2
    <3> QED BY <1>0, <1>5, <3>1 DEF PumpStop, TypeOK
  <2> QED BY <2>1, <2>2 DEF GroupsPinned
<1> QED BY <1>3, <1>4, <1>5 DEF Pump, PumpActive, PumpShared

(* Nothing but pump() puts a message in flight.                            *)
LEMMA OnlyPumpDelivers ==
  ASSUME Core, Port \/ Consumer \/ Timers
  PROVE  /\ UNCHANGED <<affinity, rr, deliveryCount>>
         /\ \A m \in Msgs : inflight'[m] # NoHandler => inflight'[m] = inflight[m]
<1>0. TypeOK /\ inflight \in [Msgs -> Handlers \union {NoHandler}]
  BY DEF Core, TypeOK
<1>1. CASE Port
  BY <1>0, <1>1 DEF Port, Publish, Subscribe, Unsubscribe
<1>2. ASSUME NEW r \in incoming, NEW resolved, Resolve(r, resolved)
      PROVE  /\ UNCHANGED <<affinity, rr, deliveryCount>>
             /\ \A m \in Msgs : inflight'[m] # NoHandler => inflight'[m] = inflight[m]
  BY <1>0, <1>2 DEF Resolve, Settle
<1>3. CASE Consumer
  BY <1>2, <1>3 DEF Consumer, Throw, Invoke, Return, queueVars
<1>4. CASE Timers
  BY <1>0, <1>4 DEF Timers, RetryTimer, ExpiryTimer, Expire
<1> QED BY <1>1, <1>3, <1>4

(* Two messages of one group are never handled at the same time, however   *)
(* many groups and consumers there are and whoever joins or leaves (S12).  *)
THEOREM GroupSafety == Spec => []GroupsPinned
<1>1. Init => GroupsPinned
  BY DEF Init, GroupsPinned
<1>2. Core /\ GroupsPinned /\ (Port \/ Consumer \/ Timers) => GroupsPinned'
  BY OnlyPumpDelivers, SetupKept, OptionsKept DEF GroupsPinned, Next
<1>3. GroupsPinned /\ UNCHANGED vars => GroupsPinned'
  BY OptionsKept DEF GroupsPinned, vars, queueVars, restVars
<1>4. Core /\ GroupsPinned /\ [Next]_vars => GroupsPinned'
  BY <1>2, <1>3, GroupsPump DEF Next
<1>5. Spec => []Core
  BY CoreSafety, PTL DEF Core
<1> QED BY <1>1, <1>4, <1>5, PTL DEF Spec
-----------------------------------------------------------------------------
(* Single active consumer                                                  *)

(* Every step keeps the messages in flight with consumers[0].              *)
LEMMA ActiveStep == Core /\ OneActiveConsumer /\ Next => OneActiveConsumer'
<1> SUFFICES ASSUME Core, OneActiveConsumer, Next, SingleActive, ~PartitionByGroup
             PROVE  OneActiveConsumer'
  BY SetupKept, OptionsKept DEF OneActiveConsumer
<1>0. /\ TypeOK /\ PrefetchOne /\ consumers \in Seq(Handlers) /\ pending \in Seq(Msgs)
      /\ inflight \in [Msgs -> Handlers \union {NoHandler}]
  BY DEF Core, TypeOK
<1>1. \A m \in Msgs : inflight[m] # NoHandler =>
        /\ inflight[m] = consumers[1]
        /\ \A n \in Msgs : inflight[n] # NoHandler => m = n
  BY DEF OneActiveConsumer
<1>2. CASE PumpActive
  <2>1. PICK i \in DOMAIN pending : Deliver(i, consumers[1])
    BY <1>2 DEF PumpActive, Active
  <2>2. /\ inflight' = [inflight EXCEPT ![pending[i]] = consumers[1]]
        /\ consumers' = consumers /\ pending[i] \in Msgs
    <3>1. inflight' = [inflight EXCEPT ![pending[i]] = consumers[1]]
      BY <2>1 DEF Deliver
    <3>2. consumers' = consumers
      BY <1>2 DEF PumpActive
    <3>3. pending[i] \in Msgs
      BY <1>0
    <3> QED BY <3>1, <3>2, <3>3
  <2>3. \A m \in Msgs : inflight[m] = NoHandler
    BY <1>0, <1>2 DEF PumpActive, Busy
  <2> QED BY <1>0, <2>2, <2>3 DEF OneActiveConsumer
<1>3. CASE PumpStop
  BY <1>1, <1>3 DEF PumpStop, OneActiveConsumer
<1>4. CASE Port \/ Consumer \/ Timers
  <2>1. ASSUME NEW m \in Msgs, inflight'[m] # NoHandler
        PROVE  /\ inflight[m] # NoHandler /\ inflight'[m] = inflight[m]
               /\ consumers # <<>>
    BY <1>0, <1>4, <2>1, OnlyPumpDelivers DEF PrefetchOne, Range
  <2>2. CASE UNCHANGED consumers
    BY <1>1, <2>1, <2>2 DEF OneActiveConsumer
  <2>3. ASSUME NEW h \in Handlers, Subscribe(h) PROVE OneActiveConsumer'
    <3>1. consumers # <<>> => consumers'[1] = consumers[1]
      BY <1>0, <2>3 DEF Subscribe
    <3> QED BY <1>1, <2>1, <3>1 DEF OneActiveConsumer
  <2>4. ASSUME NEW h \in Handlers, Unsubscribe(h) PROVE OneActiveConsumer'
    <3>1. \A m \in Msgs : inflight'[m] # h \/ inflight'[m] = NoHandler
      BY <1>0, <2>4 DEF Unsubscribe
    <3>2. CASE UNCHANGED consumers
      BY <2>2, <3>2
    <3>3. ASSUME NEW i \in DOMAIN consumers, FirstAt(consumers, h, i),
                 consumers' = RemoveAt(consumers, i)
          PROVE  OneActiveConsumer'
      <4>1. CASE i = 1
        <5>1. \A m \in Msgs : inflight'[m] = NoHandler
          BY <1>1, <2>1, <3>1, <3>3, <4>1 DEF FirstAt
        <5> QED BY <5>1 DEF OneActiveConsumer
      <4>2. CASE i # 1
        <5>1. i \in 2 .. Len(consumers) /\ Len(consumers) \in Nat
          BY <1>0, <4>2
        <5>2. 1 \in 1 .. Len(consumers) - 1 /\ 1 < i
          BY <5>1
        <5>3. consumers'[1] = consumers[1]
          BY <1>0, <3>3, <5>2, RemoveAtDef
        <5> QED BY <1>1, <2>1, <5>3 DEF OneActiveConsumer
      <4> QED BY <4>1, <4>2
    <3> QED BY <2>4, <3>2, <3>3 DEF Unsubscribe
  <2>5. \/ UNCHANGED consumers
        \/ \E h \in Handlers : Subscribe(h) \/ Unsubscribe(h)
    BY <1>4 DEF Port, Publish, Consumer, Invoke, Resolve, Throw, Return, Timers,
                RetryTimer, ExpiryTimer, queueVars
  <2> QED BY <2>2, <2>3, <2>4, <2>5
<1> QED BY <1>2, <1>3, <1>4 DEF Next, Pump, PumpShared, PumpPinned, PumpPin

(* Only the longest-attached consumer ever holds a message, also across    *)
(* the promotion of a standby, and it holds one at a time (S18).           *)
THEOREM ActiveSafety == Spec => []OneActiveConsumer
<1>1. Init => OneActiveConsumer
  BY DEF Init, OneActiveConsumer
<1>2. OneActiveConsumer /\ UNCHANGED vars => OneActiveConsumer'
  BY OptionsKept DEF OneActiveConsumer, vars, queueVars, restVars
<1>3. Core /\ OneActiveConsumer /\ [Next]_vars => OneActiveConsumer'
  BY <1>2, ActiveStep
<1>4. Spec => []Core
  BY CoreSafety, PTL DEF Core
<1> QED BY <1>1, <1>3, <1>4, PTL DEF Spec
-----------------------------------------------------------------------------
(* Finality                                                                *)

(* pump() only hands out what is queued, and what is gone is not.          *)
LEMMA GonePump ==
  ASSUME Core, Pump, NEW m \in Msgs
  PROVE  StaysGone(m)
<1>0. TypeOK /\ ExactlyOnePlace
  BY DEF Core
<1>1. ASSUME NEW i \in DOMAIN pending, NEW c, Deliver(i, c), UNCHANGED gone
      PROVE  StaysGone(m)
  <2>1. pending[i] \in Range(pending) /\ pending[i] \in Msgs
    BY <1>0 DEF TypeOK, Range
  <2>2. deliveryCount' = [deliveryCount EXCEPT ![pending[i]] = @ + 1]
    BY <1>1 DEF Deliver
  <2> QED BY <1>0, <1>1, <2>1, <2>2 DEF TypeOK, ExactlyOnePlace, StaysGone
<1>2. CASE PumpActive
  BY <1>1, <1>2 DEF PumpActive, restVars
<1>3. CASE PumpShared
  BY <1>1, <1>3 DEF PumpShared, restVars
<1>4. CASE PumpPinned
  BY <1>1, <1>4 DEF PumpPinned, restVars
<1>5. CASE PumpPin
  BY <1>1, <1>5 DEF PumpPin, restVars
<1>6. CASE PumpStop
  BY <1>6 DEF PumpStop, restVars, StaysGone
<1> QED BY <1>2, <1>3, <1>4, <1>5, <1>6 DEF Pump

(* A settle, a throw or a return marks only a message that is in flight.   *)
LEMMA GoneConsumer ==
  ASSUME Core, Consumer, NEW m \in Msgs
  PROVE  StaysGone(m)
<1>0. TypeOK /\ ExactlyOnePlace
  BY DEF Core
<1>1. ASSUME NEW r \in incoming, NEW resolved, Resolve(r, resolved)
      PROVE  StaysGone(m)
  <2>1. r.msg \in Msgs /\ r.consumer \in Handlers /\ deliveryCount' = deliveryCount
    BY <1>0, <1>1 DEF TypeOK, Incoming, Resolve
  <2>2. CASE ~Holds(r)
    BY <1>1, <2>1, <2>2 DEF Resolve, Settle, StaysGone
  <2>3. CASE Holds(r)
    <3>1. gone[r.msg] = "no"
      BY <1>0, <2>1, <2>3 DEF Holds, ExactlyOnePlace
    <3>2. gone' = gone \/ \E how : gone' = [gone EXCEPT ![r.msg] = how]
      BY <1>1, <2>3 DEF Resolve, Settle, Requeue, Leave
    <3> QED BY <1>0, <2>1, <3>1, <3>2 DEF TypeOK, StaysGone
  <2> QED BY <2>2, <2>3
<1> QED BY <1>1 DEF Consumer, Throw, Invoke, Return, queueVars, restVars, StaysGone

(* publish(), subscribe() and unsubscribe() do not touch what is gone; an  *)
(* expiry timer marks only what is still in the queue.                     *)
LEMMA GoneRest ==
  ASSUME Core, Port \/ Timers, NEW m \in Msgs
  PROVE  StaysGone(m)
<1>0. TypeOK /\ ExactlyOnePlace
  BY DEF Core
<1>1. CASE Port
  BY <1>1 DEF Port, Publish, Subscribe, Unsubscribe, StaysGone
<1>2. ASSUME NEW n \in Msgs, RetryTimer(n) PROVE StaysGone(m)
  BY <1>2 DEF RetryTimer, restVars, StaysGone
<1>3. ASSUME NEW n \in Msgs, ExpiryTimer(n) PROVE StaysGone(m)
  <2>1. CASE Unconsumed(n)
    <3>1. gone[n] = "no"
      BY <1>0, <2>1 DEF Unconsumed, ExactlyOnePlace
    <3>2. gone' = gone \/ gone' = [gone EXCEPT ![n] = "expired"]
      BY <1>3 DEF ExpiryTimer, Expire
    <3> QED BY <1>0, <1>3, <3>1, <3>2 DEF TypeOK, ExpiryTimer, StaysGone
  <2>2. CASE ~Unconsumed(n)
    BY <1>3, <2>2 DEF ExpiryTimer, StaysGone
  <2> QED BY <2>1, <2>2
<1> QED BY <1>1, <1>2, <1>3 DEF Timers

(* A message that was acked, dead-lettered, dropped or expired never comes *)
(* back and is never handed out again, whatever late settles, timers and   *)
(* consumer drops do.                                                      *)
THEOREM Finality == Spec => GoneForGood
<1>1. Core /\ [Next]_vars => [\A m \in Msgs : StaysGone(m)]_vars
  BY GonePump, GoneConsumer, GoneRest DEF Next
<1>2. Spec => []Core
  BY CoreSafety, PTL DEF Core
<1> QED BY <1>1, <1>2, PTL DEF Spec, GoneForGood

-----------------------------------------------------------------------------
(* The parts of the core invariant on their own                            *)

(* The fields of the queue keep their types.                               *)
THEOREM Typing == Spec => []TypeOK
BY CoreSafety, PTL

(* A consumer holds at most one message, and only while it is attached.    *)
THEOREM PrefetchSafety == Spec => []PrefetchOne
BY CoreSafety, PTL
-----------------------------------------------------------------------------
(* Time-to-live                                                            *)

(* Without a retry delay nothing is parked, so an expiry timer finds its   *)
(* message in the queue or in flight unless it is gone already.            *)
Timely == ~RetryDelay => parked = {} /\ \A m \in Msgs : ~Outlived(m)

(* Nothing but an expiry timer disarms one, publish() arms it.             *)
LEMMA TtlKept ==
  ASSUME Core, [Next]_vars, NEW m \in Msgs
  PROVE  /\ setup' = setup
         /\ gone[m] # "no" => gone'[m] # "no"
         /\ m \in ttlArmed \ ttlArmed' => ExpiryTimer(m)
         /\ m \in Range(published') =>
              m \in Range(published) \/ (m \in setup.ttl => m \in ttlArmed')
<1>1. setup' = setup
  BY SetupKept
<1>2. gone[m] # "no" => gone'[m] # "no"
  <2>1. CASE Next
    <3>1. StaysGone(m)
      BY <2>1, GonePump, GoneConsumer, GoneRest DEF Next
    <3> QED BY <3>1 DEF StaysGone
  <2>2. CASE UNCHANGED vars
    BY <2>2 DEF vars, restVars
  <2> QED BY <2>1, <2>2
<1>3. m \in ttlArmed \ ttlArmed' => ExpiryTimer(m)
  BY DEF Next, vars, timerVars, Pump, PumpActive, PumpShared, PumpPinned, PumpPin, PumpStop,
         Port, Publish, Subscribe, Unsubscribe, Consumer, Invoke, Resolve, Throw, Return,
         Timers, RetryTimer, ExpiryTimer
<1>4. UNCHANGED published \/ \E n \in Msgs : Publish(n)
  BY DEF Next, vars, restVars, Pump, PumpActive, PumpShared, PumpPinned, PumpPin, PumpStop,
         Port, Subscribe, Unsubscribe, Consumer, Invoke, Resolve, Throw, Return,
         Timers, RetryTimer, ExpiryTimer
<1>5. ASSUME NEW n \in Msgs, Publish(n), m \in Range(published'), m \notin Range(published)
      PROVE  m \in setup.ttl => m \in ttlArmed'
  <2>1. Range(published') = Range(published) \union {n}
    BY <1>5, AppendRange DEF Publish, Core, TypeOK
  <2> QED BY <1>5, <2>1 DEF Publish
<1> QED BY <1>1, <1>2, <1>3, <1>4, <1>5

(* Only a nack with a retry delay parks a message.                         *)
LEMMA ParkedKept ==
  ASSUME [Next]_vars, ~RetryDelay, parked = {} PROVE parked' = {}
<1>1. ASSUME NEW r, NEW resolved, Resolve(r, resolved) PROVE parked' = {}
  BY <1>1 DEF Resolve, Settle, Requeue, Leave
<1>2. UNCHANGED parked \/ (\E r \in incoming, resolved \in Resolutions : Resolve(r, resolved))
      \/ (\E m \in Msgs : RetryTimer(m))
  BY DEF Next, vars, timerVars, Pump, PumpActive, PumpShared, PumpPinned, PumpPin, PumpStop,
         Port, Publish, Subscribe, Unsubscribe, Consumer, Invoke, Throw, Return,
         Timers, ExpiryTimer, Resolutions
<1> QED BY <1>1, <1>2 DEF RetryTimer

(* Without a retry delay a message whose expiry timer has fired is out of  *)
(* the queue for good, wherever it was: see TtlFinal.                      *)
THEOREM ExpirySafety == Spec => []TtlFinal
<1>1. Init => Timely
  <2> SUFFICES ASSUME Init PROVE Timely
    OBVIOUS
  <2>1. Range(published) = {}
    BY DEF Init, Range
  <2> QED BY <2>1 DEF Init, Timely, Outlived
<1>2. Core /\ Timely /\ [Next]_vars => Timely'
  <2> SUFFICES ASSUME Core, Timely, [Next]_vars, ~RetryDelay
               PROVE  parked' = {} /\ \A m \in Msgs : ~Outlived(m)'
    BY SetupKept DEF Timely, RetryDelay
  <2>1. parked = {} /\ parked' = {}
    BY ParkedKept DEF Timely
  <2>2. ASSUME NEW m \in Msgs, Outlived(m)' PROVE FALSE
    <3>1. /\ m \in setup.ttl /\ m \in Range(published) /\ gone[m] = "no" /\ gone'[m] = "no"
          /\ m \notin ttlArmed'
      BY <2>2, TtlKept DEF Outlived
    <3>2. m \in ttlArmed
      BY <3>1 DEF Timely, Outlived
    <3>3. ExpiryTimer(m)
      BY <3>1, <3>2, TtlKept
    <3>4. Unconsumed(m)
      BY <2>1, <3>1 DEF Core, ExactlyOnePlace, Unconsumed
    <3>5. gone' = [gone EXCEPT ![m] = "expired"]
      BY <3>3, <3>4 DEF ExpiryTimer, Expire
    <3>6. gone'[m] = "expired"
      BY <3>5 DEF Core, TypeOK
    <3> QED BY <3>1, <3>6
  <2> QED BY <2>1, <2>2
<1>3. Timely => TtlFinal
  BY DEF Timely, TtlFinal
<1>4. Spec => []Core
  BY CoreSafety, PTL DEF Core
<1> QED BY <1>1, <1>2, <1>3, <1>4, PTL DEF Spec
-----------------------------------------------------------------------------
(* No message is left waiting                                              *)

(* Whether pump() can deliver depends on the queue, the consumers, who is  *)
(* busy, and on pins to consumers that are attached.                       *)
LEMMA CanDeliverKept ==
  ASSUME TypeOK, UNCHANGED <<setup, pending, inflight, consumers>>,
         \A i \in DOMAIN pending : Owner(GroupOf[pending[i]])' = Owner(GroupOf[pending[i]])
  PROVE  CanDeliver' = CanDeliver
<1>1. Busy' = Busy
  BY DEF Busy
<1>2. NobodyFree' = NobodyFree
  BY <1>1 DEF NobodyFree
<1>3. \A i \in DOMAIN pending : GroupReady(i)' <=> GroupReady(i)
  BY <1>1, <1>2 DEF GroupReady
<1>4. PartitionByGroup' = PartitionByGroup /\ SingleActive' = SingleActive
  BY OptionsKept
<1>5. (\E i \in DOMAIN pending : GroupReady(i))' <=> \E i \in DOMAIN pending : GroupReady(i)
  BY <1>3
<1> QED BY <1>1, <1>2, <1>4, <1>5 DEF CanDeliver

(* A step that ends outside pump() either ends the loop, or was outside    *)
(* before and expires a message or moves none.                             *)
LEMMA IdleSteps ==
  ASSUME [Next]_vars, ~pumping'
  PROVE  \/ PumpStop
         \/ ~pumping /\ \E m \in Msgs : gone' = [gone EXCEPT ![m] = "expired"]
         \/ ~pumping /\ UNCHANGED <<setup, pending, inflight, consumers, affinity, gone>>
<1> DEFINE Idle == \/ PumpStop
                   \/ ~pumping /\ \E m \in Msgs : gone' = [gone EXCEPT ![m] = "expired"]
                   \/ ~pumping /\ UNCHANGED <<setup, pending, inflight, consumers, affinity, gone>>
<1> SUFFICES Idle
  OBVIOUS
<1>1. CASE Pump
  BY <1>1 DEF Pump, PumpActive, PumpShared, PumpPinned, PumpPin
<1>2. CASE Port
  BY <1>2 DEF Port, Publish, Subscribe, Unsubscribe
<1>3. ASSUME NEW r \in incoming, NEW resolved, Resolve(r, resolved) PROVE Idle
  <2>1. ~Holds(r)
    BY <1>3 DEF Resolve, Settle
  <2> QED BY <1>3, <2>1 DEF Resolve, Settle
<1>4. CASE Consumer
  BY <1>3, <1>4 DEF Consumer, Throw, Invoke, Return, queueVars, restVars
<1>5. CASE Timers
  BY <1>5 DEF Timers, RetryTimer, ExpiryTimer, Expire, queueVars, restVars
<1>6. CASE UNCHANGED vars
  BY <1>6 DEF vars, queueVars, restVars
<1> QED BY <1>1, <1>2, <1>4, <1>5, <1>6 DEF Next

(* While no message expires, no message waits for a free consumer once the *)
(* event loop is idle: see NothingStranded.                                *)
THEOREM StrandedSafety == Spec => []NothingStranded
<1>1. Init => NothingStranded
  BY DEF Init, NothingStranded, CanDeliver
<1>2. Core /\ NothingStranded /\ [Next]_vars => NothingStranded'
  <2> SUFFICES ASSUME Core, NothingStranded, [Next]_vars, ~pumping',
                      \A m \in Msgs : gone'[m] # "expired"
               PROVE  ~CanDeliver'
    BY DEF NothingStranded
  <2>0. TypeOK
    BY DEF Core
  <2>1. CASE PumpStop
    <3>1. UNCHANGED <<setup, pending, inflight, consumers>> /\ ~CanDeliver
      BY <2>1 DEF PumpStop, restVars
    <3>2. ASSUME NEW g \in Groups PROVE Owner(g)' = Owner(g)
      <4>1. CASE affinity'[g] = affinity[g]
        BY <3>1, <4>1 DEF Owner
      <4>2. CASE affinity'[g] = NoHandler /\ Owner(g) = NoHandler
        BY <3>1, <4>2 DEF Owner
      <4> QED BY <2>0, <2>1, <4>1, <4>2 DEF PumpStop, TypeOK
    <3>3. \A i \in DOMAIN pending : GroupOf[pending[i]] \in Groups
      BY <2>0 DEF TypeOK
    <3> QED BY <2>0, <3>1, <3>2, <3>3, CanDeliverKept
  <2>2. ASSUME NEW m \in Msgs, gone' = [gone EXCEPT ![m] = "expired"] PROVE FALSE
    <3>1. gone'[m] = "expired"
      BY <2>0, <2>2 DEF TypeOK
    <3> QED BY <3>1
  <2>3. CASE ~pumping /\ UNCHANGED <<setup, pending, inflight, consumers, affinity, gone>>
    <3>1. ~CanDeliver
      BY <2>3 DEF NothingStranded
    <3>2. \A g : Owner(g)' = Owner(g)
      BY <2>3 DEF Owner
    <3> QED BY <2>0, <2>3, <3>1, <3>2, CanDeliverKept
  <2> QED BY <2>1, <2>2, <2>3, IdleSteps
<1>3. Spec => []Core
  BY CoreSafety, PTL DEF Core
<1> QED BY <1>1, <1>2, <1>3, PTL DEF Spec

-----------------------------------------------------------------------------
(* Order of first deliveries                                               *)

(* A message that was never handed out.                                    *)
Fresh(m) == deliveryCount[m] = 0

(* What was never handed out is queued or expired, and the fresh messages  *)
(* of the queue are in publish order: requeues come from consumers.        *)
InLine ==
  /\ \A m \in Msgs : m \notin Range(published) => Fresh(m)
  /\ \A m \in Msgs : Fresh(m) => /\ inflight[m] = NoHandler /\ m \notin parked
                                 /\ gone[m] = "no" \/ gone[m] = "expired"
  /\ \A m, n \in Msgs :
       /\ Precedes(published, m, n) /\ Fresh(m) /\ Fresh(n)
       /\ m \in Range(pending) /\ n \in Range(pending)
       => Precedes(pending, m, n)

(* The message pump() hands out is not overtaking a fresh one: nextPending *)
(* and nextGroupDelivery both take the first of those that are alike.      *)
LEMMA NotOvertaking ==
  ASSUME Core, NEW i \in DOMAIN pending,
         IF PartitionByGroup THEN NextGroup(i) ELSE NextPending(i),
         NEW m \in Msgs, Precedes(pending, m, pending[i])
  PROVE  ~MustPrecede(m, pending[i])
<1>1. pending \in Seq(Msgs) /\ IsInjective(pending)
  BY DEF Core, TypeOK, ExactlyOnePlace
<1>2. PICK j, k \in DOMAIN pending : j < k /\ pending[j] = m /\ pending[k] = pending[i]
  BY DEF Precedes
<1>3. k = i
  BY <1>1, <1>2 DEF IsInjective
<1>4. CASE PartitionByGroup
  <2>1. ~GroupReady(j) /\ GroupReady(i)
    BY <1>2, <1>3, <1>4 DEF NextGroup
  <2> QED BY <1>2, <1>4, <2>1 DEF MustPrecede, GroupReady
<1>5. CASE ~PartitionByGroup
  <2>1. PriorityOf[m] < PriorityOf[pending[i]]
    BY <1>2, <1>3, <1>5 DEF NextPending
  <2>2. PriorityOf[m] \in Int /\ PriorityOf[pending[i]] \in Int
    BY <1>1
  <2>3. ~(PriorityOf[m] >= PriorityOf[pending[i]])
    BY <2>1, <2>2
  <2> QED BY <1>5, <2>3 DEF MustPrecede
<1> QED BY <1>4, <1>5

(* FirstDeliveryInOrder, message by message.                               *)
InOrder ==
  \A m, n \in Msgs :
    Precedes(published, m, n) /\ MustPrecede(m, n) /\ ~Fresh(n) =>
      ~Fresh(m) \/ gone[m] = "expired"

(* Handing out a message that overtakes nobody keeps the line.             *)
LEMMA LineDeliver ==
  ASSUME Core, InLine, InOrder, NEW i \in DOMAIN pending, NEW c, Deliver(i, c),
         IF PartitionByGroup THEN NextGroup(i) ELSE NextPending(i),
         UNCHANGED <<timerVars, restVars>>
  PROVE  InLine' /\ InOrder'
<1> DEFINE e == pending[i]
<1>0. TypeOK /\ ExactlyOnePlace /\ pending \in Seq(Msgs) /\ IsInjective(pending)
  BY DEF Core, TypeOK, ExactlyOnePlace
<1>1. e \in Msgs /\ e \in Range(pending) /\ e \in Range(published)
  <2>1. e \in Msgs /\ e \in Range(pending)
    BY <1>0 DEF Range
  <2> QED BY <1>0, <2>1 DEF ExactlyOnePlace
<1>2. UNCHANGED <<parked, setup, published, gone>>
  BY DEF timerVars, restVars
<1>3. \A m \in Msgs : Fresh(m)' <=> Fresh(m) /\ m # e
  <2>1. deliveryCount' = [deliveryCount EXCEPT ![e] = deliveryCount[e] + 1]
    BY DEF Deliver
  <2>2. \A m \in Msgs : deliveryCount[m] \in Nat
    BY <1>0 DEF TypeOK
  <2>3. \A m \in Msgs : deliveryCount'[m] = IF m = e THEN deliveryCount[e] + 1 ELSE deliveryCount[m]
    BY <1>0, <2>1 DEF TypeOK
  <2> QED BY <1>1, <2>2, <2>3 DEF Fresh
<1>4. \A m \in Msgs : m # e => inflight'[m] = inflight[m]
  BY <1>0 DEF Deliver, TypeOK
<1>5. pending' = RemoveAt(pending, i) /\ Range(pending') = Range(pending) \ {e}
  BY <1>0, RemoveAtInjective DEF Deliver
<1>6. \A m, n : MustPrecede(m, n)' <=> MustPrecede(m, n)
  BY <1>2, OptionsKept DEF MustPrecede
<1>7. \A m \in Msgs : Precedes(pending, m, e) => ~MustPrecede(m, e)
  BY NotOvertaking
<1> HIDE DEF e
<1>8. ASSUME NEW m \in Msgs, NEW n \in Msgs, Precedes(published, m, n), m # e, n # e,
             Fresh(m), Fresh(n), m \in Range(pending'), n \in Range(pending')
      PROVE  Precedes(pending', m, n)
  <2>1. Precedes(pending, m, n)
    BY <1>5, <1>8 DEF InLine
  <2> QED BY <1>0, <1>5, <1>8, <2>1, PrecedesRemoveAt DEF e
<1>9. InLine'
  <2>1. \A m \in Msgs : m \notin Range(published)' => Fresh(m)'
    BY <1>1, <1>2, <1>3 DEF InLine
  <2>2. \A m \in Msgs : Fresh(m)' => /\ inflight'[m] = NoHandler /\ m \notin parked'
                                     /\ gone'[m] = "no" \/ gone'[m] = "expired"
    BY <1>2, <1>3, <1>4 DEF InLine
  <2>3. \A m, n \in Msgs :
          /\ Precedes(published', m, n) /\ Fresh(m)' /\ Fresh(n)'
          /\ m \in Range(pending') /\ n \in Range(pending')
          => Precedes(pending', m, n)
    BY <1>2, <1>3, <1>8
  <2> QED BY <2>1, <2>2, <2>3 DEF InLine
<1>10. ASSUME NEW m \in Msgs, NEW n \in Msgs, Precedes(published, m, n), MustPrecede(m, n),
              ~Fresh(n)', Fresh(m)', gone[m] # "expired"
       PROVE  FALSE
  <2>1. Fresh(m) /\ m # e
    BY <1>3, <1>10
  <2>2. Fresh(n) /\ n = e
    BY <1>3, <1>10, <2>1 DEF InOrder
  <2>3. m \in Range(pending)
    <3>1. m \in Range(published)
      BY <1>10, PrecedesRange
    <3> QED BY <1>0, <1>10, <2>1, <3>1 DEF InLine, ExactlyOnePlace
  <2>4. Precedes(pending, m, e)
    BY <1>1, <1>10, <2>1, <2>2, <2>3 DEF InLine
  <2> QED BY <1>7, <1>10, <2>2, <2>4
<1>11. InOrder'
  BY <1>2, <1>6, <1>10 DEF InOrder
<1> QED BY <1>9, <1>11

(* So does a step that hands out nothing and leaves the fresh messages of  *)
(* the queue in their order, except that some of them may expire.          *)
LEMMA LineKept ==
  ASSUME InLine, InOrder, UNCHANGED <<setup, deliveryCount, published>>,
         \A m \in Msgs : inflight'[m] # NoHandler => inflight'[m] = inflight[m],
         \A m \in Msgs : Fresh(m) => /\ m \notin parked'
                                     /\ gone'[m] = gone[m] \/ gone'[m] = "expired"
                                     /\ m \in Range(pending') => m \in Range(pending),
         \A m \in Msgs : gone[m] = "expired" => gone'[m] = "expired",
         \A m, n \in Msgs : /\ Fresh(m) /\ Fresh(n) /\ Precedes(pending, m, n)
                            /\ m \in Range(pending') /\ n \in Range(pending')
                            => Precedes(pending', m, n)
  PROVE  InLine' /\ InOrder'
<1>1. \A m : Fresh(m)' <=> Fresh(m)
  BY DEF Fresh
<1>2. \A m, n : MustPrecede(m, n)' <=> MustPrecede(m, n)
  BY OptionsKept DEF MustPrecede
<1>3. InOrder'
  BY <1>1, <1>2 DEF InOrder
<1>4. \A m \in Msgs : m \notin Range(published)' => Fresh(m)'
  BY <1>1 DEF InLine
<1>5. \A m \in Msgs : Fresh(m)' => /\ inflight'[m] = NoHandler /\ m \notin parked'
                                   /\ gone'[m] = "no" \/ gone'[m] = "expired"
  BY <1>1 DEF InLine
<1>6. \A m, n \in Msgs :
        /\ Precedes(published', m, n) /\ Fresh(m)' /\ Fresh(n)'
        /\ m \in Range(pending') /\ n \in Range(pending')
        => Precedes(pending', m, n)
  BY <1>1 DEF InLine
<1> QED BY <1>3, <1>4, <1>5, <1>6 DEF InLine

(* A published message is the last of the line.                            *)
LEMMA LinePublish ==
  ASSUME Core, InLine, InOrder, NEW e \in Msgs, Publish(e)
  PROVE  InLine' /\ InOrder'
<1>0. pending \in Seq(Msgs) /\ published \in Seq(Msgs)
  BY DEF Core, TypeOK
<1>1. /\ UNCHANGED <<setup, inflight, deliveryCount, parked, gone>>
      /\ e \notin Range(published)
      /\ pending' = Append(pending, e) /\ published' = Append(published, e)
  BY DEF Publish
<1>2. Fresh(e) /\ \A m : Fresh(m)' <=> Fresh(m)
  BY <1>1 DEF InLine, Fresh
<1>3. \A m, n : MustPrecede(m, n)' <=> MustPrecede(m, n)
  BY <1>1, OptionsKept DEF MustPrecede
<1>4. Range(pending') = Range(pending) \union {e} /\ Range(published') = Range(published) \union {e}
  BY <1>0, <1>1, AppendRange
<1>5. \A a, b : Precedes(published', a, b) =>
        Precedes(published, a, b) \/ (b = e /\ a \in Range(published))
  BY <1>0, <1>1, PrecedesAppend
<1>6. /\ \A a, b : Precedes(pending, a, b) => Precedes(pending', a, b)
      /\ \A a \in Range(pending) : Precedes(pending', a, e)
  BY <1>0, <1>1, PrecedesAppend
<1>7. InOrder'
  BY <1>1, <1>2, <1>3, <1>5 DEF InOrder
<1>8. ASSUME NEW m \in Msgs, NEW n \in Msgs, Precedes(published', m, n), Fresh(m), Fresh(n),
             m \in Range(pending'), n \in Range(pending')
      PROVE  Precedes(pending', m, n)
  <2>1. CASE Precedes(published, m, n)
    <3>1. m # e /\ n # e
      BY <1>1, <2>1, PrecedesRange
    <3>2. Precedes(pending, m, n)
      BY <1>4, <1>8, <2>1, <3>1 DEF InLine
    <3> QED BY <1>6, <3>2
  <2>2. CASE n = e /\ m \in Range(published)
    BY <1>1, <1>4, <1>6, <1>8, <2>2
  <2> QED BY <1>5, <1>8, <2>1, <2>2
<1>9. InLine'
  <2>1. \A m \in Msgs : m \notin Range(published)' => Fresh(m)'
    BY <1>2, <1>4 DEF InLine
  <2>2. \A m \in Msgs : Fresh(m)' => /\ inflight'[m] = NoHandler /\ m \notin parked'
                                     /\ gone'[m] = "no" \/ gone'[m] = "expired"
    BY <1>1, <1>2 DEF InLine
  <2> QED BY <1>2, <1>8, <2>1, <2>2 DEF InLine
<1> QED BY <1>7, <1>9

(* Every step of the queue keeps the line.                                 *)
LEMMA LineStep == Core /\ InLine /\ InOrder /\ Next => InLine' /\ InOrder'
<1> SUFFICES ASSUME Core, InLine, InOrder, Next PROVE InLine' /\ InOrder'
  OBVIOUS
<1>0. /\ TypeOK /\ ExactlyOnePlace /\ pending \in Seq(Msgs)
      /\ inflight \in [Msgs -> Handlers \union {NoHandler}]
  BY DEF Core, TypeOK
<1>1. CASE Pump
  <2>1. ASSUME NEW i \in DOMAIN pending, NEW c, Deliver(i, c),
               IF PartitionByGroup THEN NextGroup(i) ELSE NextPending(i),
               UNCHANGED <<timerVars, restVars>>
        PROVE  InLine' /\ InOrder'
    BY <2>1, LineDeliver
  <2>2. CASE PumpActive \/ PumpShared
    <3>1. /\ ~PartitionByGroup /\ UNCHANGED <<timerVars, restVars>>
          /\ \E i \in DOMAIN pending : NextPending(i) /\ \E c : Deliver(i, c)
      BY <2>2 DEF PumpActive, PumpShared
    <3> QED BY <2>1, <3>1
  <2>3. CASE PumpPinned \/ PumpPin
    <3>1. /\ PartitionByGroup /\ UNCHANGED <<timerVars, restVars>>
          /\ \E i \in DOMAIN pending : NextGroup(i) /\ \E c : Deliver(i, c)
      BY <2>3 DEF PumpPinned, PumpPin
    <3> QED BY <2>1, <3>1
  <2>4. CASE PumpStop
    BY <2>4, LineKept DEF PumpStop, timerVars, restVars, InLine
  <2> QED BY <1>1, <2>2, <2>3, <2>4 DEF Pump
<1>2. CASE Port \/ Consumer \/ Timers
  <2>1. /\ deliveryCount' = deliveryCount /\ setup' = setup
        /\ \A m \in Msgs : inflight'[m] # NoHandler => inflight'[m] = inflight[m]
    BY <1>2, OnlyPumpDelivers, SetupKept DEF Next
  <2>2. \A m \in Msgs : gone[m] = "expired" => gone'[m] = "expired"
    BY <1>2, GoneConsumer, GoneRest DEF StaysGone
  <2>3. ASSUME NEW e \in Msgs, pending' = Append(pending, e), ~Fresh(e)
        PROVE  /\ \A m \in Msgs : Fresh(m) /\ m \in Range(pending') => m \in Range(pending)
               /\ \A m, n \in Msgs : Precedes(pending, m, n) => Precedes(pending', m, n)
    BY <1>0, <2>3, AppendRange, PrecedesAppend
  <2>4. ASSUME UNCHANGED <<published, parked, gone>>,
               pending' = pending \/ \E e \in Msgs : pending' = Append(pending, e) /\ ~Fresh(e)
        PROVE  InLine' /\ InOrder'
    BY <2>1, <2>2, <2>3, <2>4, LineKept DEF InLine
  <2>5. ASSUME NEW m \in Msgs, Publish(m) PROVE InLine' /\ InOrder'
    BY <2>5, LinePublish
  <2>6. ASSUME NEW h \in Handlers, Subscribe(h) PROVE InLine' /\ InOrder'
    BY <2>4, <2>6 DEF Subscribe, timerVars
  <2>7. ASSUME NEW h \in Handlers, Unsubscribe(h) PROVE InLine' /\ InOrder'
    <3> DEFINE held == {m \in Msgs : inflight[m] = h}
    <3>1. PICK back \in SetToSeqs(held) : pending' = back \o pending
      BY <2>7 DEF Unsubscribe
    <3>2. UNCHANGED <<published, parked, gone>>
      BY <2>7 DEF Unsubscribe, timerVars
    <3>3. Range(pending') = Range(pending) \union held
      BY <3>1, TakeBack
    <3>4. \A m \in held : ~Fresh(m)
      BY DEF InLine
    <3>5. back \in Seq(Msgs)
      BY TakeBack
    <3>6. \A m, n : Precedes(pending, m, n) => Precedes(pending', m, n)
      BY <1>0, <3>1, <3>5, PrecedesConcat
    <3>7. \A m \in Msgs : Fresh(m) => m \notin parked' /\ (m \in Range(pending') => m \in Range(pending))
      BY <3>2, <3>3, <3>4 DEF InLine
    <3> HIDE DEF held
    <3> QED BY <2>1, <2>2, <3>2, <3>6, <3>7, LineKept
  <2>8. ASSUME NEW r \in incoming, NEW resolved, Resolve(r, resolved) PROVE InLine' /\ InOrder'
    <3>1. r.msg \in Msgs /\ r.consumer \in Handlers /\ published' = published
      BY <1>0, <2>8 DEF TypeOK, Incoming, Resolve
    <3>2. CASE ~Holds(r)
      BY <2>4, <2>8, <3>1, <3>2 DEF Resolve, Settle
    <3>3. CASE Holds(r)
      <4>1. ~Fresh(r.msg)
        BY <3>1, <3>3 DEF Holds, InLine
      <4>2. CASE \E how : Leave(r.msg, how)
        <5>1. \A m \in Msgs : m # r.msg => gone'[m] = gone[m]
          BY <1>0, <4>2 DEF Leave, TypeOK
        <5>2. pending' = pending /\ parked' = parked
          BY <4>2 DEF Leave
        <5>3. \A m \in Msgs : Fresh(m) => m \notin parked' /\ gone'[m] = gone[m]
          BY <4>1, <5>1, <5>2 DEF InLine
        <5> QED BY <2>1, <2>2, <3>1, <5>2, <5>3, LineKept
      <4>3. CASE parked' = parked \union {r.msg} /\ UNCHANGED <<pending, gone>>
        <5>1. \A m \in Msgs : Fresh(m) => m \notin parked' /\ gone'[m] = gone[m]
          BY <4>1, <4>3 DEF InLine
        <5> QED BY <2>1, <2>2, <3>1, <4>3, <5>1, LineKept
      <4>4. CASE pending' = Append(pending, r.msg) /\ UNCHANGED <<parked, gone>>
        BY <2>4, <3>1, <4>1, <4>4
      <4> QED BY <2>8, <3>3, <4>2, <4>3, <4>4 DEF Resolve, Settle, Requeue
    <3> QED BY <3>2, <3>3
  <2>9. ASSUME NEW r \in incoming, Invoke(r) \/ Return(r) PROVE InLine' /\ InOrder'
    BY <2>4, <2>9 DEF Invoke, Return, queueVars, timerVars, restVars
  <2>10. ASSUME NEW m \in Msgs, RetryTimer(m) PROVE InLine' /\ InOrder'
    <3>1. ~Fresh(m) /\ pending' = Append(pending, m) /\ parked' \subseteq parked
      BY <2>10 DEF RetryTimer, InLine
    <3>2. UNCHANGED <<published, gone>>
      BY <2>10 DEF RetryTimer, restVars
    <3>3. \A n \in Msgs : Fresh(n) => n \notin parked' /\ (n \in Range(pending') => n \in Range(pending))
      BY <2>3, <3>1 DEF InLine
    <3> QED BY <2>1, <2>2, <2>3, <3>1, <3>2, <3>3, LineKept
  <2>11. ASSUME NEW e \in Msgs, ExpiryTimer(e) PROVE InLine' /\ InOrder'
    <3>1. UNCHANGED <<published, parked>>
      BY <2>11 DEF ExpiryTimer
    <3>2. \A m \in Msgs : gone'[m] = gone[m] \/ gone'[m] = "expired"
      BY <1>0, <2>11 DEF ExpiryTimer, Expire, TypeOK
    <3>3. CASE pending' = pending
      BY <2>1, <2>2, <3>1, <3>2, <3>3, LineKept DEF InLine
    <3>4. ASSUME NEW i \in DOMAIN pending, pending' = RemoveAt(pending, i)
          PROVE  InLine' /\ InOrder'
      <4>1. Range(pending') = Range(pending) \ {pending[i]}
        BY <1>0, <3>4, RemoveAtInjective DEF ExactlyOnePlace
      <4>2. \A m, n \in Msgs : Precedes(pending, m, n) /\ m \in Range(pending') /\ n \in Range(pending')
              => Precedes(pending', m, n)
        BY <1>0, <3>4, <4>1, PrecedesRemoveAt
      <4>3. \A m \in Msgs : Fresh(m) => m \notin parked' /\ (m \in Range(pending') => m \in Range(pending))
        BY <3>1, <4>1 DEF InLine
      <4> QED BY <2>1, <2>2, <3>1, <3>2, <4>2, <4>3, LineKept
    <3> QED BY <2>11, <3>3, <3>4 DEF ExpiryTimer, Expire
  <2> QED BY <1>2, <2>5, <2>6, <2>7, <2>8, <2>9, <2>10, <2>11 DEF Port, Consumer, Timers, Throw
<1> QED BY <1>1, <1>2 DEF Next

(* No message overtakes an earlier one of its group or of at least its     *)
(* priority to its first delivery, whatever requeues, drops and retries    *)
(* happen: see FirstDeliveryInOrder.                                       *)
THEOREM OrderSafety == Spec => []FirstDeliveryInOrder
<1>1. Init => InLine /\ InOrder
  <2> SUFFICES ASSUME Init PROVE InLine /\ InOrder
    OBVIOUS
  <2>1. Range(pending) = {} /\ Range(published) = {}
    BY DEF Init, Range
  <2>2. \A m \in Msgs : Fresh(m) /\ inflight[m] = NoHandler /\ m \notin parked /\ gone[m] = "no"
    BY DEF Init, Fresh
  <2> QED BY <2>1, <2>2 DEF InLine, InOrder
<1>2. Core /\ InLine /\ InOrder /\ [Next]_vars => InLine' /\ InOrder'
  <2>1. InLine /\ InOrder /\ UNCHANGED vars => InLine' /\ InOrder'
    BY LineKept DEF InLine, vars, queueVars, timerVars, restVars
  <2> QED BY <2>1, LineStep
<1>3. Core /\ InOrder => FirstDeliveryInOrder
  <2> SUFFICES ASSUME Core, InOrder, NEW i \in DOMAIN published, NEW j \in DOMAIN published,
                      i < j, MustPrecede(published[i], published[j]),
                      deliveryCount[published[j]] > 0
               PROVE  deliveryCount[published[i]] > 0 \/ gone[published[i]] = "expired"
    BY DEF FirstDeliveryInOrder
  <2>1. published[i] \in Msgs /\ published[j] \in Msgs
    BY DEF Core, TypeOK
  <2>2. deliveryCount[published[i]] \in Nat /\ deliveryCount[published[j]] \in Nat
    BY <2>1 DEF Core, TypeOK
  <2>3. ~Fresh(published[j])
    BY <2>2 DEF Fresh
  <2>4. Precedes(published, published[i], published[j])
    BY DEF Precedes
  <2>5. ~Fresh(published[i]) \/ gone[published[i]] = "expired"
    BY <2>1, <2>3, <2>4 DEF InOrder
  <2> QED BY <2>2, <2>5 DEF Fresh
<1>4. Spec => []Core
  BY CoreSafety, PTL DEF Core
<1> QED BY <1>1, <1>2, <1>3, <1>4, PTL DEF Spec
=============================================================================
