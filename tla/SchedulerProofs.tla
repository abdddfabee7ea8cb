-------------------------- MODULE SchedulerProofs ---------------------------
(***************************************************************************)
(* The two in-process schedulers, for any messages, handlers, destinations *)
(* and times.                                                              *)
(*                                                                         *)
(* TypeScript (MemScheduler): a message is dispatched once, and the        *)
(* scheduler implements the port.                                          *)
(* .NET (NetScheduler): a handler sees a message once and not early, and a *)
(* cancel that is through before the message is due stops it.              *)
(*                                                                         *)
(* The variables of SchedulerState stand, in each theorem, for those of    *)
(* the specification the theorem names.                                    *)
(***************************************************************************)
EXTENDS MemScheduler, NetScheduler, TLAPS

USE SchedulerAssumption, TimesAssumption

-----------------------------------------------------------------------------
(* Types                                                                   *)

(* setTimeout waits at least 1.                                            *)
LEMMA DelayFacts ==
  ASSUME TypeOK, NEW at \in Times
  PROVE  /\ DelayUntil(at) \in Nat
         /\ at <= TimerMax => now + DelayUntil(at) >= at
<1>1. at \in Nat /\ now \in Nat /\ TimerMax \in Nat
  BY DEF TypeOK
<1> QED BY <1>1 DEF DelayUntil, Delay

(* Every variable keeps its type, and a message is listed exactly as long  *)
(* as its timer is armed.                                                  *)
THEOREM Typing == Spec => []TypeOK
<1>1. Init => TypeOK
  <2>1. Init => consumed \subseteq Dests \X Handlers /\ exited \in BOOLEAN
    BY DEF Init
  <2>2. Init => tasks \in Seq(Messages)
    BY DEF Init
  <2> QED BY <2>1, <2>2 DEF Init, TypeOK, Messages, Off
<1>2. TypeOK /\ [Next]_vars => TypeOK'
  <2> SUFFICES ASSUME TypeOK, [Next]_vars PROVE TypeOK'
    OBVIOUS
  <2> USE DEF TypeOK, Messages, Off, Running
  <2>1. ASSUME NEW id \in Ids, NEW at \in Times, Schedule(id, at) PROVE TypeOK'
    <3>1. now + DelayUntil(at) \in Nat
      BY DelayFacts
    <3> QED BY <2>1, <3>1 DEF Schedule
  <2>2. ASSUME NEW id \in Ids, Cancel(id) PROVE TypeOK'
    BY <2>2 DEF Cancel
  <2>3. ASSUME NEW m \in Messages, Dispatch(m)
        PROVE  dispatched' \in [Messages -> Nat] /\ tasks' \in Seq(Messages)
    BY <2>3 DEF Dispatch
  <2>4. ASSUME NEW id \in Ids, TimerFires(id) PROVE TypeOK'
    BY <2>3, <2>4 DEF TimerFires
  <2>5. ASSUME NEW m \in Instant, SendNow(m) PROVE TypeOK'
    BY <2>3, <2>5 DEF SendNow
  <2>6. CASE RunTask
    <3>1. Head(tasks) \in Messages /\ tasks' \in Seq(Messages)
      BY <2>6 DEF RunTask
    <3>2. received' \in [Messages -> [Handlers -> Nat]]
      BY <2>6, <3>1 DEF RunTask
    <3> QED BY <2>6, <3>1, <3>2 DEF RunTask
  <2>7. ASSUME NEW d \in Dests, NEW h \in Handlers, Consume(d, h) \/ Unsubscribe(d, h)
        PROVE  TypeOK'
    <3>1. CASE Consume(d, h)
      BY <3>1 DEF Consume
    <3>2. CASE Unsubscribe(d, h)
      BY <3>2 DEF Unsubscribe
    <3> QED BY <2>7, <3>1, <3>2
  <2>8. CASE Dispose
    BY <2>8 DEF Dispose
  <2>9. CASE Tick
    BY <2>9 DEF Tick
  <2>10. CASE Exit
    BY <2>10 DEF Exit
  <2>11. CASE UNCHANGED vars
    BY <2>11 DEF vars
  <2> QED BY <2>1, <2>2, <2>4, <2>5, <2>6, <2>7, <2>8, <2>9, <2>10, <2>11 DEF Next
<1> QED BY <1>1, <1>2, PTL DEF Spec
-----------------------------------------------------------------------------
(* The life of a message                                                   *)

(* Nothing happens to a message before it is asked for, and one that is    *)
(* listed was neither cancelled nor dispatched.                            *)
Lives ==
  /\ \A m \in Messages : m \notin asked => dispatched[m] = 0
  /\ pending \subseteq asked /\ cancelled \subseteq asked
  /\ \A id \in pending : dispatched[id] = 0 /\ id \notin cancelled

(* A message waits in one microtask at most, and until that runs no        *)
(* handler has seen it.                                                    *)
Queued ==
  /\ \A i, j \in DOMAIN tasks : tasks[i] = tasks[j] => i = j
  /\ \A i \in DOMAIN tasks : /\ dispatched[tasks[i]] = 1
                             /\ \A h \in Handlers : received[tasks[i]][h] = 0

Once ==
  /\ \A m \in Messages : dispatched[m] <= 1
  /\ \A m \in Messages, h \in Handlers : received[m][h] <= dispatched[m]

Life == Lives /\ Queued /\ Once

(* dispatch() of a message that was not dispatched before.                 *)
LEMMA DispatchLife ==
  ASSUME TypeOK, Life, NEW m \in Messages, dispatched[m] = 0, Dispatch(m), received' = received
  PROVE  Queued' /\ Once' /\ \A n \in Messages : n # m => dispatched'[n] = dispatched[n]
<1>1. /\ tasks \in Seq(Messages) /\ dispatched \in [Messages -> Nat]
      /\ received \in [Messages -> [Handlers -> Nat]]
      /\ tasks' = Append(tasks, m) /\ dispatched' = [dispatched EXCEPT ![m] = @ + 1]
  BY DEF TypeOK, Dispatch
<1>2. \A i \in DOMAIN tasks : tasks[i] \in Messages /\ tasks[i] # m
  BY <1>1 DEF Life, Queued
<1>3. \A h \in Handlers : received[m][h] = 0
  BY <1>1 DEF Life, Once
<1>4. /\ dispatched'[m] = 1
      /\ \A n \in Messages : n # m => dispatched'[n] = dispatched[n]
  BY <1>1
<1>5. Once'
  BY <1>1, <1>3, <1>4 DEF Life, Once
<1>6. /\ DOMAIN tasks' = 1 .. Len(tasks) + 1 /\ DOMAIN tasks = 1 .. Len(tasks)
      /\ Len(tasks) \in Nat /\ tasks'[Len(tasks) + 1] = m
      /\ \A i \in 1 .. Len(tasks) : tasks'[i] = tasks[i]
  BY <1>1
<1>7. \A i \in DOMAIN tasks' : i = Len(tasks) + 1 \/ i \in DOMAIN tasks
  BY <1>6
<1>8. Queued'
  BY <1>2, <1>3, <1>4, <1>6, <1>7 DEF Life, Queued
<1> QED BY <1>4, <1>5, <1>8

(* The microtask of a message runs: its handlers see it for the first time.*)
LEMMA RunLife ==
  ASSUME TypeOK, Life, RunTask
  PROVE  Life'
<1> DEFINE m == Head(tasks)
<1>1. /\ tasks \in Seq(Messages) /\ tasks # <<>> /\ tasks' = Tail(tasks)
      /\ received \in [Messages -> [Handlers -> Nat]]
      /\ dispatched' = dispatched /\ dispatched \in [Messages -> Nat]
  BY DEF TypeOK, RunTask
<1>2. /\ Len(tasks) \in Nat \ {0} /\ DOMAIN tasks = 1 .. Len(tasks) /\ m = tasks[1]
      /\ DOMAIN tasks' = 1 .. Len(tasks) - 1
      /\ \A i \in 1 .. Len(tasks) - 1 : tasks'[i] = tasks[i + 1]
  BY <1>1
<1>3. /\ m \in Messages /\ dispatched[m] = 1 /\ \A h \in Handlers : received[m][h] = 0
  <2>1. 1 \in DOMAIN tasks /\ tasks[1] \in Messages
    BY <1>1, <1>2
  <2> QED BY <1>2, <2>1 DEF Life, Queued
<1>4. /\ \A h \in Handlers : received'[m][h] \in {0, 1}
      /\ \A n \in Messages : n # m => received'[n] = received[n]
  BY <1>1, <1>3 DEF RunTask
<1>5. ASSUME NEW i \in DOMAIN tasks'
      PROVE  /\ i + 1 \in DOMAIN tasks /\ i + 1 # 1 /\ tasks'[i] = tasks[i + 1]
             /\ tasks'[i] # m /\ tasks'[i] \in Messages
  <2>1. i + 1 \in DOMAIN tasks /\ i + 1 # 1 /\ tasks'[i] = tasks[i + 1]
    BY <1>2
  <2> QED BY <1>1, <1>2, <2>1 DEF Life, Queued
<1>6. Queued'
  <2>1. ASSUME NEW i \in DOMAIN tasks', NEW j \in DOMAIN tasks', tasks'[i] = tasks'[j]
        PROVE  i = j
    <3>1. i + 1 = j + 1
      BY <1>5, <2>1 DEF Life, Queued
    <3> QED BY <1>2, <3>1
  <2>2. ASSUME NEW i \in DOMAIN tasks'
        PROVE  /\ dispatched'[tasks'[i]] = 1
               /\ \A h \in Handlers : received'[tasks'[i]][h] = 0
    <3>1. /\ dispatched[tasks[i + 1]] = 1
          /\ \A h \in Handlers : received[tasks[i + 1]][h] = 0
      BY <1>5 DEF Life, Queued
    <3> QED BY <1>1, <1>4, <1>5, <3>1
  <2> QED BY <2>1, <2>2 DEF Queued
<1>7. Once'
  BY <1>1, <1>3, <1>4 DEF Life, Once
<1>8. Lives'
  BY DEF RunTask, Life, Lives
<1> QED BY <1>6, <1>7, <1>8 DEF Life

(* Every step of the event loop keeps a message on its one way.            *)
LEMMA LifeStep == TypeOK /\ Life /\ [Next]_vars => Life'
<1> SUFFICES ASSUME TypeOK, Life, [Next]_vars PROVE Life'
  OBVIOUS
<1>1. ASSUME NEW id \in Ids, NEW at \in Times, Schedule(id, at) PROVE Life'
  <2>1. Lives'
    BY <1>1 DEF Schedule, Life, Lives, TypeOK, Messages
  <2> QED BY <1>1, <2>1 DEF Schedule, Life, Queued, Once
<1>2. ASSUME NEW id \in Ids, Cancel(id) PROVE Life'
  <2>1. Lives'
    BY <1>2 DEF Cancel, Life, Lives, TypeOK, Messages
  <2> QED BY <1>2, <2>1 DEF Cancel, Life, Queued, Once
<1>3. ASSUME NEW id \in Ids, TimerFires(id) PROVE Life'
  <2>1. id \in pending /\ id \in Messages /\ dispatched[id] = 0 /\ id \in asked
    BY <1>3 DEF TimerFires, Life, Lives, TypeOK, Messages
  <2>2. Dispatch(id) /\ received' = received /\ pending' = pending \ {id}
    BY <1>3 DEF TimerFires
  <2>3. Queued' /\ Once' /\ \A n \in Messages : n # id => dispatched'[n] = dispatched[n]
    BY <2>1, <2>2, DispatchLife
  <2>4. Lives'
    BY <1>3, <2>1, <2>3 DEF TimerFires, Life, Lives, TypeOK, Messages
  <2> QED BY <2>3, <2>4 DEF Life
<1>4. ASSUME NEW m \in Instant, SendNow(m) PROVE Life'
  <2>1. m \in Messages /\ m \notin asked /\ dispatched[m] = 0
    BY <1>4 DEF SendNow, Life, Lives, Messages
  <2>2. Dispatch(m) /\ received' = received
    BY <1>4 DEF SendNow
  <2>3. Queued' /\ Once' /\ \A n \in Messages : n # m => dispatched'[n] = dispatched[n]
    BY <2>1, <2>2, DispatchLife
  <2>4. Lives'
    BY <1>4, <2>1, <2>3 DEF SendNow, Life, Lives, TypeOK, Messages
  <2> QED BY <2>3, <2>4 DEF Life
<1>5. CASE RunTask
  BY <1>5, RunLife
<1>6. ASSUME NEW d \in Dests, NEW h \in Handlers, Consume(d, h) \/ Unsubscribe(d, h)
      PROVE  Life'
  BY <1>6 DEF Consume, Unsubscribe, Life, Lives, Queued, Once
<1>7. CASE Dispose
  BY <1>7 DEF Dispose, Life, Lives, Queued, Once
<1>8. CASE Tick \/ Exit \/ UNCHANGED vars
  BY <1>8 DEF Tick, Exit, vars, Life, Lives, Queued, Once
<1> QED BY <1>1, <1>2, <1>3, <1>4, <1>5, <1>6, <1>7, <1>8 DEF Next

(* Life holds throughout.                                                  *)
LEMMA LifeInvariant == Spec => []Life
<1>1. Init => Life
  BY DEF Init, Life, Lives, Queued, Once, Messages
<1> QED BY <1>1, LifeStep, Typing, PTL DEF Spec

(* Whoever is registered for a destination was registered by consume(),    *)
(* and so was every handler that saw a message.                            *)
Registered ==
  /\ \A d \in Dests : \A h \in handlers[d] : <<d, h>> \in consumed
  /\ \A m \in Messages, h \in Handlers : received[m][h] > 0 => <<DestOf[m], h>> \in consumed

(* Every step keeps the messages with the handlers of their destination.   *)
LEMMA RegisteredStep == TypeOK /\ Registered /\ [Next]_vars => Registered'
<1> SUFFICES ASSUME TypeOK, Registered, [Next]_vars PROVE Registered'
  OBVIOUS
<1>1. CASE RunTask
  <2> DEFINE m == Head(tasks)
  <2>1. m \in Messages /\ DestOf[m] \in Dests
    BY <1>1 DEF RunTask, TypeOK, Messages
  <2>2. \A n \in Messages, h \in Handlers :
          received'[n][h] = IF n = m /\ h \in handlers[DestOf[m]] THEN received[n][h] + 1
                                                                ELSE received[n][h]
    BY <1>1, <2>1 DEF RunTask, TypeOK
  <2>3. consumed' = consumed /\ handlers' = handlers
    BY <1>1 DEF RunTask
  <2>4. ASSUME NEW n \in Messages, NEW h \in Handlers, received'[n][h] > 0
        PROVE  <<DestOf[n], h>> \in consumed
    <3>1. CASE n = m /\ h \in handlers[DestOf[m]]
      BY <2>1, <3>1 DEF Registered
    <3>2. CASE ~(n = m /\ h \in handlers[DestOf[m]])
      BY <2>2, <2>4, <3>2 DEF Registered
    <3> QED BY <3>1, <3>2
  <2> QED BY <2>3, <2>4 DEF Registered
<1>2. ASSUME NEW d \in Dests, NEW h \in Handlers, Consume(d, h) \/ Unsubscribe(d, h)
      PROVE  Registered'
  <2>1. received' = received /\ consumed \subseteq consumed'
    BY <1>2 DEF Consume, Unsubscribe
  <2>2. ASSUME NEW e \in Dests, NEW g \in handlers'[e] PROVE <<e, g>> \in consumed'
    <3>1. CASE Consume(d, h)
      <4>1. g \in handlers[e] \/ (e = d /\ g = h)
        BY <3>1 DEF Consume, TypeOK
      <4>2. CASE g \in handlers[e]
        BY <2>1, <4>2 DEF Registered
      <4>3. CASE e = d /\ g = h
        BY <3>1, <4>3 DEF Consume
      <4> QED BY <4>1, <4>2, <4>3
    <3>2. CASE Unsubscribe(d, h)
      <4>1. g \in handlers[e]
        BY <3>2 DEF Unsubscribe, TypeOK
      <4> QED BY <2>1, <4>1 DEF Registered
    <3> QED BY <1>2, <3>1, <3>2
  <2> QED BY <2>1, <2>2 DEF Registered
<1>3. CASE Dispose
  BY <1>3 DEF Dispose, Registered
<1>4. CASE UNCHANGED <<handlers, received, consumed>>
  BY <1>4 DEF Registered
<1> QED BY <1>1, <1>2, <1>3, <1>4
        DEF Next, Schedule, Cancel, TimerFires, SendNow, Tick, Exit, vars

(* dispatch() and the handlers of the destination, and no others, are      *)
(* called at most once: see AtMostOnce.                                    *)
THEOREM OnceSafety == Spec => []AtMostOnce
<1>1. Init => Registered
  BY DEF Init, Registered
<1>2. Life /\ Registered => AtMostOnce
  BY DEF Life, Once, Registered, AtMostOnce
<1> QED BY <1>1, <1>2, RegisteredStep, LifeInvariant, Typing, PTL DEF Spec
-----------------------------------------------------------------------------
(* The scheduler implements the port                                       *)

(* setTimeout can wait for every time that is asked for; in-memory.ts does *)
(* not split longer delays, which would be served at once.                 *)
DelaysFit == \A at \in Times : at <= TimerMax

(* A timer is never armed for less than its message has to wait.           *)
OnTime == \A id \in pending : timer[id] >= deliverAt[id]

(* Every step keeps the timers late enough.                                *)
LEMMA OnTimeStep == DelaysFit /\ TypeOK /\ OnTime /\ [Next]_vars => OnTime'
<1> SUFFICES ASSUME DelaysFit, TypeOK, OnTime, [Next]_vars PROVE OnTime'
  OBVIOUS
<1>1. ASSUME NEW id \in Ids, NEW at \in Times, Schedule(id, at) PROVE OnTime'
  <2>1. now + DelayUntil(at) >= at
    BY DelayFacts DEF DelaysFit
  <2> QED BY <1>1, <2>1 DEF Schedule, OnTime, TypeOK
<1>2. ASSUME NEW id \in Ids, Cancel(id) \/ TimerFires(id) PROVE OnTime'
  BY <1>2 DEF Cancel, TimerFires, OnTime, TypeOK
<1>3. CASE Dispose
  BY <1>3 DEF Dispose, OnTime
<1>4. CASE UNCHANGED <<pending, timer, deliverAt>>
  BY <1>4 DEF OnTime
<1> QED BY <1>1, <1>2, <1>3, <1>4
        DEF Next, SendNow, RunTask, Consume, Unsubscribe, Tick, Exit, vars

(* Every step of the scheduler is a step of the port, or none.             *)
LEMMA PortStep ==
  TypeOK /\ Life /\ OnTime /\ [Next]_vars
    => [Port!PortNext]_<<now, deliverAt, [id \in Ids |-> Fate(id)]>>
<1> SUFFICES ASSUME TypeOK, Life, OnTime, [Next]_vars
             PROVE  [Port!PortNext]_<<now, deliverAt, [id \in Ids |-> Fate(id)]>>
  OBVIOUS
<1> DEFINE fate == [id \in Ids |-> Fate(id)]
<1>0. \A id \in Ids : /\ id \in Messages
                      /\ id \in pending => id \in asked /\ dispatched[id] = 0 /\ id \notin cancelled
                      /\ id \notin asked => dispatched[id] = 0 /\ id \notin cancelled /\ id \notin pending
  BY DEF Life, Lives, Messages
<1>1. ASSUME NEW id \in Ids, NEW at \in Times, Schedule(id, at)
      PROVE  Port!PortSchedule(id, at)
  <2>1. Fate(id) = "unborn" /\ Fate(id)' = "listed"
    BY <1>0, <1>1 DEF Schedule, Fate
  <2>2. \A n \in Ids : n # id => Fate(n)' = Fate(n)
    BY <1>1 DEF Schedule, Fate
  <2>3. fate' = [fate EXCEPT ![id] = "listed"]
    BY <2>1, <2>2
  <2> QED BY <1>1, <2>1, <2>3 DEF Schedule, Port!PortSchedule
<1>2. ASSUME NEW id \in Ids, Cancel(id)
      PROVE  Port!PortCancel(id)
  <2>1. Fate(id) = "listed" /\ Fate(id)' = "cancelled"
    BY <1>0, <1>2 DEF Cancel, Fate
  <2>2. \A n \in Ids : n # id => Fate(n)' = Fate(n)
    BY <1>2 DEF Cancel, Fate
  <2>3. fate' = [fate EXCEPT ![id] = "cancelled"]
    BY <2>1, <2>2
  <2> QED BY <1>2, <2>1, <2>3 DEF Cancel, Port!PortCancel
<1>3. ASSUME NEW id \in Ids, TimerFires(id)
      PROVE  Port!PortFire(id)
  <2>1. id \in pending /\ deliverAt[id] <= now
    <3>1. id \in pending /\ timer[id] <= now
      BY <1>3 DEF TimerFires, TypeOK
    <3>2. timer[id] >= deliverAt[id]
      BY <3>1 DEF OnTime
    <3>3. timer[id] \in Int
      BY DEF TypeOK, Off
    <3>4. deliverAt[id] \in Nat
      <4>1. deliverAt[id] \in Times \union {0}
        BY DEF TypeOK
      <4>2. \A t \in Times : t \in Nat
        BY SchedulerAssumption
      <4>3. CASE deliverAt[id] \in Times
        BY <4>2, <4>3, Zenon
      <4>4. CASE deliverAt[id] = 0
        BY <4>4
      <4> QED BY <4>1, <4>3, <4>4, Zenon
    <3>5. now \in Int
      BY SchedulerAssumption DEF TypeOK
    <3> QED BY <3>1, <3>2, <3>3, <3>4, <3>5
  <2>2. dispatched' = [dispatched EXCEPT ![id] = @ + 1] /\ dispatched \in [Messages -> Nat]
    BY <1>3 DEF TimerFires, Dispatch, TypeOK
  <2>3. dispatched'[id] > 0 /\ \A n \in Ids : n # id => dispatched'[n] = dispatched[n]
    BY <1>0, <2>2
  <2>4. Fate(id) = "listed" /\ Fate(id)' = "fired"
    BY <1>3, <2>1, <2>3 DEF TimerFires, Fate
  <2>5. \A n \in Ids : n # id => Fate(n)' = Fate(n)
    BY <1>3, <2>3 DEF TimerFires, Fate
  <2>6. fate' = [fate EXCEPT ![id] = "fired"]
    BY <2>4, <2>5
  <2> QED BY <1>3, <2>1, <2>4, <2>6 DEF TimerFires, Port!PortFire
<1>4. CASE Dispose
  <2>1. \A n \in Ids : Fate(n)' = IF Fate(n) = "listed" THEN "disposed" ELSE Fate(n)
    BY <1>0, <1>4 DEF Dispose, Fate
  <2>2. Port!PortDispose
    BY <1>4, <2>1 DEF Dispose, Port!PortDispose
  <2> QED BY <2>2 DEF Port!PortNext
<1>5. CASE Tick
  <2>1. \A n \in Ids : Fate(n)' = Fate(n)
    BY <1>5 DEF Tick, Fate
  <2>2. Port!PortTick
    BY <1>5, <2>1 DEF Tick, Port!PortTick
  <2> QED BY <2>2 DEF Port!PortNext
<1>6. ASSUME UNCHANGED <<now, deliverAt>>, \A n \in Ids : Fate(n)' = Fate(n)
      PROVE  UNCHANGED <<now, deliverAt, fate>>
  BY <1>6
<1>7. ASSUME NEW m \in Instant, SendNow(m) PROVE UNCHANGED <<now, deliverAt, fate>>
  <2>1. /\ dispatched' = [dispatched EXCEPT ![m] = @ + 1] /\ dispatched \in [Messages -> Nat]
        /\ m \notin Ids
    BY <1>7 DEF SendNow, Dispatch, TypeOK
  <2>2. \A n \in Ids : dispatched'[n] = dispatched[n]
    BY <1>0, <2>1
  <2>3. \A n \in Ids : Fate(n)' = Fate(n)
    BY <1>7, <2>1, <2>2 DEF SendNow, Fate
  <2> QED BY <1>6, <1>7, <2>3 DEF SendNow
<1>8. CASE UNCHANGED <<now, deliverAt, pending, dispatched, cancelled, asked>>
  BY <1>6, <1>8 DEF Fate
<1> QED BY <1>1, <1>2, <1>3, <1>4, <1>5, <1>7, <1>8
        DEF Next, RunTask, Consume, Unsubscribe, Exit, vars, Port!PortNext

(* As long as setTimeout can wait for every time asked for, the scheduler  *)
(* does what the port promises: see ImplementsPort.                        *)
THEOREM Refinement ==
  ASSUME DelaysFit
  PROVE  Spec => ImplementsPort
<1>1. Init => OnTime
  BY DEF Init, OnTime
<1>2. Init => Port!PortInit
  BY DEF Init, Port!PortInit, Fate, Messages
<1>3. TypeOK /\ OnTime /\ [Next]_vars => OnTime'
  BY OnTimeStep
<1> QED BY <1>1, <1>2, <1>3, PortStep, Typing, LifeInvariant, PTL
        DEF Spec, ImplementsPort, Port!PortSpec

-----------------------------------------------------------------------------
(* The .NET scheduler                                                      *)

NetDelays == {"none", "waiting", "ran", "canceled"}
NetPhases == {"unborn", "listed", "overlong", "armed", "threw", "dropped", "removed", "dispatched"}

(* The values the scheduler's state takes.                                 *)
NetTyped ==
  /\ now \in Nat
  /\ deliverAt \in [Ids -> Nat]
  /\ delay \in [Ids -> NetDelays]
  /\ phase \in [Ids -> NetPhases]
  /\ handlers \subseteq Handlers /\ consuming \subseteq Handlers
  /\ targets \in [Ids -> SUBSET Handlers]
  /\ received \in [Ids -> [Handlers -> Nat]]

(* A message nobody asked for has no delay; one on its way to the handlers *)
(* is due; one whose source is cancelled has no delay that can elapse.     *)
NetTiming ==
  \A id \in Ids :
    /\ phase[id] = "unborn" => deliverAt[id] = 0 /\ delay[id] = "none"
    /\ delay[id] = "ran" => deliverAt[id] <= now
    /\ phase[id] \in {"removed", "dispatched"} => deliverAt[id] <= now
    /\ id \in cts => delay[id] # "waiting"

(* A handler that Dispatch still has to call was not called yet, and no    *)
(* handler is called before Dispatch has taken its snapshot.               *)
NetCalls ==
  \A id \in Ids, h \in Handlers :
    /\ received[id][h] <= 1
    /\ h \in targets[id] => received[id][h] = 0 /\ phase[id] = "dispatched"
    /\ received[id][h] > 0 => phase[id] = "dispatched"

-----------------------------------------------------------------------------
(* The initial state has the types.                                        *)
LEMMA NetTypedInit == NetInit => NetTyped
BY DEF NetInit, NetTyped, NetDelays, NetPhases

(* Every step keeps the types.                                             *)
LEMMA NetTypedStep == NetTyped /\ [NetNext]_netVars => NetTyped'
<1> SUFFICES ASSUME NetTyped, [NetNext]_netVars PROVE NetTyped'
  OBVIOUS
<1>1. ASSUME NEW id \in Ids, NEW at \in Times, ScheduleList(id, at) PROVE NetTyped'
  <2>1. at \in Nat
    BY SchedulerAssumption
  <2>2. deliverAt' \in [Ids -> Nat]
    BY <1>1, <2>1 DEF ScheduleList, NetTyped
  <2>3. phase' \in [Ids -> NetPhases]
    BY <1>1 DEF ScheduleList, NetTyped, NetPhases
  <2> QED BY <1>1, <2>2, <2>3 DEF ScheduleList, NetTyped
<1>2. ASSUME NEW id \in Ids, SendNowAsync(id) \/ ScheduleThrows(id) \/ ContinueCanceled(id)
                             \/ ContinueRemove(id) PROVE NetTyped'
  <2>1. phase' \in [Ids -> NetPhases]
    BY <1>2 DEF SendNowAsync, ScheduleThrows, ContinueCanceled, ContinueRemove,
            NetTyped, NetPhases
  <2> QED BY <1>2, <2>1 DEF SendNowAsync, ScheduleThrows, ContinueCanceled, ContinueRemove,
          NetTyped
<1>3. ASSUME NEW id \in Ids, ScheduleArm(id) PROVE NetTyped'
  <2>1. phase' \in [Ids -> NetPhases] /\ delay' \in [Ids -> NetDelays]
    BY <1>3 DEF ScheduleArm, NetTyped, NetPhases, NetDelays
  <2> QED BY <1>3, <2>1 DEF ScheduleArm, NetTyped
<1>4. ASSUME NEW id \in Ids, DelayElapses(id) PROVE NetTyped'
  <2>1. delay' \in [Ids -> NetDelays]
    BY <1>4 DEF DelayElapses, NetTyped, NetDelays
  <2> QED BY <1>4, <2>1 DEF DelayElapses, NetTyped
<1>5. ASSUME NEW id \in Ids, DispatchSnapshot(id) PROVE NetTyped'
  <2>1. phase' \in [Ids -> NetPhases] /\ targets' \in [Ids -> SUBSET Handlers]
    BY <1>5 DEF DispatchSnapshot, NetTyped, NetPhases
  <2> QED BY <1>5, <2>1 DEF DispatchSnapshot, NetTyped
<1>6. ASSUME NEW id \in Ids, NEW h \in Handlers, NEW throws \in BOOLEAN,
             CallHandler(id, h, throws)
      PROVE  NetTyped'
  <2>1. received' \in [Ids -> [Handlers -> Nat]]
    BY <1>6 DEF CallHandler, NetTyped
  <2>2. targets' \in [Ids -> SUBSET Handlers]
    BY <1>6 DEF CallHandler, NetTyped
  <2> QED BY <1>6, <2>1, <2>2 DEF CallHandler, NetTyped
<1>7. ASSUME NEW id \in Ids, CancelCts(id) \/ DisposeCancel(id) PROVE NetTyped'
  <2>1. delay' \in [Ids -> NetDelays]
    BY <1>7 DEF CancelCts, DisposeCancel, CancelSource, NetTyped, NetDelays
  <2> QED BY <1>7, <2>1 DEF CancelCts, DisposeCancel, CancelSource, NetTyped
<1>8. ASSUME NEW h \in Handlers, ConsumeGet(h) \/ ConsumeAdd(h) \/ SubscriptionDispose(h)
      PROVE  NetTyped'
  BY <1>8 DEF ConsumeGet, ConsumeAdd, SubscriptionDispose, NetTyped
<1>9. ASSUME DisposeHandlers \/ NetTick PROVE NetTyped'
  BY <1>9 DEF DisposeHandlers, NetTick, NetTyped
<1>10. ASSUME UNCHANGED <<now, deliverAt, delay, phase, handlers, consuming, targets, received>>
       PROVE  NetTyped'
  BY <1>10 DEF NetTyped
<1> QED BY <1>1, <1>2, <1>3, <1>4, <1>5, <1>6, <1>7, <1>8, <1>9, <1>10
        DEF NetNext, CancelRemove, DisposeStart, DisposePending, netVars

(* The types hold throughout.                                              *)
LEMMA NetTypedInvariant == NetSpec => []NetTyped
BY NetTypedInit, NetTypedStep, PTL DEF NetSpec

-----------------------------------------------------------------------------
(* Every step keeps the timing of the messages.                            *)
LEMMA NetTimingStep == NetTyped /\ NetTyped' /\ NetTiming /\ [NetNext]_netVars => NetTiming'
<1> SUFFICES ASSUME NetTyped, NetTyped', NetTiming, [NetNext]_netVars PROVE NetTiming'
  OBVIOUS
<1>1. ASSUME NEW id \in Ids, NEW at \in Times, ScheduleList(id, at) PROVE NetTiming'
  BY <1>1 DEF ScheduleList, NetTyped, NetTiming
<1>2. ASSUME NEW id \in Ids, SendNowAsync(id) \/ ScheduleThrows(id) \/ ContinueCanceled(id)
                             \/ ContinueRemove(id) PROVE NetTiming'
  BY <1>2 DEF SendNowAsync, ScheduleThrows, ContinueCanceled, ContinueRemove,
          NetTyped, NetTiming
<1>3. ASSUME NEW id \in Ids, ScheduleArm(id) PROVE NetTiming'
  BY <1>3 DEF ScheduleArm, NetTyped, NetTiming
<1>4. ASSUME NEW id \in Ids, DelayElapses(id) PROVE NetTiming'
  BY <1>4 DEF DelayElapses, NetTyped, NetTiming
<1>5. ASSUME NEW id \in Ids, DispatchSnapshot(id) PROVE NetTiming'
  BY <1>5 DEF DispatchSnapshot, NetTyped, NetTiming
<1>7. ASSUME NEW id \in Ids, CancelCts(id) \/ DisposeCancel(id) PROVE NetTiming'
  BY <1>7 DEF CancelCts, DisposeCancel, CancelSource, NetTyped, NetTiming
<1>8. CASE NetTick
  BY <1>8 DEF NetTick, NetTyped, NetTiming
<1>9. ASSUME UNCHANGED <<now, deliverAt, delay, phase, cts>> PROVE NetTiming'
  BY <1>9 DEF NetTiming
<1> QED BY <1>1, <1>2, <1>3, <1>4, <1>5, <1>7, <1>8, <1>9
        DEF NetNext, CallHandler, CancelRemove, ConsumeGet, ConsumeAdd, SubscriptionDispose,
            DisposeStart, DisposePending, DisposeHandlers, netVars

(* The timing holds throughout.                                            *)
LEMMA NetTimingInvariant == NetSpec => []NetTiming
<1>1. NetInit => NetTiming
  BY DEF NetInit, NetTiming
<1> QED BY <1>1, NetTimingStep, NetTypedInvariant, PTL DEF NetSpec

(* Every step keeps a handler from being called twice.                     *)
LEMMA NetCallsStep == NetTyped /\ NetTyped' /\ NetCalls /\ [NetNext]_netVars => NetCalls'
<1> SUFFICES ASSUME NetTyped, NetTyped', NetCalls, [NetNext]_netVars PROVE NetCalls'
  OBVIOUS
<1>1. ASSUME NEW id \in Ids, UNCHANGED <<received, targets>>, phase[id] # "dispatched",
             \A n \in Ids : n # id => phase'[n] = phase[n]
      PROVE  NetCalls'
  BY <1>1 DEF NetTyped, NetCalls
<1>2. ASSUME NEW id \in Ids, DispatchSnapshot(id) PROVE NetCalls'
  BY <1>2 DEF DispatchSnapshot, NetTyped, NetCalls
<1>3. ASSUME NEW id \in Ids, NEW h \in Handlers, NEW throws \in BOOLEAN,
             CallHandler(id, h, throws)
      PROVE  NetCalls'
  <2>1. \A n \in Ids, g \in Handlers :
          received'[n][g] = IF n = id /\ g = h THEN received[n][g] + 1 ELSE received[n][g]
    BY <1>3 DEF CallHandler, NetTyped
  <2>2. \A n \in Ids : targets'[n] \subseteq targets[n]
    BY <1>3 DEF CallHandler, NetTyped
  <2>3. h \notin targets'[id] /\ h \in targets[id] /\ phase' = phase
    BY <1>3 DEF CallHandler, NetTyped
  <2>4. received[id][h] = 0 /\ phase[id] = "dispatched"
    BY <2>3 DEF NetCalls
  <2>5. ASSUME NEW n \in Ids, NEW g \in Handlers, g \in targets'[n]
        PROVE  received'[n][g] = 0 /\ phase'[n] = "dispatched"
    <3>1. g \in targets[n] /\ ~(n = id /\ g = h)
      BY <2>2, <2>3, <2>5
    <3> QED BY <2>1, <2>3, <3>1 DEF NetCalls
  <2>6. ASSUME NEW n \in Ids, NEW g \in Handlers
        PROVE  received'[n][g] <= 1 /\ (received'[n][g] > 0 => phase'[n] = "dispatched")
    <3>1. CASE n = id /\ g = h
      BY <2>1, <2>3, <2>4, <3>1
    <3>2. CASE ~(n = id /\ g = h)
      BY <2>1, <2>3, <3>2 DEF NetCalls
    <3> QED BY <3>1, <3>2
  <2> QED BY <2>5, <2>6 DEF NetCalls
<1>4. ASSUME UNCHANGED <<received, targets, phase>> PROVE NetCalls'
  BY <1>4 DEF NetCalls
<1>5. ASSUME NEW id \in Ids, NEW at \in Times, ScheduleList(id, at) PROVE NetCalls'
  BY <1>1, <1>5 DEF ScheduleList, NetTyped
<1>6. ASSUME NEW id \in Ids, SendNowAsync(id) \/ ScheduleThrows(id) \/ ContinueCanceled(id)
                             \/ ContinueRemove(id) \/ ScheduleArm(id)
      PROVE  NetCalls'
  BY <1>1, <1>6 DEF SendNowAsync, ScheduleThrows, ContinueCanceled, ContinueRemove,
          ScheduleArm, NetTyped
<1> QED BY <1>2, <1>3, <1>4, <1>5, <1>6
        DEF NetNext, DelayElapses, CancelRemove, CancelCts, DisposeCancel, ConsumeGet, ConsumeAdd,
            SubscriptionDispose, DisposeStart, DisposePending, DisposeHandlers, NetTick, netVars

(* No handler is called twice with a message, or before it is due, for any *)
(* interleaving of timers, cancels, disposal and handler changes: see      *)
(* OnceAndOnTime.                                                          *)
THEOREM NetOnceSafety == NetSpec => []OnceAndOnTime
<1>1. NetInit => NetCalls
  BY DEF NetInit, NetCalls
<1>2. NetTyped /\ NetTiming /\ NetCalls => OnceAndOnTime
  BY DEF NetTyped, NetTiming, NetCalls, OnceAndOnTime
<1> QED BY <1>1, <1>2, NetCallsStep, NetTimingInvariant, NetTypedInvariant, PTL DEF NetSpec

-----------------------------------------------------------------------------
(* The source of message id is cancelled and its delay cannot run to       *)
(* completion any more: it is canceled, or will be when it is armed.       *)
NetStopped(id) ==
  /\ id \in cts
  /\ delay[id] \in {"none", "canceled"}
  /\ phase[id] \notin {"unborn", "removed", "dispatched"}

(* A message that is stopped stays stopped, whatever happens.              *)
LEMMA NetStoppedStep ==
  ASSUME NEW id \in Ids
  PROVE  NetTyped /\ NetStopped(id) /\ [NetNext]_netVars => NetStopped(id)'
<1> SUFFICES ASSUME NetTyped, NetStopped(id), [NetNext]_netVars PROVE NetStopped(id)'
  OBVIOUS
<1>1. ASSUME NEW n \in Ids, NEW at \in Times, ScheduleList(n, at) PROVE NetStopped(id)'
  BY <1>1 DEF ScheduleList, NetTyped, NetStopped
<1>2. ASSUME NEW n \in Ids, SendNowAsync(n) \/ ScheduleThrows(n) \/ ContinueCanceled(n)
                            \/ ContinueRemove(n) PROVE NetStopped(id)'
  BY <1>2 DEF SendNowAsync, ScheduleThrows, ContinueCanceled, ContinueRemove,
          NetTyped, NetStopped
<1>3. ASSUME NEW n \in Ids, ScheduleArm(n) PROVE NetStopped(id)'
  BY <1>3 DEF ScheduleArm, NetTyped, NetStopped
<1>4. ASSUME NEW n \in Ids, DelayElapses(n) PROVE NetStopped(id)'
  BY <1>4 DEF DelayElapses, NetTyped, NetStopped
<1>5. ASSUME NEW n \in Ids, DispatchSnapshot(n) PROVE NetStopped(id)'
  BY <1>5 DEF DispatchSnapshot, NetTyped, NetStopped
<1>6. ASSUME NEW n \in Ids, CancelCts(n) \/ DisposeCancel(n) PROVE NetStopped(id)'
  BY <1>6 DEF CancelCts, DisposeCancel, CancelSource, NetTyped, NetStopped
<1>7. ASSUME UNCHANGED <<delay, phase, cts>> PROVE NetStopped(id)'
  BY <1>7 DEF NetStopped
<1> QED BY <1>1, <1>2, <1>3, <1>4, <1>5, <1>6, <1>7
        DEF NetNext, CallHandler, CancelRemove, ConsumeGet, ConsumeAdd, SubscriptionDispose,
            DisposeStart, DisposePending, DisposeHandlers, NetTick, netVars

(* A cancel, by CancelAsync or by DisposeAsync, that is through before the *)
(* message is due stops it for good: see EarlyCancelWins.                  *)
THEOREM NetCancelSafety == NetSpec => EarlyCancelWins
<1>1. ASSUME NEW id \in Ids
      PROVE  NetSpec => [](id \in cts /\ now < deliverAt[id] => [](phase[id] # "dispatched"))
  <2>1. NetTyped /\ NetTiming /\ id \in cts /\ now < deliverAt[id] => NetStopped(id)
    BY DEF NetTyped, NetTiming, NetStopped, NetDelays, NetPhases
  <2>2. NetStopped(id) => phase[id] # "dispatched"
    BY DEF NetStopped
  <2>3. NetTyped /\ NetStopped(id) /\ [NetNext]_netVars => NetStopped(id)'
    BY NetStoppedStep
  <2> QED BY <2>1, <2>2, <2>3, NetTypedInvariant, NetTimingInvariant, PTL DEF NetSpec
<1> QED BY <1>1 DEF EarlyCancelWins
=============================================================================
