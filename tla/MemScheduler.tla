---------------------------- MODULE MemScheduler ----------------------------
(***************************************************************************)
(* The in-process scheduler on the Node event loop                         *)
(* (typescript/src/adapters/in-memory.ts, the IMessageScheduler half).     *)
(*                                                                         *)
(* Calls run to completion; a timer is a macrotask and a dispatch() queues *)
(* a microtask.  Time is an integer clock; TimerMax stands for the 2^31-1  *)
(* ms that setTimeout can wait (a longer delay is turned into 1 ms).  The  *)
(* timers are unref'd: they do not keep the process running, so it may end *)
(* with messages still pending.                                            *)
(***************************************************************************)
EXTENDS SchedulerState, Sequences, FiniteSets

CONSTANTS
  Instant,     \* sendNow() calls
  Dests,       \* destinations
  DestOf,      \* the destination of each message
  TimerMax,    \* longest delay setTimeout honours
  MaxDispose   \* bound: asyncDispose calls

Off == -1      \* no timer

ASSUME SchedulerAssumption ==
  /\ Ids \intersect Instant = {}
  /\ DestOf \in [Ids \union Instant -> Dests]
  /\ TimerMax \in Nat \ {0} /\ MaxDispose \in Nat

VARIABLES
  timer,       \* when the timer of a schedule fires
  tasks,       \* microtasks queued by dispatch(), oldest first
  asked,       \* history: schedule() and sendNow() calls made
  cancelled,   \* history: messages a cancel() took off the list
  dispatched,  \* history: dispatch() calls per message
  disposals,   \* history: asyncDispose calls
  consumed,    \* history: <<destination, handler>> pairs ever registered
  exited       \* the process has ended

vars == <<now, pending, timer, deliverAt, handlers, tasks, asked, cancelled,
          dispatched, received, disposals, consumed, exited>>

Messages == Ids \union Instant

Init ==
  /\ now = 0
  /\ pending = {}
  /\ timer = [id \in Ids |-> Off]
  /\ deliverAt = [id \in Ids |-> 0]
  /\ handlers = [d \in Dests |-> {}]
  /\ tasks = <<>>
  /\ asked = {} /\ cancelled = {}
  /\ dispatched = [m \in Messages |-> 0]
  /\ received = [m \in Messages |-> [h \in Handlers |-> 0]]
  /\ disposals = 0
  /\ consumed = {} /\ exited = FALSE
-----------------------------------------------------------------------------
\* The process is there, and this step does not end it.
Running == ~exited /\ UNCHANGED exited

\* What setTimeout makes of a delay: at least 1, and 1 when it is too long.
Delay(ms) == IF ms > TimerMax \/ ms < 1 THEN 1 ELSE ms

\* Mutant: the delay is rounded down.
DelayShort(at) == Delay(at - now - 1)

\* Math.max(0, deliverAt - now)
DelayUntil(at) == Delay(IF at > now THEN at - now ELSE 0)

\* schedule(); the bound on the clock leaves room for the timer.
Schedule(id, at) ==
  /\ Running
  /\ id \notin asked
  /\ now + DelayUntil(at) <= MaxTime
  /\ asked' = asked \union {id}
  /\ deliverAt' = [deliverAt EXCEPT ![id] = at]
  /\ timer' = [timer EXCEPT ![id] = now + DelayUntil(at)]
  /\ pending' = pending \union {id}
  /\ UNCHANGED <<now, handlers, tasks, cancelled, dispatched, received, disposals, consumed>>

\* cancel(); a message that is not pending any more is left alone.
Cancel(id) ==
  /\ Running
  /\ id \in pending
  /\ timer' = [timer EXCEPT ![id] = Off]
  /\ pending' = pending \ {id}
  /\ cancelled' = cancelled \union {id}
  /\ UNCHANGED <<now, deliverAt, handlers, tasks, asked, dispatched, received,
                 disposals, consumed>>

\* dispatch(): queue the microtask that calls the handlers.
Dispatch(m) ==
  /\ dispatched' = [dispatched EXCEPT ![m] = @ + 1]
  /\ tasks' = Append(tasks, m)

SendNow(m) ==
  /\ Running
  /\ m \notin asked
  /\ asked' = asked \union {m}
  /\ Dispatch(m)
  /\ UNCHANGED <<now, pending, timer, deliverAt, handlers, cancelled, received,
                 disposals, consumed>>

\* Mutant: a timer served late is skipped.
TimerOnTimeOnly(id) ==
  /\ Running
  /\ tasks = <<>>
  /\ timer[id] = now
  /\ timer' = [timer EXCEPT ![id] = Off]
  /\ pending' = pending \ {id}
  /\ Dispatch(id)
  /\ UNCHANGED <<now, deliverAt, handlers, asked, cancelled, received, disposals, consumed>>

\* A timer is a macrotask: it runs when no microtask is left.
TimerFires(id) ==
  /\ Running
  /\ tasks = <<>>
  /\ timer[id] # Off /\ timer[id] <= now
  /\ timer' = [timer EXCEPT ![id] = Off]
  /\ pending' = pending \ {id}
  /\ Dispatch(id)
  /\ UNCHANGED <<now, deliverAt, handlers, asked, cancelled, received, disposals, consumed>>

\* Mutant: one set of handlers for all destinations.
RunTaskEverywhere ==
  /\ Running
  /\ tasks # <<>>
  /\ tasks' = Tail(tasks)
  /\ received' = [received EXCEPT ![Head(tasks)] =
                    [h \in Handlers |-> IF \E d \in Dests : h \in handlers[d] THEN @[h] + 1 ELSE @[h]]]
  /\ UNCHANGED <<now, pending, timer, deliverAt, handlers, asked, cancelled,
                 dispatched, disposals, consumed>>

\* Every handler registered when the microtask runs is called.
RunTask ==
  /\ Running
  /\ tasks # <<>>
  /\ tasks' = Tail(tasks)
  /\ LET m == Head(tasks) IN
     received' = [received EXCEPT ![m] =
                    [h \in Handlers |-> IF h \in handlers[DestOf[m]] THEN @[h] + 1 ELSE @[h]]]
  /\ UNCHANGED <<now, pending, timer, deliverAt, handlers, asked, cancelled,
                 dispatched, disposals, consumed>>

Consume(d, h) ==
  /\ Running
  /\ handlers' = [handlers EXCEPT ![d] = @ \union {h}]
  /\ consumed' = consumed \union {<<d, h>>}
  /\ UNCHANGED <<now, pending, timer, deliverAt, tasks, asked, cancelled,
                 dispatched, received, disposals>>

Unsubscribe(d, h) ==
  /\ Running
  /\ h \in handlers[d]
  /\ handlers' = [handlers EXCEPT ![d] = @ \ {h}]
  /\ UNCHANGED <<now, pending, timer, deliverAt, tasks, asked, cancelled,
                 dispatched, received, disposals, consumed>>

\* Mutant: the timers survive.
DisposeKeepsTimers ==
  /\ Running
  /\ disposals < MaxDispose
  /\ disposals' = disposals + 1
  /\ pending' = {}
  /\ handlers' = [d \in Dests |-> {}]
  /\ UNCHANGED <<now, timer, deliverAt, tasks, asked, cancelled, dispatched, received, consumed>>

\* [Symbol.asyncDispose](): a microtask already queued still runs.
Dispose ==
  /\ Running
  /\ disposals < MaxDispose
  /\ disposals' = disposals + 1
  /\ timer' = [id \in Ids |-> IF id \in pending THEN Off ELSE timer[id]]
  /\ pending' = {}
  /\ handlers' = [d \in Dests |-> {}]
  /\ UNCHANGED <<now, deliverAt, tasks, asked, cancelled, dispatched, received, consumed>>

\* Time passes; a due timer may be served late.
Tick ==
  /\ Running
  /\ now < MaxTime
  /\ now' = now + 1
  /\ UNCHANGED <<pending, timer, deliverAt, handlers, tasks, asked, cancelled,
                 dispatched, received, disposals, consumed>>

\* node ends the process when nothing keeps the event loop alive: queued
\* microtasks run first, pending schedules are not waited for.
Exit ==
  /\ ~exited /\ tasks = <<>>
  /\ exited' = TRUE
  /\ UNCHANGED <<now, pending, timer, deliverAt, handlers, tasks, asked, cancelled,
                 dispatched, received, disposals, consumed>>

Next ==
  \/ \E id \in Ids :
       \/ \E at \in Times : Schedule(id, at)
       \/ Cancel(id) \/ TimerFires(id)
  \/ \E m \in Instant : SendNow(m)
  \/ RunTask
  \/ \E d \in Dests, h \in Handlers : Consume(d, h) \/ Unsubscribe(d, h)
  \/ Dispose
  \/ Tick
  \/ Exit

Spec == Init /\ [][Next]_vars

(* While the process is there, time passes, microtasks run and due timers  *)
(* fire.                                                                   *)
LiveSpec ==
  /\ Spec
  /\ WF_vars(Tick) /\ WF_vars(RunTask)
  /\ \A id \in Ids : WF_vars(TimerFires(id))
-----------------------------------------------------------------------------
(* Type invariant; a message is in the pending map exactly as long as its  *)
(* timer is armed, so what listScheduled() reports is what will fire.      *)
TypeOK ==
  /\ now \in 0 .. MaxTime
  /\ pending \subseteq Ids /\ cancelled \subseteq Ids
  /\ timer \in [Ids -> Nat \union {Off}]
  /\ \A id \in Ids : id \in pending <=> timer[id] # Off
  /\ deliverAt \in [Ids -> Times \union {0}]
  /\ handlers \in [Dests -> SUBSET Handlers]
  /\ tasks \in Seq(Messages) /\ asked \subseteq Messages
  /\ dispatched \in [Messages -> Nat]
  /\ received \in [Messages -> [Handlers -> Nat]]
  /\ disposals \in 0 .. MaxDispose
  /\ consumed \subseteq Dests \X Handlers /\ exited \in BOOLEAN

(* The life of each message as the port sees it, read off the code's state *)
(* (the pending map) and off what was observed outside.                    *)
Fate(id) ==
  IF id \in pending THEN "listed"
  ELSE IF dispatched[id] > 0 THEN "fired"
  ELSE IF id \in cancelled THEN "cancelled"
  ELSE IF id \in asked THEN "disposed"
  ELSE "unborn"

Port == INSTANCE SchedulerPort
          WITH clock <- now, due <- deliverAt, fate <- [id \in Ids |-> Fate(id)]

(* The scheduler does what the port promises: listed until fired, never    *)
(* early, never after a cancel() or asyncDispose that took it off the list.*)
ImplementsPort == Port!PortSpec

(* A message is handed to dispatch() at most once, to a handler at most    *)
(* once, and only to handlers that consume() registered for its own        *)
(* destination.                                                            *)
AtMostOnce ==
  \A m \in Messages, h \in Handlers :
    /\ received[m][h] <= dispatched[m] /\ dispatched[m] <= 1
    /\ received[m][h] > 0 => <<DestOf[m], h>> \in consumed

(* Nothing is forgotten: as long as the process is there, a scheduled      *)
(* message is eventually dispatched unless somebody cancels it or disposes *)
(* the scheduler.  The unref'd timers do not keep the process there, so a  *)
(* pending message is also lost when node runs out of other work.          *)
EventuallyFires ==
  \A id \in Ids : (id \in pending) ~>
    (dispatched[id] > 0 \/ id \in cancelled \/ disposals > 0 \/ exited)
=============================================================================
