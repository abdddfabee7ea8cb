---------------------------- MODULE NetScheduler ----------------------------
(***************************************************************************)
(* The in-process scheduler on the .NET thread pool                        *)
(* (Messaging.InMemory/InMemoryScheduler.cs, the IMessageScheduler half).  *)
(*                                                                         *)
(* Callers, Task.Delay timers, continuations and handlers run on different *)
(* threads; the two concurrent dictionaries make single operations atomic, *)
(* so a step here is one such operation.  One destination is modelled:     *)
(* handlers is its HashSet.  DelayMax stands for the longest delay that    *)
(* Task.Delay accepts; it throws on a longer one.                          *)
(***************************************************************************)
EXTENDS SchedulerState, FiniteSets

CONSTANT
  DelayMax     \* longest delay Task.Delay accepts

ASSUME NetSchedulerAssumption == DelayMax \in Nat

VARIABLES
  cts,         \* messages whose CancellationTokenSource was cancelled
  delay,       \* state of the Task.Delay of each message
  phase,       \* how far ScheduleAsync, then the continuation, has come
  cancelling,  \* CancelAsync calls between TryRemove and Cts.Cancel
  targets,     \* the snapshot a running Dispatch still has to call
  consuming,   \* ConsumeAsync calls between GetOrAdd and the locked Add
  disposing,   \* the Pending entries DisposeAsync still has to cancel
  disposed     \* how far DisposeAsync has come

netVars == <<now, pending, deliverAt, cts, delay, phase, cancelling,
             handlers, consuming, targets, received, disposing, disposed>>

NetInit ==
  /\ now = 0
  /\ pending = {} /\ cts = {} /\ cancelling = {}
  /\ handlers = {} /\ consuming = {}
  /\ deliverAt = [id \in Ids |-> 0]
  /\ delay = [id \in Ids |-> "none"]
  /\ phase = [id \in Ids |-> "unborn"]
  /\ targets = [id \in Ids |-> {}]
  /\ received = [id \in Ids |-> [h \in Handlers |-> 0]]
  /\ disposing = {} /\ disposed = "no"
-----------------------------------------------------------------------------
(* ScheduleAsync                                                           *)

\* Mutant: a time in the past is not raised to zero, and Task.Delay throws on
\* a negative delay.
ScheduleListUnclamped(id, at) ==
  /\ phase[id] = "unborn"
  /\ phase' = [phase EXCEPT ![id] =
                 IF at - now > DelayMax \/ at < now THEN "overlong" ELSE "listed"]
  /\ deliverAt' = [deliverAt EXCEPT ![id] = at]
  /\ pending' = pending \union {id}
  /\ UNCHANGED <<now, cts, delay, cancelling, handlers, targets,
                 received, disposing, disposed, consuming>>

\* The delay is worked out, then _pending[id] = pending.
ScheduleList(id, at) ==
  /\ phase[id] = "unborn"
  /\ phase' = [phase EXCEPT ![id] = IF at - now > DelayMax THEN "overlong" ELSE "listed"]
  /\ deliverAt' = [deliverAt EXCEPT ![id] = at]
  /\ pending' = pending \union {id}
  /\ UNCHANGED <<now, cts, delay, cancelling, handlers, targets,
                 received, disposing, disposed, consuming>>

\* SendNowAsync goes straight to Dispatch.
SendNowAsync(id) ==
  /\ phase[id] = "unborn"
  /\ phase' = [phase EXCEPT ![id] = "removed"]
  /\ UNCHANGED <<now, pending, deliverAt, cts, delay, cancelling,
                 handlers, targets, received, disposing, disposed, consuming>>

\* Task.Delay(ms, cts.Token).ContinueWith(...)
ScheduleArm(id) ==
  /\ phase[id] = "listed"
  /\ phase' = [phase EXCEPT ![id] = "armed"]
  /\ delay' = [delay EXCEPT ![id] = IF id \in cts THEN "canceled" ELSE "waiting"]
  /\ UNCHANGED <<now, pending, deliverAt, cts, cancelling, handlers,
                 targets, received, disposing, disposed, consuming>>

\* Task.Delay throws on a delay it cannot represent; ScheduleAsync fails.
ScheduleThrows(id) ==
  /\ phase[id] = "overlong"
  /\ phase' = [phase EXCEPT ![id] = "threw"]
  /\ UNCHANGED <<now, pending, deliverAt, cts, delay, cancelling,
                 handlers, targets, received, disposing, disposed, consuming>>

\* Mutant: the delay is one unit short.
DelayElapsesEarly(id) ==
  /\ delay[id] = "waiting" /\ deliverAt[id] <= now + 1
  /\ delay' = [delay EXCEPT ![id] = "ran"]
  /\ UNCHANGED <<now, pending, deliverAt, cts, phase, cancelling,
                 handlers, targets, received, disposing, disposed, consuming>>

\* The delay elapses: the task ran to completion and its continuation is queued.
DelayElapses(id) ==
  /\ delay[id] = "waiting" /\ deliverAt[id] <= now
  /\ delay' = [delay EXCEPT ![id] = "ran"]
  /\ UNCHANGED <<now, pending, deliverAt, cts, phase, cancelling,
                 handlers, targets, received, disposing, disposed, consuming>>
-----------------------------------------------------------------------------
(* The continuation                                                        *)

\* if (t.IsCanceled) return;
ContinueCanceled(id) ==
  /\ phase[id] = "armed" /\ delay[id] = "canceled"
  /\ phase' = [phase EXCEPT ![id] = "dropped"]
  /\ UNCHANGED <<now, pending, deliverAt, cts, delay, cancelling,
                 handlers, targets, received, disposing, disposed, consuming>>

\* _pending.TryRemove(id, out _), whatever it returns.
ContinueRemove(id) ==
  /\ phase[id] = "armed" /\ delay[id] = "ran"
  /\ phase' = [phase EXCEPT ![id] = "removed"]
  /\ pending' = pending \ {id}
  /\ UNCHANGED <<now, deliverAt, cts, delay, cancelling, handlers,
                 targets, received, disposing, disposed, consuming>>

\* Dispatch: snapshot the handlers under the lock and start calling them.
DispatchSnapshot(id) ==
  /\ phase[id] = "removed"
  /\ phase' = [phase EXCEPT ![id] = "dispatched"]
  /\ targets' = [targets EXCEPT ![id] = handlers]
  /\ UNCHANGED <<now, pending, deliverAt, cts, delay, cancelling,
                 handlers, received, disposing, disposed, consuming>>

\* foreach (var h in targets) await h(msg); a handler that throws ends the loop.
CallHandler(id, h, throws) ==
  /\ h \in targets[id]
  /\ received' = [received EXCEPT ![id][h] = @ + 1]
  /\ targets' = [targets EXCEPT ![id] = IF throws THEN {} ELSE @ \ {h}]
  /\ UNCHANGED <<now, pending, deliverAt, cts, delay, phase, cancelling,
                 handlers, disposing, disposed, consuming>>
-----------------------------------------------------------------------------
(* CancelAsync, ConsumeAsync, DisposeAsync                                 *)

\* The caller has the handle once ScheduleAsync returned.
CancelRemove(id) ==
  /\ phase[id] \in {"armed", "removed", "dispatched", "dropped"}
  /\ id \in pending
  /\ pending' = pending \ {id}
  /\ cancelling' = cancelling \union {id}
  /\ UNCHANGED <<now, deliverAt, cts, delay, phase, handlers, targets, received,
                 disposing, disposed, consuming>>

\* Mutant: the source is cancelled but the delay does not listen to it.
CancelSourceUnlinked(id) == cts' = cts \union {id} /\ UNCHANGED delay

\* Cts.Cancel(): a delay that has not elapsed is canceled, another is not.
CancelSource(id) ==
  /\ cts' = cts \union {id}
  /\ delay' = [delay EXCEPT ![id] = IF @ = "waiting" THEN "canceled" ELSE @]

CancelCts(id) ==
  /\ id \in cancelling
  /\ cancelling' = cancelling \ {id}
  /\ CancelSource(id)
  /\ UNCHANGED <<now, pending, deliverAt, phase, handlers, targets,
                 received, disposing, disposed, consuming>>

\* _handlers.GetOrAdd(destination, ...): the set the handler will go to.
ConsumeGet(h) ==
  /\ h \notin handlers \union consuming
  /\ consuming' = consuming \union {h}
  /\ UNCHANGED <<now, pending, deliverAt, cts, delay, phase, cancelling,
                 handlers, targets, received, disposing, disposed>>

\* lock (set) set.Add(handler);
ConsumeAdd(h) ==
  /\ h \in consuming
  /\ consuming' = consuming \ {h}
  /\ handlers' = handlers \union {h}
  /\ UNCHANGED <<now, pending, deliverAt, cts, delay, phase, cancelling,
                 targets, received, disposing, disposed>>

SubscriptionDispose(h) ==
  /\ h \in handlers
  /\ handlers' = handlers \ {h}
  /\ UNCHANGED <<now, pending, deliverAt, cts, delay, phase, cancelling,
                 targets, received, disposing, disposed, consuming>>

\* foreach over a snapshot of _pending.Values
DisposeStart ==
  /\ disposed = "no"
  /\ disposed' = "running"
  /\ disposing' = pending
  /\ UNCHANGED <<now, pending, deliverAt, cts, delay, phase, cancelling,
                 handlers, targets, received, consuming>>

DisposeCancel(id) ==
  /\ id \in disposing
  /\ disposing' = disposing \ {id}
  /\ CancelSource(id)
  /\ UNCHANGED <<now, pending, deliverAt, phase, cancelling, handlers,
                 targets, received, disposed, consuming>>

\* _pending.Clear();
DisposePending ==
  /\ disposed = "running" /\ disposing = {}
  /\ disposed' = "unlisted"
  /\ pending' = {}
  /\ UNCHANGED <<now, deliverAt, cts, delay, phase, cancelling,
                 handlers, targets, received, disposing, consuming>>

\* _handlers.Clear(): a ConsumeAsync that has fetched its set by now adds to
\* one that Dispatch does not find any more.
DisposeHandlers ==
  /\ disposed = "unlisted"
  /\ disposed' = "done"
  /\ handlers' = {} /\ consuming' = {}
  /\ UNCHANGED <<now, pending, deliverAt, cts, delay, phase, cancelling,
                 targets, received, disposing>>

NetTick ==
  /\ now < MaxTime
  /\ now' = now + 1
  /\ UNCHANGED <<pending, deliverAt, cts, delay, phase, cancelling,
                 handlers, targets, received, disposing, disposed, consuming>>
-----------------------------------------------------------------------------
NetNext ==
  \/ \E id \in Ids :
       \/ \E at \in Times : ScheduleList(id, at)
       \/ SendNowAsync(id) \/ ScheduleArm(id) \/ ScheduleThrows(id) \/ DelayElapses(id)
       \/ ContinueCanceled(id) \/ ContinueRemove(id) \/ DispatchSnapshot(id)
       \/ \E h \in Handlers, throws \in BOOLEAN : CallHandler(id, h, throws)
       \/ CancelRemove(id) \/ CancelCts(id) \/ DisposeCancel(id)
  \/ \E h \in Handlers : ConsumeGet(h) \/ ConsumeAdd(h) \/ SubscriptionDispose(h)
  \/ DisposeStart \/ DisposePending \/ DisposeHandlers
  \/ NetTick

NetSpec == NetInit /\ [][NetNext]_netVars

(* As long as the process is there, every thread that can take its next    *)
(* step eventually does, and time passes; calls into the port are not      *)
(* assumed.                                                                *)
NetLiveSpec ==
  /\ NetSpec
  /\ WF_netVars(NetTick)
  /\ \A id \in Ids :
       /\ WF_netVars(ScheduleArm(id)) /\ WF_netVars(DelayElapses(id))
       /\ WF_netVars(ContinueRemove(id)) /\ WF_netVars(DispatchSnapshot(id))
       /\ WF_netVars(CancelCts(id))
-----------------------------------------------------------------------------
(* A handler is called at most once per message and never early, whatever  *)
(* cancels, disposals and handler changes race with the timer.             *)
OnceAndOnTime ==
  \A id \in Ids, h \in Handlers :
    received[id][h] > 0 => received[id][h] = 1 /\ deliverAt[id] <= now

(* A cancel (or disposal) that is through before the message is due stops  *)
(* it, also when it overtakes the thread still arming the delay.           *)
EarlyCancelWins ==
  \A id \in Ids :
    [](id \in cts /\ now < deliverAt[id] => [](phase[id] # "dispatched"))

(* As long as the process is there, a message that is listed, for a time   *)
(* Task.Delay can wait for (or one already past), is dispatched in the     *)
(* end, unless its source is cancelled or the scheduler is disposed.       *)
EventuallyDispatched ==
  \A id \in Ids :
    (id \in pending /\ deliverAt[id] <= DelayMax)
      ~> (phase[id] = "dispatched" \/ id \in cts \/ disposed # "no")
=============================================================================
