---------------------------- MODULE SchedulerPort ----------------------------
(***************************************************************************)
(* What the scheduler port promises (IMessageScheduler, IMessageScheduler  *)
(* .cs): a scheduled message is listed until it fires, is cancelled or the *)
(* scheduler is disposed; it fires at most once and not before its time;   *)
(* once a cancel has taken it off the list it never fires.                 *)
(***************************************************************************)
EXTENDS Integers

CONSTANTS Ids,     \* schedule() calls
          Times    \* instants a caller may ask for

VARIABLES clock,      \* wall clock
          due,        \* deliverAt of each message
          fate        \* where each message is in its life

Fates == {"unborn", "listed", "fired", "cancelled", "disposed"}

PortInit ==
  /\ clock = 0
  /\ due = [id \in Ids |-> 0]
  /\ fate = [id \in Ids |-> "unborn"]

PortSchedule(id, at) ==
  /\ fate[id] = "unborn"
  /\ fate' = [fate EXCEPT ![id] = "listed"]
  /\ due' = [due EXCEPT ![id] = at]
  /\ UNCHANGED clock

PortCancel(id) ==
  /\ fate[id] = "listed"
  /\ fate' = [fate EXCEPT ![id] = "cancelled"]
  /\ UNCHANGED <<clock, due>>

PortFire(id) ==
  /\ fate[id] = "listed"
  /\ due[id] <= clock
  /\ fate' = [fate EXCEPT ![id] = "fired"]
  /\ UNCHANGED <<clock, due>>

PortDispose ==
  /\ fate' = [id \in Ids |-> IF fate[id] = "listed" THEN "disposed" ELSE fate[id]]
  /\ UNCHANGED <<clock, due>>

PortTick ==
  /\ clock' = clock + 1
  /\ UNCHANGED <<due, fate>>

PortNext ==
  \/ \E id \in Ids :
       \/ \E at \in Times : PortSchedule(id, at)
       \/ PortCancel(id)
       \/ PortFire(id)
  \/ PortDispose
  \/ PortTick

PortSpec == PortInit /\ [][PortNext]_<<clock, due, fate>>
=============================================================================
