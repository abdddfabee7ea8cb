--------------------------- MODULE SchedulerState ---------------------------
(***************************************************************************)
(* What the two in-process schedulers have in common: the fields of the    *)
(* TypeScript and the .NET class that hold the same thing.                 *)
(***************************************************************************)
EXTENDS Integers

CONSTANTS
  Ids,         \* schedule() or ScheduleAsync calls
  Handlers,    \* MessageHandler functions or delegates
  Times,       \* deliverAt values asked for
  MaxTime      \* bound: the clock stops here

ASSUME TimesAssumption == Times \subseteq Nat /\ MaxTime \in Nat

VARIABLES
  now,         \* Date.now(), DateTimeOffset.UtcNow
  pending,     \* keys of the map of pending messages
  deliverAt,   \* when each message is due
  handlers,    \* the registered handlers (TypeScript: of each destination)
  received     \* history: how often a handler was called with a message
=============================================================================
