----------------------------- MODULE Resilience -----------------------------
(***************************************************************************)
(* ResilientScheduler (typescript/src/resilience/resilient-scheduler.ts)   *)
(* over FaultInjectingBus (fault/fault-injecting-bus.ts) over a broker:    *)
(* calls that share one pipeline of retries around a circuit breaker.      *)
(*                                                                         *)
(* External: cockatiel.  A closed breaker counts handled failures in a row *)
(* and opens at the threshold; open, it refuses calls until its time is    *)
(* over and then lets one call through; the others wait for that one.      *)
(***************************************************************************)
EXTENDS Integers, Sequences, FiniteSets

CONSTANTS
  Calls,               \* calls of the decorator; a publish sends itself
  None,                \* no call
  MaxRetryAttempts,    \* options.maxRetryAttempts
  ConsecutiveFailures, \* options.consecutiveFailures
  Injections,          \* arguments of injectFailures()
  MaxErrors            \* bound: errors of the broker itself

ASSUME ResilienceAssumption ==
  /\ None \notin Calls
  /\ {MaxRetryAttempts, MaxErrors} \subseteq Nat /\ ConsecutiveFailures \in Nat \ {0}
  /\ Injections \subseteq Nat

VARIABLES
  pc,        \* where each call is
  unsupported,  \* the calls the adapter answers with NotSupportedError
  retries,   \* retries of each call
  breaker,   \* innerState of the breaker
  count,     \* ConsecutiveBreaker: failures in a row
  cooled,    \* halfOpenAfter has passed since it opened
  failuresRemaining,  \* of FaultInjectingBus
  queue,     \* copies the broker has accepted
  streak,    \* history: transient failures since the last success, capped
  faults,    \* history: transient failures, capped
  errors     \* history: errors of the broker so far

pipeVars == <<pc, unsupported, retries, breaker, count, cooled, failuresRemaining, streak, faults, errors>>

ResilienceInit ==
  /\ unsupported \in SUBSET Calls
  /\ pc = [c \in Calls |-> "idle"] /\ retries = [c \in Calls |-> 0]
  /\ breaker = "closed" /\ count = 0 /\ cooled = FALSE
  /\ failuresRemaining = 0 /\ queue = <<>> 
  /\ streak = 0 /\ faults = 0 /\ errors = 0
-----------------------------------------------------------------------------
\* Mutant: every error is a transient fault.
HandledAlways(error) == TRUE

\* handleWhen: what is retried and counted.
Handled(error) == error # "unsupported"

\* Mutant: one retry too few.
MayRetryLess(c) == retries[c] + 1 < MaxRetryAttempts

MayRetry(c) == retries[c] < MaxRetryAttempts

\* The retry policy, given how an attempt of c failed.
RetryOrFail(c, error) ==
  \/ /\ Handled(error) /\ MayRetry(c)
     /\ pc' = [pc EXCEPT ![c] = "backoff"]
     /\ retries' = [retries EXCEPT ![c] = @ + 1]
  \/ /\ ~(Handled(error) /\ MayRetry(c))
     /\ pc' = [pc EXCEPT ![c] = IF error = "unsupported" THEN "unsupported" ELSE "failed"]
     /\ UNCHANGED retries

\* maybeFail() in publish() and sendNow(), then the call of the adapter.
Invoke(c, as) ==
  /\ \/ /\ failuresRemaining > 0 /\ c \notin unsupported
        /\ failuresRemaining' = failuresRemaining - 1
        /\ pc' = [pc EXCEPT ![c] = IF as = "call" THEN "callFault" ELSE "testFault"]
     \/ /\ failuresRemaining = 0 \/ c \in unsupported
        /\ pc' = [pc EXCEPT ![c] = as]
        /\ UNCHANGED failuresRemaining
  /\ UNCHANGED retries

\* An attempt comes to the breaker; while it is half open it waits.
Attempt(c) ==
  /\ \/ breaker = "closed" /\ Invoke(c, "call") /\ UNCHANGED breaker
     \/ /\ breaker = "open" /\ ~cooled
        /\ RetryOrFail(c, "brokenCircuit")
        /\ UNCHANGED <<breaker, failuresRemaining>>
     \/ breaker = "open" /\ cooled /\ breaker' = "half" /\ Invoke(c, "test")
  /\ UNCHANGED <<unsupported, count, cooled, queue, streak, faults, errors>>

\* run(op): the first attempt, and one more when a backoff has elapsed.
Start(c) == pc[c] = "idle" /\ Attempt(c)
BackoffElapses(c) == pc[c] = "backoff" /\ Attempt(c)

Calling(c) == pc[c] \in {"call", "callFault"}
Testing(c) == pc[c] \in {"test", "testFault"}

Succeed(c) ==
  /\ pc[c] \in {"call", "test"} /\ c \notin unsupported
  /\ pc' = [pc EXCEPT ![c] = "resolved"]
  /\ queue' = Append(queue, c)
  /\ count' = 0 /\ streak' = 0
  /\ breaker' = IF Testing(c) /\ breaker = "half" THEN "closed" ELSE breaker
  /\ UNCHANGED <<unsupported, retries, cooled, failuresRemaining, faults, errors>>

UpTo(bound, n) == IF n > bound THEN bound ELSE n

\* A transient fault, injected or the broker's own, which may come after the
\* broker has accepted the message.
Fail(c) ==
  /\ \/ pc[c] \in {"callFault", "testFault"} /\ UNCHANGED <<queue, errors>>
     \/ /\ pc[c] \in {"call", "test"} /\ c \notin unsupported
        /\ errors < MaxErrors /\ errors' = errors + 1
        /\ queue' \in {queue, Append(queue, c)}
  /\ RetryOrFail(c, "transient")
  /\ count' = IF Calling(c) THEN count + 1 ELSE count
  /\ streak' = UpTo(ConsecutiveFailures, streak + 1)
  /\ faults' = UpTo(MaxRetryAttempts + 1, faults + 1)
  /\ IF breaker # "open" /\ (Testing(c) \/ count' >= ConsecutiveFailures)
     THEN breaker' = "open" /\ cooled' = FALSE
     ELSE UNCHANGED <<breaker, cooled>>
  /\ UNCHANGED <<unsupported, failuresRemaining>>

\* Not handled: neither counted nor, by a test call, taken for a failure.
Refuse(c) ==
  /\ pc[c] \in {"call", "test"} /\ c \in unsupported
  /\ RetryOrFail(c, "unsupported")
  /\ count' = IF Handled("unsupported") THEN count + 1 ELSE count
  /\ breaker' = IF Handled("unsupported") /\ count' >= ConsecutiveFailures THEN "open"
                ELSE IF Testing(c) /\ breaker = "half" THEN "closed" ELSE breaker
  /\ UNCHANGED <<unsupported, cooled, failuresRemaining, queue, streak, faults, errors>>

Cool ==
  /\ breaker = "open" /\ ~cooled
  /\ cooled' = TRUE
  /\ UNCHANGED <<unsupported, pc, retries, breaker, count, failuresRemaining, queue, streak, faults, errors>>

\* injectFailures(), before the first call or to end the outage.
InjectFailures ==
  /\ \/ (\A c \in Calls : pc[c] = "idle") /\ failuresRemaining = 0
        /\ failuresRemaining' \in Injections \ {0}
     \/ failuresRemaining > 0 /\ failuresRemaining' = 0
  /\ UNCHANGED <<unsupported, pc, retries, breaker, count, cooled, queue, streak, faults, errors>>

ResilienceNext ==
  \/ \E c \in Calls : \/ Start(c) \/ Succeed(c) \/ Fail(c) \/ Refuse(c)
                      \/ BackoffElapses(c)
  \/ Cool \/ InjectFailures

-----------------------------------------------------------------------------
(* Properties                                                              *)

Ended(c) == pc[c] \in {"resolved", "failed", "unsupported"}

(* A closed breaker opens only after as many transient failures in a row   *)
(* as it was told, also when calls overlap and answers come late, or a     *)
(* test call of an earlier outage fails late; operations that are not      *)
(* supported are no failures (handleWhen).                                 *)
OpensForCause ==
  [][breaker = "closed" /\ breaker' = "open" =>
       \/ streak' >= ConsecutiveFailures
       \/ \E c \in Calls \ unsupported : Testing(c) /\ pc'[c] # pc[c]]_pipeVars

(* A blip is absorbed: as long as fewer faults have happened than one call *)
(* has attempts, and too few to open the breaker, no call fails, however   *)
(* the faults are spread over the calls.                                   *)
BlipAbsorbed ==
  faults <= MaxRetryAttempts /\ faults < ConsecutiveFailures => \A c \in Calls : pc[c] # "failed"
=============================================================================
