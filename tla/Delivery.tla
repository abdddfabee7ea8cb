------------------------------ MODULE Delivery ------------------------------
(***************************************************************************)
(* A resilient publisher and idempotent consumers on one queue: what the   *)
(* retries may publish twice, the store keeps from being processed twice.  *)
(***************************************************************************)
EXTENDS Resilience

CONSTANTS Consumers, MaxMishaps

VARIABLES held, at, seen, storeUp, processed, broken, luck

C == INSTANCE Idempotent WITH Bodies <- Calls

consumerVars == <<held, at, seen, storeUp, processed, broken, luck>>

vars == <<queue, pipeVars, consumerVars>>

Init == ResilienceInit /\ C!IdempotentInit

Next ==
  \/ ResilienceNext /\ UNCHANGED consumerVars
  \/ C!IdempotentNext /\ UNCHANGED pipeVars

Pipe(A) == A /\ UNCHANGED consumerVars
Consumer(A) == A /\ UNCHANGED pipeVars

(* Timers run, the adapter answers, the queue delivers, handlers go on.    *)
Fairness ==
  /\ WF_vars(Pipe(Cool))
  /\ \A c \in Calls :
       /\ WF_vars(Pipe(BackoffElapses(c)))
       /\ WF_vars(Pipe(Succeed(c) \/ Fail(c) \/ Refuse(c)))
  /\ \A k \in Consumers :
       /\ WF_vars(Consumer(C!Deliver(k))) /\ WF_vars(Consumer(C!Mark(k)))
       /\ WF_vars(Consumer(C!Process(k))) /\ WF_vars(Consumer(C!Ack(k)))

Spec == Init /\ [][Next]_vars
FairSpec == Spec /\ Fairness
-----------------------------------------------------------------------------
(* Properties                                                              *)

(* Whatever the retries publish twice and the queue delivers twice, a body *)
(* is processed at most once, plus once for every window that passed,      *)
(* unless the store was unreachable and let everything through             *)
(* (idempotentHandler, tryMarkSeen).                                       *)
EffectivelyOnce ==
  luck.outages = 0 => \A c \in Calls : processed[c] <= 1 + luck.expiries

(* What a resolved publish() put into the queue is processed, unless a     *)
(* handler was cut short between the mark and its effect: then the copy    *)
(* that comes again counts as a duplicate and is acked.                    *)
EventuallyProcessed ==
  \A c \in Calls : pc[c] = "resolved" ~> (processed[c] > 0 \/ c \in broken)
=============================================================================
