----------------------------- MODULE MCArtemis ------------------------------
(***************************************************************************)
(* The scheduler queue with cancels; a topic with its dead letters; a      *)
(* transient topic subscription with its expiry address.                   *)
(***************************************************************************)
EXTENDS Artemis, TLC

CONSTANTS c1, c2, m1, m2, sa, sb

Scheduling ==
  [home |-> "queue", topic |-> [s \in Subs |-> "queue"], calls |-> {c1}, msgs |-> Msgs,
   later |-> {m1}, ttl |-> {}, selected |-> {}, transient |-> FALSE, drops |-> 1,
   dispose |-> TRUE]
Poison ==
  [Scheduling EXCEPT !.home = "topic", !.topic = (sa :> "topic" @@ sb :> ".dlq"),
   !.calls = Calls, !.msgs = {m1}, !.later = {}, !.selected = Msgs, !.drops = 2, !.dispose = FALSE]
Expiring ==
  [Poison EXCEPT !.topic[sb] = ".expiry", !.msgs = Msgs, !.ttl = {m1},
   !.selected = {m1}, !.transient = TRUE, !.drops = 1]

MCSetups == {Scheduling, Poison, Expiring}
=============================================================================
