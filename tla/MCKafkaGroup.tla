---------------------------- MODULE MCKafkaGroup ----------------------------
(***************************************************************************)
(* Two members: competing in one group, with handlers that settle in time  *)
(* or late, or a subscription beside a consume() in groups of their own.   *)
(***************************************************************************)
EXTENDS KafkaGroup, TLC

CONSTANTS a, b, g1, g2, c1, c2, m1

Competing == [group |-> [mb \in Members |-> g1], sched |-> {}, late |-> FALSE,
              calls |-> {c1}, msgs |-> Msgs, faults |-> {"send", "kick", "crash", "nack", "leave"}, limit |-> 3]
Late == [Competing EXCEPT !.late = TRUE, !.limit = 1]
Apart == [group |-> (a :> g1 @@ b :> g2), sched |-> {b}, late |-> FALSE,
          calls |-> {c1, c2}, msgs |-> {m1}, faults |-> {"connect", "send", "nack", "dispose"}, limit |-> 2]

MCSetups == {Competing, Late, Apart}
=============================================================================
