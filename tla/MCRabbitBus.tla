----------------------------- MODULE MCRabbitBus -----------------------------
(***************************************************************************)
(* One queue with two competing subscriptions, declared in five ways.      *)
(***************************************************************************)
EXTENDS RabbitBus, TLC

Plain == [deadLetter |-> FALSE, retry |-> FALSE, expiry |-> FALSE, ttl |-> {}, late |-> {}]
Retrying == [Plain EXCEPT !.deadLetter = TRUE, !.retry = TRUE, !.late = Msgs]
Limited == [Plain EXCEPT !.deadLetter = TRUE]
Expiring == [Plain EXCEPT !.expiry = TRUE, !.ttl = Msgs]

RetryingTtl == [Retrying EXCEPT !.expiry = TRUE, !.ttl = Msgs, !.late = {}]

MCModes == {Plain, Retrying, Limited, Expiring, RetryingTtl}

(* The messages, and the subscriptions, are interchangeable in every mode. *)
Symmetry == Permutations(Msgs) \union Permutations(Subs)
=============================================================================
