----------------------------- MODULE MCBusQueue -----------------------------
(***************************************************************************)
(* Small instances of BusQueue for TLC: two or three messages, two         *)
(* handlers, two groups, and one message that outranks the others.         *)
(***************************************************************************)
EXTENDS BusQueue, TLC

CONSTANTS m1, m2, m3, a, b, g1, g2

MCGroupOf == [m \in Msgs |-> IF m = m2 THEN g2 ELSE g1]
MCPriorityOf == [m \in Msgs |-> IF m = m3 THEN 5 ELSE 0]
AttachOnce == [h \in Handlers |-> 1]
HandlerSymmetry == Permutations(Handlers)

Plain == [maxDeliveries |-> 2, deadLetter |-> TRUE, retryDelay |-> FALSE,
          partitionByGroup |-> FALSE, singleActive |-> FALSE,
          msgs |-> {m1, m2}, ttl |-> {}, late |-> {}]

Shared == [Plain EXCEPT !.msgs = {m1, m2, m3}]
Grouped == [Plain EXCEPT !.msgs = {m1, m2, m3}, !.partitionByGroup = TRUE, !.deadLetter = FALSE]
Single == [Plain EXCEPT !.singleActive = TRUE, !.late = {m1}]
Expiring == [Plain EXCEPT !.ttl = {m1}, !.late = {m1}]
Retrying == [Plain EXCEPT !.retryDelay = TRUE, !.late = {m1}]

AllSetups == {Shared, Grouped, Single, Expiring, Retrying}
RetrySetup == {[Plain EXCEPT !.retryDelay = TRUE]}
TtlSetup == {[Plain EXCEPT !.ttl = {m1}]}
=============================================================================
