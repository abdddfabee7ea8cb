---------------------------- MODULE MCSseCluster ----------------------------
(***************************************************************************)
(* Two instances with one connection each: of a user and her organisation, *)
(* and of another user who asks for all organisations; a message to the    *)
(* first user and messages to organisations.                               *)
(***************************************************************************)
EXTENDS SseCluster, TLC

CONSTANTS c1, c2, i1, i2, m1, m2, m3

MCInstOf == [c \in Conns |-> IF c = c1 THEN i1 ELSE i2]
MCWords == {"user", "org", "alice", "bob", "acme", "eu", Hash}
MCUserOf == [c \in Conns |-> IF c = c1 THEN <<"alice">> ELSE <<"bob">>]
MCOrgOf == [c \in Conns |-> IF c = c1 THEN <<"acme">> ELSE <<Hash>>]
MCTargetOf == [m \in Msgs |-> IF m = m1 THEN [type |-> "user", id |-> <<"alice">>]
                          ELSE [type |-> "org",
                                id |-> IF m = m2 THEN <<"acme">> ELSE <<"acme", "eu">>]]
=============================================================================
