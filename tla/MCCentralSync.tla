--------------------------- MODULE MCCentralSync ---------------------------
(* TLC instances of CentralSync: the scenarios a run covers are its budgets. *)
EXTENDS CentralSync

CONSTANTS c1, c2

TwoClients == {c1, c2}

\* One behaviour's budget: writes of c1, c2 and the server, dials of c1 and c2, crashes,
\* failed flushes, broken connections.
Scenario(w1, w2, ws, d1, d2, crash, fail, drop) ==
    [writes |-> [r \in Replica |-> CASE r = c1 -> w1 [] r = c2 -> w2 [] OTHER -> ws],
     dials |-> [c \in Client |-> IF c = c1 THEN d1 ELSE d2],
     crashes |-> crash, failures |-> fail, drops |-> drop]

\* A client that reconnects: two writes around a crash and a failing flush, an item-API
\* commit or both, with every fault at any point.
Faults == {Scenario(2, 0, 0, 2, 0, 1, 1, 0), Scenario(0, 0, 2, 2, 0, 1, 1, 1),
           Scenario(1, 0, 2, 1, 0, 1, 1, 1)}

\* An item-API commit, which may be dropped, against a client write, reconnections after a
\* crash or a broken connection, and a write relayed from one client to another.  No flush fails.
Converging == {Scenario(1, 0, 2, 1, 0, 0, 0, 0), Scenario(1, 0, 2, 1, 0, 0, 0, 1),
               Scenario(1, 0, 0, 2, 0, 1, 0, 1),
               Scenario(0, 0, 2, 2, 0, 1, 0, 0), Scenario(0, 0, 2, 2, 0, 0, 0, 1),
               Scenario(2, 0, 0, 1, 0, 1, 0, 0), Scenario(1, 0, 0, 1, 1, 0, 0, 0)}

\* A write relayed to another client while a flush fails, or whose writer disconnects.
RelayUnflushed == {Scenario(1, 0, 0, 1, 1, 0, 1, 0)}
RelayDropped == {Scenario(1, 0, 0, 1, 1, 0, 0, 1)}
=============================================================================
