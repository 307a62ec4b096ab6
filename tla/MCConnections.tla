---------------------------- MODULE MCConnections ----------------------------
(* Instances of Connections: a client that shares one connection, clients    *)
(* whose calls open their own, and servers.                                  *)
EXTENDS Connections

Base == [kind |-> "tcp", client |-> TRUE, perCall |-> FALSE, rsa |-> FALSE, cap |-> 1,
         close |-> TRUE, max |-> 1, warn |-> FALSE, lossy |-> FALSE, moves |-> FALSE,
         conns |-> 3]
Mono == {[Base EXCEPT !.close = c, !.max = m] : c \in BOOLEAN, m \in {-1, 1}}
        \cup {[Base EXCEPT !.kind = "wss"], [Base EXCEPT !.max = 0, !.warn = TRUE, !.lossy = TRUE]}
PerCall == {[Base EXCEPT !.perCall = TRUE, !.close = x[1], !.cap = x[2], !.moves = x[3]] :
               x \in {<<TRUE, 2, FALSE>>, <<FALSE, 1, TRUE>>, <<FALSE, 2, FALSE>>}}
           \cup {[Base EXCEPT !.kind = "udp", !.perCall = TRUE, !.moves = TRUE]}
Server == {[Base EXCEPT !.client = FALSE, !.kind = k, !.conns = 2] : k \in {"tls", "ws", "sctp"}}
          \cup {[Base EXCEPT !.client = FALSE, !.rsa = TRUE, !.conns = 2]}
All == Mono \cup PerCall \cup Server
=============================================================================
