--------------------------- MODULE StreamTransport ---------------------------
(* The connections of crates/sipr-net: tcp.rs, tls.rs, ws.rs (as a framing   *)
(* of either), sctp.rs and, for sockets of its own per call, transport.rs.   *)
(* A transport keeps a table of connections by peer address; each connection *)
(* has a reader thread that cuts what arrives into messages, sends them to   *)
(* the engine's channel and reports the end of the connection there.  The    *)
(* engine writes through the table, or through the socket a call holds.      *)
(*                                                                           *)
(* net.link[k] is connection k: where the two ends stand (st), whom it       *)
(* reaches (peer), its local port, its reader thread, whether a call dialed  *)
(* it (own), what the peer sent that the reader has not read (inbox), and    *)
(* whether we answered a WebSocket close on it (closing).                    *)
(* Operators take and return a value of net: handlers compose them.          *)
EXTENDS Naturals, Sequences, SequencesExt

CONSTANTS
    Peers,      \* remote addresses
    MaxConns,   \* bound: connections ever opened
    Ports,      \* local ports the system hands out
    MaxData     \* bound: what waits to be read or handled when a peer writes

ASSUME TransportAssumption ==
    /\ MaxConns \in Nat \ {0}
    /\ MaxData \in Nat
    /\ Peers # {} /\ Ports # {}

Conns == 1 .. MaxConns
NoConn == 0

Kinds == {"tcp", "tls", "ws", "wss", "sctp", "udp"}

(* What a reader can find on the stream: a SIP message; WebSocket adds pings *)
(* and closes; "bad" is a violation of the framing or of TLS.                *)
Units(kind) ==
    {"msg"} \cup (IF kind \in {"ws", "wss"} THEN {"ping", "close"} ELSE {})
            \cup (IF kind \in {"ws", "wss", "tls"} THEN {"bad"} ELSE {})

SomePort == CHOOSE q \in Ports : TRUE
Unused == [st |-> "unused", peer |-> CHOOSE p \in Peers : TRUE,
           port |-> SomePort, reader |-> "none", own |-> FALSE,
           inbox |-> << >>, closing |-> FALSE]

(* "half": the peer closed its side; "reset": the connection is lost;        *)
(* "shut": we closed it.                                                     *)
LinkType ==
    [st: {"unused", "handshake", "up", "half", "reset", "shut"}, peer: Peers,
     port: Ports, reader: {"none", "reading", "done"}, own: BOOLEAN,
     inbox: Seq(Units("ws")), closing: BOOLEAN]

(* The events of the engine's channel.  The engine reads the peer, the port  *)
(* and clean only; conn tells the properties which connection it was.        *)
EventType ==
    [type: {"packet", "down"}, conn: Conns, peer: Peers, port: Ports, clean: BOOLEAN]

Fresh(net) == {k \in Conns : net.link[k].st = "unused"
                             /\ \A j \in 1 .. (k - 1) : net.link[j].st # "unused"}

(* A local port is free again once its connection is closed and its reader,  *)
(* which holds a clone of the descriptor, has ended.                         *)
FreePorts(net, held) ==
    Ports \ {net.link[k].port : k \in {k \in Conns :
                /\ net.link[k].st # "unused"
                /\ \/ net.link[k].reader = "reading"
                   \/ net.link[k].st = "handshake"
                   \/ k \in held}}

(* connect, connect_call, reconnect: a connection that came up, its upgrade  *)
(* done, with its reader started.                                            *)
Open(net, k, p, port, own) ==
    [net EXCEPT !.link[k] = [Unused EXCEPT !.st = "up", !.peer = p, !.port = port,
                                           !.reader = "reading", !.own = own]]

(* register puts the connection under its peer's key, whatever was there.    *)
Register(net, k) == [net EXCEPT !.table[net.link[k].peer] = k,
                                !.link[k].reader = "reading", !.link[k].st = "up"]
Forget(net, p) == [net EXCEPT !.table[p] = NoConn]

(* Nobody looks again at a connection whose both ends are done with it.      *)
Buried(l) == IF l.st = "shut" THEN [Unused EXCEPT !.st = "shut", !.reader = "done"]
                              ELSE [l EXCEPT !.reader = "done", !.inbox = << >>]

(* Drop of a call's own connection: both sides are shut down, and over TLS   *)
(* the peer is told; the reader finds out by itself.  The thread of a UDP    *)
(* call socket is stopped and joined, and reports nothing.                   *)
Closed(l, kind) ==
    LET shut == [l EXCEPT !.st = "shut"] IN
    IF kind = "udp" \/ l.reader = "done" THEN Buried(shut) ELSE shut

(* How a write on connection k may end: a peer that closed its side may      *)
(* still take it; "broken" is one of the errors send_for_call looks for,     *)
(* "other" any other; "dropped" is the simulated loss, before the table.     *)
WriteResults(net, k) ==
    IF k = NoConn THEN {"broken"}
    ELSE CASE net.link[k].st = "up" -> {"sent"}
           [] net.link[k].st = "half" -> {"sent", "broken"}
           [] OTHER -> {"broken", "other"}
Lost(lossy) == IF lossy THEN {"dropped"} ELSE {}
SendTo(net, p, lossy) == WriteResults(net, net.table[p]) \cup Lost(lossy)
SendVia(net, k, lossy) == WriteResults(net, k) \cup Lost(lossy)
UdpSends(lossy) == {"sent", "other"} \cup Lost(lossy)

(* Where a reader answers a ping or a close: the reader of a call's own      *)
(* connection, or over TLS, holds it; that of a shared one over TCP looks up *)
(* the peer's connection in the table.                                       *)
ReplyOn(net, k, kind) ==
    IF kind = "wss" \/ net.link[k].own THEN k ELSE net.table[net.link[k].peer]
CanReply(net, k, kind) == "sent" \in WriteResults(net, ReplyOn(net, k, kind))

Event(net, k, type, clean) ==
    [type |-> type, conn |-> k, peer |-> net.link[k].peer, port |-> net.link[k].port,
     clean |-> clean]
Deliver(net, k) == [net EXCEPT !.events = Append(@, Event(net, k, "packet", TRUE))]

(* A mutant of Report: the reader goes on after a violation of the framing.  *)
ReportAndGoOn(net, k, clean) ==
    [net EXCEPT !.events = Append(@, Event(net, k, "down", clean)),
                !.link[k].reader = IF clean THEN "done" ELSE @]

Report(net, k, clean) ==
    [net EXCEPT !.events = Append(@, Event(net, k, "down", clean)),
                !.link[k] = Buried(@)]
Took(net, k) == [net EXCEPT !.link[k].inbox = Tail(@)]

(* One unit at a time: what a buffer holds is worked off before the next     *)
(* read, so an end is seen after everything that came before it.             *)
ReadUnit(net, k, kind) ==
    LET u == Head(net.link[k].inbox)
        n == Took(net, k)
    IN  CASE u = "msg" -> {Deliver(n, k)}
          [] u = "ping" -> IF CanReply(net, k, kind) THEN {n} ELSE {Report(n, k, FALSE)}
          [] u = "close" ->
               {Report(IF CanReply(net, k, kind)
                       THEN [n EXCEPT !.link[ReplyOn(net, k, kind)].closing = TRUE]
                       ELSE n, k, TRUE)}
          [] u = "bad" -> {Report(n, k, FALSE)}

(* read returns 0 after a close and an error after a reset, which may throw  *)
(* away what was not read.                                                   *)
ReadEnd(net, k) ==
    (IF net.link[k].inbox = << >> /\ net.link[k].st \in {"half", "shut"}
     THEN {Report(net, k, TRUE)} ELSE {})
    \cup (IF net.link[k].st = "reset" THEN {Report(net, k, FALSE)} ELSE {})

(* read_loop of tcp.rs.                                                      *)
TcpReads(net, k, kind) ==
    ReadEnd(net, k) \cup (IF net.link[k].inbox = << >> THEN {} ELSE ReadUnit(net, k, kind))

(* read_loop of tls.rs: records are decrypted a read at a time, and one that *)
(* violates the protocol discards what the read brought before it.           *)
TlsReads(net, k, kind) ==
    TcpReads(net, k, kind)
    \cup (IF "bad" \in ToSet(net.link[k].inbox)
          THEN {Report(net, k, FALSE)} ELSE {})

(* read_loop of sctp.rs: the association keeps the messages apart.           *)
SctpReads(net, k) ==
    ReadEnd(net, k) \cup (IF net.link[k].inbox = << >> THEN {} ELSE {Deliver(Took(net, k), k)})

(* recv_loop of transport.rs: a datagram, unless -lost drops it; nothing     *)
(* that a peer causes ends the loop.                                         *)
UdpReads(net, k) ==
    IF net.link[k].inbox = << >> THEN {} ELSE {Deliver(Took(net, k), k), Took(net, k)}

ReaderSteps(net, k, kind) ==
    IF net.link[k].reader # "reading" THEN {}
    ELSE CASE kind \in {"tcp", "ws"} -> TcpReads(net, k, kind)
           [] kind \in {"tls", "wss"} -> TlsReads(net, k, kind)
           [] kind = "sctp" -> SctpReads(net, k)
           [] kind = "udp" -> UdpReads(net, k)

(* What the other end, or the network, does to a connection.  Nothing breaks *)
(* a UDP socket: its receive loop rides out what the peer causes.            *)
Packets(net) == Len(SelectSeq(net.events, LAMBDA e : e.type = "packet"))
PeerWrites(net, k, kind) ==
    IF /\ net.link[k].st = "up" /\ net.link[k].reader = "reading"
       /\ Len(net.link[k].inbox) + Packets(net) < MaxData
       /\ "close" \notin ToSet(net.link[k].inbox)
    THEN {[net EXCEPT !.link[k].inbox = Append(@, u)] : u \in Units(kind)}
    ELSE {}
PeerCloses(net, k) ==
    IF net.link[k].st = "up" THEN {[net EXCEPT !.link[k].st = "half"]} ELSE {}
Breaks(net, k) ==
    IF net.link[k].st \in {"up", "half"} THEN {[net EXCEPT !.link[k].st = "reset"]} ELSE {}
PeerSteps(net, k, kind) ==
    PeerWrites(net, k, kind)
    \cup (IF kind = "udp" THEN {} ELSE PeerCloses(net, k) \cup Breaks(net, k))
=============================================================================
