----------------------------- MODULE Connections -----------------------------
(* How crates/sipr-engine/src/engine.rs uses its connections: one that all   *)
(* calls share (-t u1, t1, l1, ...) and a client reconnects within           *)
(* -max_reconnect, or sockets that calls open for themselves (-t un, tn,     *)
(* ln, ..., at most -max_socket of them), and a server's connections.        *)
(*                                                                           *)
(* The engine handles one event at a time, and a handler may call another    *)
(* (a failed send fails its call, then resets the connection, which closes   *)
(* calls); handlers are therefore operators from a state to the set of       *)
(* states they may leave, and the actions at the end put them to use.        *)
EXTENDS StreamTransport, Integers, FiniteSets

CONSTANTS
    Calls,      \* Call-IDs
    Clients,    \* the peers that connect to a server
    Target,     \* the peer of the command line
    Configs     \* the command lines: see ConfigType

NoPeer == "no peer"
CursorWrap == 6   \* bound: next_shared_socket, a multiple of every pool length

ConfigType ==
    [kind: Kinds, client: BOOLEAN, perCall: BOOLEAN,
     rsa: BOOLEAN,         \* -rsa as a server: calls answer on a socket of their own
     cap: Nat \ {0},       \* -max_socket, or 1 with -rsa
     close: BOOLEAN,       \* -reconnect_close
     max: Int,             \* -max_reconnect
     warn: BOOLEAN,        \* -sendbuffer_warn
     lossy: BOOLEAN,       \* -lost, lost=
     moves: BOOLEAN,       \* the scenario has a setdest
     conns: Conns]         \* bound: connections ever opened

ASSUME ConnectionsAssumption ==
    /\ Clients \subseteq Peers /\ Target \in Peers /\ NoPeer \notin Peers
    /\ Configs \subseteq ConfigType

VARIABLES
    cfg,   \* the command line, once and for all
    sys    \* the connections and what the engine keeps of them:
           \*   link, table, events   see StreamTransport
           \*   calls      Engine.calls: state, remote, socket
           \*   counted    how often a call was counted as ended
           \*   invalid    mono_conn_invalid
           \*   pending    pending_reset
           \*   left       reconnects_left
           \*   dials      reconnections attempted
           \*   halted     hard_stop with fatal: the run is over
           \*   end        history: the calls opened after that, the one of them
           \*              that has its turn, and those whose own failure ended
           \*              the run
           \*   pool       call_socket_pool: weak references, oldest first,
           \*              which is the order of the connections' numbers
           \*   cursor     next_shared_socket

vars == <<cfg, sys>>

NoCall == [st |-> "free", remote |-> Target, sock |-> NoConn]
CallType == [st: {"free", "live", "completing", "successful", "failed"},
             remote: Peers, sock: Conns \cup {NoConn}]
NoEnd == [late |-> {}, turn |-> {}, guilty |-> {}]
InTable(w) == {c \in Calls : w.calls[c].st \in {"live", "completing"}}

(* The connection to p is the one that all calls of a client share.          *)
MayReconnect(p) == ~cfg.perCall /\ cfg.client /\ cfg.kind # "udp" /\ p = Target

(* A mono client connects before the run starts.                             *)
Init ==
    /\ cfg \in Configs
    /\ LET idle == [link |-> [k \in Conns |-> Unused], table |-> [p \in Peers |-> NoConn],
                    events |-> << >>, calls |-> [c \in Calls |-> NoCall],
                    counted |-> [c \in Calls |-> 0], invalid |-> FALSE, pending |-> NoPeer,
                    left |-> cfg.max, dials |-> 0, halted |-> FALSE, end |-> NoEnd,
                    pool |-> {}, cursor |-> 0]
       IN  sys = IF MayReconnect(Target)
                 THEN Register(Open(idle, 1, Target, SomePort, FALSE), 1) ELSE idle

-----------------------------------------------------------------------------
(* Sockets that calls hold.                                                  *)

Held(w) == {w.calls[c].sock : c \in Calls} \ {NoConn}
Shared(w, c) == \E d \in Calls \ {c} : w.calls[d].sock = w.calls[c].sock

(* A call's socket closes when the last call that holds it lets it go.       *)
CloseUnheld(w) ==
    LET idle == {k \in Conns : /\ w.link[k].own
                               /\ w.link[k].st \in {"up", "half", "reset"}
                               /\ k \notin Held(w)}
    IN  [w EXCEPT !.link = [k \in Conns |-> IF k \in idle THEN Closed(@[k], cfg.kind)
                                                          ELSE @[k]]]

Openable(w) == {k \in Fresh(w) : k <= cfg.conns}

(* connect_call and reconnect: a dial that is refused, or a connection; one  *)
(* that calls hold gets any free local port.                                 *)
Dials(w, p, own) ==
    {[ok |-> FALSE, conn |-> NoConn, w |-> w]} \cup
    {[ok |-> TRUE, conn |-> k, w |-> Open(w, k, p, q, own)] :
        k \in Openable(w), q \in IF own THEN FreePorts(w, Held(w))
                                     ELSE {SomePort}}

-----------------------------------------------------------------------------
(* Calls leave the table.                                                    *)

Counted(w, c) == [w EXCEPT !.counted[c] = @ + 1]
Gone(call, how) == [call EXCEPT !.st = how, !.sock = NoConn]
Removed(w, c, how) ==
    IF c \notin InTable(w) THEN w
    ELSE CloseUnheld([w EXCEPT !.calls[c] = Gone(@, how)])

(* The calls `ids` are counted and removed, one after the other: those whose *)
(* state is one of `spared` as successful, the others as failed.             *)
Verdict(st, spared) == IF st \in spared THEN "successful" ELSE "failed"
Ended(w, ids, spared) ==
    CloseUnheld([w EXCEPT
        !.counted = [c \in Calls |-> IF c \in ids THEN w.counted[c] + 1 ELSE w.counted[c]],
        !.calls = [c \in Calls |->
            IF c \in ids THEN Gone(w.calls[c], Verdict(w.calls[c].st, spared))
                         ELSE w.calls[c]]])

(* complete_call and the failures that are counted before remove_call.       *)
Completed(w, c) == Removed(Counted(w, c), c, "successful")
Failed(w, c) == Removed(Counted(w, c), c, "failed")

(* A mutant of ClosesCalls: a lingering call fails with the others.          *)
ClosesAllCalls(w, ids) == Ended(w, ids, {})

(* close_calls: a call that only lingers for retransmissions completes.      *)
ClosesCalls(w, ids) == Ended(w, ids, {"completing"})
ClosesCallsTo(w, p) ==
    ClosesCalls(w, {c \in InTable(w) : w.calls[c].remote = p /\ w.calls[c].sock = NoConn})

-----------------------------------------------------------------------------
(* Sending.                                                                  *)

(* send_for_call: on the call's own socket, on the table's connection, or,   *)
(* where a reconnection is possible, on a connection not known to be lost.   *)
Sends(w, c) ==
    LET to == w.calls[c].remote
        own == w.calls[c].sock
        results == IF cfg.kind = "udp" THEN UdpSends(cfg.lossy)
                   ELSE IF own # NoConn THEN SendVia(w, own, cfg.lossy)
                   ELSE IF MayReconnect(to) /\ w.invalid THEN {"broken"}
                   ELSE SendTo(w, to, cfg.lossy)
        Noted(r) == IF r = "broken" /\ own = NoConn /\ MayReconnect(to)
                    THEN [w EXCEPT !.invalid = TRUE, !.pending = to] ELSE w
    IN  {[ok |-> r \in {"sent", "dropped"}, w |-> Noted(r)] : r \in results}

(* send_default_message, on the way out of a failing call: a failure is only *)
(* a warning, unless -sendbuffer_warn makes it end the run, by failing every *)
(* call, this one included, without a message of their own.                  *)
Blamed(w, c) == [w EXCEPT !.end.guilty = @ \cup {c}]
FailsAllQuietly(w, c) ==
    [Blamed(Ended(w, InTable(w), {}), c) EXCEPT !.halted = TRUE]
SendsDefault(w, c) ==
    {IF r.ok \/ ~cfg.warn THEN r.w ELSE FailsAllQuietly(r.w, c) : r \in Sends(w, c)}

(* fail_call: it is counted, says goodbye if it has anyone to (`bye`), and   *)
(* leaves the table.                                                         *)
FailsCall(w, c) ==
    IF c \notin InTable(w) THEN {w}
    ELSE LET v == Counted(w, c)
         IN  {Removed(u, c, "failed") : u \in {v} \cup (IF cfg.client THEN SendsDefault(v, c) ELSE {})}

(* fail_all: fail_call of one after the other.  Their goodbyes mark a lost   *)
(* connection; one that fails with -sendbuffer_warn fails every call, and    *)
(* its own for the second time.                                              *)
FailsAll(w) ==
    LET all(u) == Ended(u, InTable(w), {})
        goodbye(c) == {IF r.ok \/ ~cfg.warn THEN all(r.w) ELSE Blamed(Counted(all(r.w), c), c)
                       : r \in Sends(w, c)}
    IN  {all(w)} \cup UNION {goodbye(c) : c \in {d \in InTable(w) : cfg.client}}

-----------------------------------------------------------------------------
(* The shared connection of a client.                                        *)

ReconnectAllowed(w) == w.left = -1 \/ w.left > 0

Spent(w) == [w EXCEPT !.left = IF @ > 0 THEN @ - 1 ELSE @]

(* A mutant of Halts: the run is stopped before its calls are failed.        *)
HaltsOnly(w) == {[w EXCEPT !.halted = TRUE]}

(* "Max number of reconnections reached".                                    *)
Halts(w) == {[v EXCEPT !.halted = TRUE] : v \in FailsAll(w)}

(* reset_mono_connection.                                                    *)
Resets(w, p) ==
    IF ~ReconnectAllowed(w) THEN Halts(w)
    ELSE LET s == [Spent(w) EXCEPT !.dials = @ + 1]
             v == IF cfg.close THEN ClosesCallsTo(s, p) ELSE s
         IN  {IF d.ok THEN [Register(d.w, d.conn) EXCEPT !.invalid = FALSE]
                      ELSE ClosesCallsTo(d.w, p) : d \in Dials(v, p, FALSE)}

(* after_send_failure: the call fails first, then the connection is reset    *)
(* for the calls that follow.                                                *)
AfterSendFailure(w, c) ==
    LET v == IF c \in InTable(w) THEN Failed(w, c) ELSE w
    IN  IF v.pending = NoPeer THEN {v} ELSE Resets([v EXCEPT !.pending = NoPeer], v.pending)

-----------------------------------------------------------------------------
(* Sockets of their own.                                                     *)

Place(k, pool) == Cardinality({j \in pool : j < k})

(* ensure_call_socket: the sockets that calls still hold may be shared past  *)
(* the cap, in turn; below it the call dials one of its own.                 *)
EnsuresSocket(w, c) ==
    IF ~(cfg.perCall \/ cfg.rsa) \/ w.calls[c].sock # NoConn THEN {[ok |-> TRUE, w |-> w]}
    ELSE LET pool == w.pool \cap Held(w)
             v == [w EXCEPT !.pool = pool]
         IN  IF Cardinality(pool) >= cfg.cap
             THEN {[ok |-> TRUE, w |-> [v EXCEPT !.cursor = (@ + 1) % CursorWrap,
                                                 !.calls[c].sock = k]] :
                      k \in {k \in pool : Place(k, pool) = w.cursor % Cardinality(pool)}}
             ELSE {[ok |-> d.ok,
                    w |-> IF d.ok THEN [d.w EXCEPT !.pool = @ \cup {d.conn},
                                                   !.calls[c].sock = d.conn]
                                  ELSE d.w] : d \in Dials(v, w.calls[c].remote, TRUE)}

(* A mutant of Moved: the pool never hears of the call's new connection.     *)
MovedUnpooled(w, c, k, p) ==
    CloseUnheld([w EXCEPT !.calls[c].sock = k, !.calls[c].remote = p])

Moved(w, c, k, p) ==
    CloseUnheld([w EXCEPT !.pool = @ \cup {k},
                          !.calls[c] = [@ EXCEPT !.sock = k, !.remote = p]])

(* fail_from_action counts the call even when apply_setdest failed all.      *)
FailsFromAction(w, c) == Removed(Counted(w, c), c, "failed")

(* apply_setdest.                                                            *)
SetDestAllowed == cfg.kind = "udp" \/ (cfg.perCall /\ cfg.kind \in {"tcp", "ws", "sctp"})
SetsDest(w, c, p) ==
    IF ~SetDestAllowed THEN {FailsFromAction(w, c)}
    ELSE IF cfg.kind = "udp" \/ w.calls[c].sock = NoConn
         THEN {[w EXCEPT !.calls[c].remote = p]}
    ELSE IF Shared(w, c) THEN {FailsFromAction(w, c)}
    ELSE UNION {IF d.ok THEN {Moved(d.w, c, d.conn, p)}
                ELSE IF ~ReconnectAllowed(w)
                     THEN {FailsFromAction(Blamed(v, c), c) : v \in Halts(d.w)}
                ELSE {FailsFromAction(Spent(d.w), c)} : d \in Dials(w, p, TRUE)}

-----------------------------------------------------------------------------
(* The end of a connection is handled.                                       *)

(* A call without a socket dials afresh when it sends next.                  *)
LetsGo(w, ids) == [w EXCEPT !.calls =
    [c \in Calls |-> IF c \in ids THEN [@[c] EXCEPT !.sock = NoConn] ELSE @[c]]]

(* A mutant of OnDisconnected: a close is not remembered.                    *)
OnDisconnectedUnmarked(w, ev) ==
    LET v == IF cfg.close THEN ClosesCallsTo(Forget(w, ev.peer), ev.peer) ELSE Forget(w, ev.peer)
    IN  IF MayReconnect(ev.peer) /\ ~ev.clean THEN Resets(v, ev.peer) ELSE {v}

(* on_disconnected: a call's connection is known by its local port, a shared *)
(* one by its peer.                                                          *)
OnDisconnected(w, ev) ==
    IF cfg.perCall
    THEN LET ids == {c \in InTable(w) : /\ w.calls[c].sock # NoConn
                                        /\ w.link[w.calls[c].sock].port = ev.port}
         IN  {CloseUnheld(IF cfg.close THEN ClosesCalls(w, ids) ELSE LetsGo(w, ids))}
    ELSE LET f == Forget(w, ev.peer)
             v == IF cfg.close THEN ClosesCallsTo(f, ev.peer) ELSE f
         IN  IF ~MayReconnect(ev.peer) THEN {v}
             ELSE LET i == [v EXCEPT !.invalid = TRUE]
                  IN  IF ev.clean THEN {i} ELSE Resets(i, ev.peer)

-----------------------------------------------------------------------------
(* The engine's thread.                                                      *)

Engine(c, outcomes) == /\ sys' \in outcomes
                       /\ UNCHANGED cfg
Running == ~sys.halted

(* The loops of on_pacer_tick and refill_users do not look at hard_stop: they *)
(* open calls in the turn that ends the run, and each of these goes as far   *)
(* as it can before the next one is opened.                                  *)
Acts(c) == Running \/ c \in sys.end.turn

Late(end, c) == [end EXCEPT !.late = @ \cup {c}, !.turn = {c}]
OpenCall(c) ==
    /\ cfg.client /\ sys.calls[c].st = "free"
    /\ Engine(c, {[sys EXCEPT !.calls[c].st = "live",
                              !.end = IF Running THEN @ ELSE Late(@, c)]})

(* A send step: its socket first, then the message.                          *)
CallSends(c) ==
    /\ Acts(c) /\ sys.calls[c].st = "live"
    /\ Engine(c, UNION {IF ~e.ok THEN {Failed(e.w, c)}
                        ELSE UNION {IF r.ok THEN {r.w} ELSE AfterSendFailure(r.w, c)
                                    : r \in Sends(e.w, c)}
                        : e \in EnsuresSocket(sys, c)})

(* Answers outside the scenario: how they fare is ignored.                   *)
CallReplies(c) ==
    /\ Running /\ c \in InTable(sys)
    /\ Engine(c, {r.w : r \in Sends(sys, c)})

CallLingers(c) ==
    /\ Acts(c) /\ sys.calls[c].st = "live"
    /\ Engine(c, {[sys EXCEPT !.calls[c].st = "completing"]})
CallCompletes(c) ==
    /\ Acts(c) /\ c \in InTable(sys)
    /\ Engine(c, {Completed(sys, c)})

(* A timeout fails the call, or a step of its own.                           *)
CallFails(c) ==
    /\ Acts(c) /\ sys.calls[c].st = "live"
    /\ Engine(c, FailsCall(sys, c))

(* on_unexpected_bye_or_cancel: the call answers, is counted and leaves.     *)
CallIsAborted(c) ==
    /\ Running /\ sys.calls[c].st = "live"
    /\ Engine(c, {Removed(Counted(v, c), c, "failed") : v \in SendsDefault(sys, c)})

CallMoves(c, p) ==
    /\ Acts(c) /\ cfg.moves /\ sys.calls[c].st = "live" /\ sys.calls[c].remote # p
    /\ Engine(c, SetsDest(sys, c, p))

(* A message of a connection; one that opens a server's call makes its       *)
(* sender the call's remote.                                                 *)
HandlePacket ==
    /\ Running /\ sys.events # << >> /\ Head(sys.events).type = "packet"
    /\ LET w == [sys EXCEPT !.events = Tail(@)]
           idle == {c \in Calls : w.calls[c].st = "free"}
       IN  Engine(NoConn, {w} \cup
             (IF cfg.client THEN {}
              ELSE {[w EXCEPT !.calls[c] = [@ EXCEPT !.st = "live",
                                                     !.remote = Head(sys.events).peer]] :
                       c \in idle}))

HandleDown ==
    /\ Running /\ sys.events # << >> /\ Head(sys.events).type = "down"
    /\ Engine(NoConn, OnDisconnected([sys EXCEPT !.events = Tail(@)], Head(sys.events)))

-----------------------------------------------------------------------------
(* The other threads and the peers.                                          *)

Reader(k) ==
    /\ sys' \in ReaderSteps(sys, k, cfg.kind)
    /\ UNCHANGED cfg
Network(k) ==
    /\ sys.link[k].st # "handshake"
    /\ sys' \in PeerSteps(sys, k, cfg.kind)
    /\ UNCHANGED cfg

(* The accept loops.  A SIP stream is registered at once; a TLS handshake    *)
(* or a WebSocket upgrade goes on in a thread of its own.                    *)
TakesAtOnce(w, k, p) == Register(Open(w, k, p, SomePort, FALSE), k)
TakesToHandshake(w, k, p) ==
    [Open(w, k, p, SomePort, FALSE) EXCEPT !.link[k].st = "handshake",
                                             !.link[k].reader = "none"]
Accepts(p) ==
    /\ ~cfg.client
    /\ \E k \in Openable(sys) :
         sys' = IF cfg.kind \in {"tls", "ws", "wss"} THEN TakesToHandshake(sys, k, p)
                                                     ELSE TakesAtOnce(sys, k, p)
    /\ UNCHANGED cfg

(* A peer that fails its handshake is dropped, never the run.                *)
Handshake(k) ==
    /\ sys.link[k].st = "handshake"
    /\ sys' \in {Register(sys, k), [sys EXCEPT !.link[k].st = "shut"]}
    /\ UNCHANGED cfg

EngineNext == \/ \E c \in Calls : \/ OpenCall(c) \/ CallSends(c) \/ CallReplies(c)
                                  \/ CallLingers(c) \/ CallCompletes(c)
                                  \/ CallFails(c) \/ CallIsAborted(c)
                                  \/ \E p \in Peers : CallMoves(c, p)
              \/ HandlePacket \/ HandleDown
Next == \/ EngineNext
        \/ \E k \in Conns : Reader(k) \/ Network(k) \/ Handshake(k)
        \/ \E p \in Clients : Accepts(p)

Spec == Init /\ [][Next]_vars
-----------------------------------------------------------------------------
(* Every variable has its type.                                              *)
StateType ==
    [link: [Conns -> LinkType], table: [Peers -> Conns \cup {NoConn}],
     events: Seq(EventType), calls: [Calls -> CallType], counted: [Calls -> Nat],
     invalid: BOOLEAN, pending: Peers \cup {NoPeer}, left: Int, dials: Nat,
     halted: BOOLEAN, end: [late: SUBSET Calls, turn: SUBSET Calls, guilty: SUBSET Calls],
     pool: SUBSET Conns, cursor: 0 .. CursorWrap - 1]
TypeOK == cfg \in Configs /\ sys \in StateType

(* A call that left the table was counted as ended, and only once, however   *)
(* sends, dials and connections fail inside the handler that ends it, unless *)
(* its own failure ended the run (5068, 6819: README); one that is in it was *)
(* not.                                                                      *)
CallsAreCounted ==
    /\ \A c \in Calls :
          IF sys.calls[c].st \in {"successful", "failed"}
          THEN sys.counted[c] >= 1 /\ (sys.counted[c] > 1 => c \in sys.end.guilty)
          ELSE sys.counted[c] = 0
    /\ sys.end.guilty # {} => sys.halted

(* A run that a lost connection ends leaves none of the calls that it had    *)
(* unreported: those it may leave were opened after that.                    *)
HaltedRunHasLateCallsOnly == sys.halted => InTable(sys) \subseteq sys.end.late

(* Every call is reported, once, and none of those that ran is left when a   *)
(* lost connection has ended the run.                                        *)
EveryCallIsReported == TypeOK /\ CallsAreCounted /\ HaltedRunHasLateCallsOnly

(* A client whose connection is gone knows it: without an entry in the table *)
(* the connection is marked, so that the next send resets it                 *)
(* (mono_conn_invalid against the transport's table).                        *)
LostConnectionIsMarked ==
    MayReconnect(Target) /\ sys.table[Target] = NoConn => sys.invalid

(* No call goes on with a connection whose end was reported and handled: it  *)
(* would send into it for ever.  (-rsa servers do: README.)                  *)
NoCallOnAHandledLoss ==
    cfg.perCall => \A c \in InTable(sys) :
        LET k == sys.calls[c].sock IN
        k # NoConn /\ sys.link[k].reader = "done" /\ cfg.kind # "udp" =>
            \E i \in DOMAIN sys.events : sys.events[i].type = "down" /\ sys.events[i].conn = k

(* A loss is neither forgotten by the engine nor by the calls it concerns.    *)
LossesAreNoticed == LostConnectionIsMarked /\ NoCallOnAHandledLoss

(* -max_socket holds, whatever sockets are shared, moved, lost and dialed,   *)
(* and so does -max_reconnect, whoever spends it.                            *)
SocketsWithinCap == Cardinality(Held(sys)) <= cfg.cap
DialsWithinBudget == cfg.max >= 0 => sys.dials + sys.left <= cfg.max
BudgetsHold == SocketsWithinCap /\ DialsWithinBudget

(* What the engine learns of a connection ends with its end: nothing of it   *)
(* follows in the channel, so a loss never overtakes an answer (read_loop).  *)
EndIsLast ==
    \A i, j \in DOMAIN sys.events :
        i < j /\ sys.events[i].type = "down" => sys.events[j].conn # sys.events[i].conn

(* A call that only lingers for retransmissions never fails because its      *)
(* connection went away, unless that ends the run.                           *)
LingeringCallsComplete ==
    [][\A c \in Calls : sys.calls[c].st = "completing" /\ ~sys'.halted
                            => sys'.calls[c].st # "failed"]_vars

=============================================================================
