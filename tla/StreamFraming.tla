---------------------------- MODULE StreamFraming ----------------------------
(* How crates/sipr-net cuts a byte stream into messages: Content-Length      *)
(* framing (TcpFramer), WebSocket with its upgrade (ws.rs) and the twin's    *)
(* ESC framing (EscFramer).  A stream is a sequence of units, the smallest   *)
(* pieces a read can separate that matter; a read may end between any two.   *)
(* Readers are records: buf, what is read and not cut yet; message and open, *)
(* the fragments of a WebSocket message; phase; out, what was cut.           *)
EXTENDS Naturals, Sequences, SequencesExt

CONSTANTS
    MaxMessage,   \* MAX_MESSAGE, in payload units
    MaxHead       \* MAX_HEAD, in units

Unit(t, n) == [t |-> t, n |-> n]
Text(n) == Unit("text", n)      \* a run of bytes without CR, LF or ESC
CR == Unit("CR", 0)
LF == Unit("LF", 0)
ESC == Unit("ESC", 0)
Blank == <<CR, LF, CR, LF>>
KeepAlive == [name |-> 0, lengths |-> << >>, body |-> << >>]   \* a SIP message: CRLF alone

Rest(s, n) == SubSeq(s, n + 1, Len(s))
StartsWith(s, t) == Len(s) >= Len(t) /\ SubSeq(s, 1, Len(t)) = t

(* find_subslice: how much of s precedes the first t; Len(s) if none does.   *)
Before(s, t) ==
    LET at == {i \in 0 .. Len(s) : StartsWith(Rest(s, i), t)}
    IN  IF at = {} THEN Len(s) ELSE CHOOSE i \in at : \A j \in at : i <= j
Holds(s, t) == Before(s, t) < Len(s)

-----------------------------------------------------------------------------
(* TcpFramer.                                                                *)

(* A mutant of SkipKeepAlives: only the first CRLF is skipped.               *)
SkipOneKeepAlive(buf) == IF StartsWith(buf, <<CR, LF>>) THEN Rest(buf, 2) ELSE buf

SkipKeepAlives(buf) ==
    LET Pairs(n) == \A i \in 1 .. n : SubSeq(buf, 2 * i - 1, 2 * i) = <<CR, LF>>
        most == CHOOSE n \in 0 .. Len(buf) \div 2 :
                    Pairs(n) /\ \A m \in (n + 1) .. (Len(buf) \div 2) : ~Pairs(m)
    IN  Rest(buf, 2 * most)

(* content_length: the first header of that name with a number, else 0.      *)
ContentLength(head) ==
    LET named == SelectSeq(head, LAMBDA u : u.t = "length")
    IN  IF named = << >> THEN 0 ELSE Head(named).n

Cut(r, ev, data) == [ev |-> ev, data |-> data, r |-> r]

SipNext(r) ==
    LET buf == SkipKeepAlives(r.buf)
        body == Before(buf, Blank) + Len(Blank)
        total == body + ContentLength(SubSeq(buf, 1, Before(buf, Blank)))
    IN  IF ~Holds(buf, Blank) \/ Len(buf) < total
        THEN Cut([r EXCEPT !.buf = buf], "more", << >>)
        ELSE Cut([r EXCEPT !.buf = Rest(buf, total)], "message", SubSeq(buf, 1, total))

(* EscFramer: the command without its ESC.                                   *)
EscNext(r) ==
    IF ~Holds(r.buf, <<ESC>>) THEN Cut(r, "more", << >>)
    ELSE LET n == Before(r.buf, <<ESC>>)
         IN  Cut([r EXCEPT !.buf = Rest(@, n + 1)], "message", SubSeq(r.buf, 1, n))

-----------------------------------------------------------------------------
(* WebSocket frames.  The first unit of a frame holds FIN and the opcode,    *)
(* the second the mask bit and the length, or "ext" for one of the longer    *)
(* forms, which follows; then the mask's key, then the payload, bit by bit.  *)

Opcodes == {"cont", "data", "close", "ping", "pong", "reserved"}
ShortLen == 1   \* the longest length that needs no extension (125)
Key == <<1, 0, 1, 1>>
KeyBit(masked, i) == IF masked THEN Key[((i - 1) % 4) + 1] ELSE 0
Masked(payload, masked) ==
    [i \in DOMAIN payload |-> (payload[i] + KeyBit(masked, i)) % 2]

(* frame, for any FIN: what Wire::write sends, and what a peer may.          *)
Frame(op, fin, payload, masked) ==
    LET n == Len(payload)
        m == IF masked THEN "masked" ELSE "plain"
    IN  <<Unit(op, IF fin THEN 1 ELSE 0)>>
        \o (IF n <= ShortLen THEN <<Unit(m, n)>> ELSE <<Unit(m, ShortLen + 1), Unit("ext", n)>>)
        \o (IF masked THEN <<Unit("key", 0)>> ELSE << >>)
        \o [i \in 1 .. n |-> Unit("bit", Masked(payload, masked)[i])]

(* WsFramer::header.                                                         *)
Header(buf) ==
    LET b1 == buf[2]
        ext == b1.n > ShortLen
        size == IF ext THEN buf[3].n ELSE b1.n
        masked == b1.t = "masked"
        len == 2 + (IF ext THEN 1 ELSE 0) + (IF masked THEN 1 ELSE 0)
        Is(st) == [st |-> st]
    IN  IF Len(buf) < 2 THEN Is("more")
        ELSE IF buf[1].t \notin Opcodes \ {"reserved"} THEN Is("error")
        ELSE IF ext /\ Len(buf) < 3 THEN Is("more")
        ELSE IF size > MaxMessage THEN Is("error")
        ELSE IF masked /\ Len(buf) < len THEN Is("more")
        ELSE [st |-> "frame", op |-> buf[1].t, fin |-> buf[1].n = 1, masked |-> masked,
              len |-> len, size |-> size]

(* WsFramer::next_event: frames are taken off the buffer until one of them   *)
(* is an event.  Frame h, with its payload, is already off the buffer of s.  *)
RECURSIVE WsEvent(_)
WsFrame(s, h, payload) ==
    CASE h.op = "cont" ->
           IF ~s.open \/ Len(s.message \o payload) > MaxMessage THEN Cut(s, "error", << >>)
           ELSE IF h.fin
           THEN Cut([s EXCEPT !.open = FALSE, !.message = << >>], "message", s.message \o payload)
           ELSE WsEvent([s EXCEPT !.message = @ \o payload])
      [] h.op = "data" ->
           IF s.open THEN Cut(s, "error", << >>)
           ELSE IF h.fin THEN Cut(s, "message", payload)
           ELSE WsEvent([s EXCEPT !.open = TRUE, !.message = payload])
      [] h.op \in {"close", "ping"} -> Cut(s, h.op, payload)
      [] h.op = "pong" -> WsEvent(s)

WsHeaded(r, h) ==
    IF h.st # "frame" THEN Cut(r, h.st, << >>)
    ELSE IF Len(r.buf) < h.len + h.size THEN Cut(r, "more", << >>)
    ELSE WsFrame([r EXCEPT !.buf = Rest(@, h.len + h.size)], h,
                 Masked([i \in 1 .. h.size |-> r.buf[h.len + i].n], h.masked))

WsEvent(r) == WsHeaded(r, Header(r.buf))

-----------------------------------------------------------------------------
(* The read loop over a framer: a reply to a ping that cannot be written     *)
(* ends the connection; a close is answered, and ends it, either way.        *)

NextOf(r) == CASE r.framing = "sip" -> SipNext(r)
               [] r.framing = "esc" -> EscNext(r)
               [] r.framing = "ws" -> WsEvent(r)

RECURSIVE Drain(_)
Handled(s, c) ==
    CASE c.ev = "more" -> s
      [] c.ev = "message" -> Drain([s EXCEPT !.out = Append(@, c.data)])
      [] c.ev = "ping" ->
           IF s.deaf THEN [s EXCEPT !.phase = "failed"]
           ELSE Drain([s EXCEPT !.replies = Append(@, <<"pong", c.data>>)])
      [] c.ev = "close" ->
           [s EXCEPT !.phase = "closed",
                     !.replies = IF s.deaf THEN @ ELSE Append(@, <<"close", c.data>>)]
      [] c.ev = "error" -> [s EXCEPT !.phase = "failed"]
HandledCut(c) == Handled(c.r, c)

Drain(r) == HandledCut(NextOf(r))

(* StreamFramer::new: the framer starts with what came with the handshake.   *)
Reader(framing, deaf) ==
    [framing |-> framing, phase |-> "open", buf |-> << >>, message |-> << >>,
     open |-> FALSE, out |-> << >>, replies |-> << >>, deaf |-> deaf]
Started(r, rest) == Drain([r EXCEPT !.phase = "open", !.buf = rest])

(* read_head: the head, and what was read past it.                           *)
HeadAt(buf, n) == [whole |-> n < Len(buf), head |-> SubSeq(buf, 1, n), rest |-> Rest(buf, n + Len(Blank))]
HeadRead(buf) == HeadAt(buf, Before(buf, Blank))

-----------------------------------------------------------------------------
(* The upgrade.  A request is its headers, which may repeat: header() joins  *)
(* their values.  A key stands for the accept key derived from it.           *)

Joined(headers, name) == FlattenSeq([i \in DOMAIN headers |->
    IF headers[i][1] = name THEN <<headers[i][2]>> ELSE << >>])

OwnRequest(key) == [get |-> TRUE, endless |-> FALSE, headers |-> <<<<"upgrade", "websocket">>,
    <<"connection", "upgrade">>, <<"key", key>>, <<"version", "13">>, <<"protocol", "sip">>>>]

(* server_handshake: the status, and the accept key of a 101.                *)
ServerAnswer(q) ==
    IF ~(/\ q.get
         /\ Joined(q.headers, "upgrade") = <<"websocket">>
         /\ "upgrade" \in ToSet(Joined(q.headers, "connection"))
         /\ Joined(q.headers, "key") # << >>)
    THEN [status |-> "400", accept |-> << >>, sip |-> FALSE]
    ELSE IF Joined(q.headers, "version") # <<"13">>
    THEN [status |-> "426", accept |-> << >>, sip |-> FALSE]
    ELSE [status |-> "101", accept |-> Joined(q.headers, "key"),
          sip |-> "sip" \in ToSet(Joined(q.headers, "protocol"))]

(* client_handshake: the accept key must be the one of its own key.          *)
ClientAccepts(answer, key) == answer.status = "101" /\ answer.accept = <<key>>
=============================================================================
