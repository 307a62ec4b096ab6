---------------------------- MODULE StreamSession ----------------------------
(* The two ends of a connection: "A" dialed it, "B" accepted it.  Both are   *)
(* sipr, or A is a foreign peer that writes what it likes.  What an end      *)
(* writes arrives in order, in reads of any size.                            *)
EXTENDS StreamFraming

CONSTANT Cases   \* what is sent: a sequence of sets of cases

VARIABLES
    case,   \* framing, foreign, deaf, send: what each end sends, request: A's
    wire,   \* [end -> the units on their way to it]
    end,    \* [end -> its reader], see StreamFraming
    todo    \* [end -> what it has not sent yet]

vars == <<case, wire, end, todo>>
Ends == {"A", "B"}
Other(e) == IF e = "A" THEN "B" ELSE "A"

(* A SIP message: its Content-Length headers, which may be missing or        *)
(* repeat, and a body of any bytes.                                          *)
SipBytes(m) == <<Text(m.name), CR, LF>>
               \o FlattenSeq([i \in DOMAIN m.lengths |-> <<Unit("length", m.lengths[i]), CR, LF>>])
               \o <<CR, LF>> \o m.body

(* Wire::write and TwinChannel::send; what a foreign peer sends is already   *)
(* units (SIP) or frames (WebSocket).                                        *)
Bytes(e, item) ==
    IF case.framing = "esc" THEN item \o <<ESC>>
    ELSE IF case.foreign THEN Frame(item.op, item.fin, item.data, item.masked)
    ELSE IF case.framing = "ws" THEN Frame("data", TRUE, item, e = "A")
    ELSE IF item = KeepAlive THEN <<CR, LF>> ELSE SipBytes(item)

(* Who dialed asks for the upgrade.                                          *)
Init ==
    /\ \E i \in DOMAIN Cases : case \in Cases[i]
    /\ end = [e \in Ends |-> IF case.framing = "ws" THEN [Reader("ws", case.deaf) EXCEPT !.phase = "head"]
                             ELSE Reader(case.framing, FALSE)]
    /\ todo = case.send
    /\ wire = [e \in Ends |->
                 IF e = "A" \/ case.framing # "ws" THEN << >>
                 ELSE IF case.request.endless THEN [i \in 1 .. MaxHead + 1 |-> Text(0)]
                 ELSE <<Unit("request", 0)>> \o Blank]

Sends(e) ==
    /\ todo[e] # << >>
    /\ end[e].phase = "open" \/ (case.foreign /\ e = "A")
    /\ wire' = [wire EXCEPT ![Other(e)] = @ \o Bytes(e, Head(todo[e]))]
    /\ todo' = [todo EXCEPT ![e] = Tail(@)]
    /\ UNCHANGED <<case, end>>

(* Replies go out as the read loop makes them.                               *)
Answered(e, before, after) ==
    FlattenSeq([i \in 1 .. Len(after) - Len(before) |->
        Frame(after[Len(before) + i][1], TRUE, after[Len(before) + i][2], e = "A")])

ReadsStream(e, n) ==
    /\ end[e].phase = "open"
    /\ end' = [end EXCEPT ![e] = Drain([@ EXCEPT !.buf = @ \o SubSeq(wire[e], 1, n)])]
    /\ wire' = [wire EXCEPT ![e] = Rest(@, n),
                            ![Other(e)] = @ \o Answered(e, end[e].replies, end'[e].replies)]
    /\ UNCHANGED <<case, todo>>

(* One read of the handshake.  The server answers the request; the frames    *)
(* that came with a head are the framer's first bytes.                       *)
ReadsHead(e, n) ==
    /\ end[e].phase = "head"
    /\ LET buf == end[e].buf \o SubSeq(wire[e], 1, n)
           h == HeadRead(buf)
           answer == ServerAnswer(case.request)
           accepted == IF e = "B" THEN answer.status = "101"
                       ELSE ClientAccepts(answer, "key A")
           r == IF ~h.whole THEN [end[e] EXCEPT !.buf = buf,
                                                !.phase = IF Len(buf) > MaxHead THEN "failed" ELSE @]
                ELSE IF accepted THEN Started(end[e], h.rest)
                ELSE [end[e] EXCEPT !.phase = "refused", !.buf = << >>]
           said == IF e = "B" /\ h.whole THEN <<Unit(answer.status, 0)>> \o Blank ELSE << >>
       IN  /\ end' = [end EXCEPT ![e] = r]
           /\ wire' = [wire EXCEPT ![e] = Rest(@, n),
                                   ![Other(e)] = @ \o said \o Answered(e, << >>, r.replies)]
    /\ UNCHANGED <<case, todo>>

Sipr == IF case.foreign THEN {"B"} ELSE Ends
Next == \E e \in Ends :
            \/ Sends(e)
            \/ /\ e \in Sipr
               /\ \E n \in 1 .. Len(wire[e]) : ReadsHead(e, n) \/ ReadsStream(e, n)

Spec == Init /\ [][Next]_vars
-----------------------------------------------------------------------------
(* What ought to come out, from what was sent and not from the bytes: the    *)
(* reference for a foreign WebSocket peer's frames f.                        *)

Carries(f, i) == f[i].op \in {"data", "cont"}
OpenAt(f, i) == \E j \in 1 .. (i - 1) : /\ Carries(f, j) /\ ~f[j].fin
                                        /\ \A k \in (j + 1) .. (i - 1) : ~Carries(f, k)
Start(f, i) == CHOOSE j \in 1 .. i : f[j].op = "data" /\ \A k \in (j + 1) .. i : f[k].op # "data"
Payload(f, i) == FlattenSeq([k \in 1 .. (i - Start(f, i) + 1) |->
    LET j == Start(f, i) + k - 1 IN IF Carries(f, j) THEN f[j].data ELSE << >>])
Violates(f, i) ==
    \/ f[i].op = "reserved" \/ Len(f[i].data) > MaxMessage
    \/ f[i].op = "data" /\ OpenAt(f, i)
    \/ f[i].op = "cont" /\ (~OpenAt(f, i) \/ Len(Payload(f, i)) > MaxMessage)
Final(f, i) == Violates(f, i) \/ f[i].op = "close" \/ (f[i].op = "ping" /\ case.deaf)
Upto(f) == IF \E i \in DOMAIN f : Final(f, i)
           THEN CHOOSE i \in DOMAIN f : Final(f, i) /\ \A j \in 1 .. (i - 1) : ~Final(f, j)
           ELSE Len(f) + 1
RefOut(f) == FlattenSeq([i \in 1 .. Upto(f) - 1 |->
    IF Carries(f, i) /\ f[i].fin THEN <<Payload(f, i)>> ELSE << >>])
RefPhase(f) == IF Upto(f) > Len(f) THEN "open"
               ELSE IF ~Violates(f, Upto(f)) /\ f[Upto(f)].op = "close" THEN "closed" ELSE "failed"

RefReplies(f) ==
    IF case.deaf THEN << >>
    ELSE FlattenSeq([i \in 1 .. Upto(f) - 1 |-> IF f[i].op = "ping" THEN <<<<"pong", f[i].data>>>> ELSE << >>])
         \o (IF RefPhase(f) = "closed" THEN <<<<"close", f[Upto(f)].data>>>> ELSE << >>)

Upgraded == \/ case.framing # "ws"
            \/ ServerAnswer(case.request).status = "101" /\ ~case.request.endless
Expected(e) ==
    LET sent == case.send[Other(e)]
    IN  IF ~Upgraded THEN << >>
        ELSE IF case.framing # "sip" THEN IF case.foreign THEN RefOut(sent) ELSE sent
        ELSE FlattenSeq([i \in DOMAIN sent |->
                 IF sent[i] = KeepAlive THEN << >> ELSE <<SipBytes(sent[i])>>])

(* Each end cuts out what the other sent, in order and never anything else,  *)
(* wherever the reads end, the handshake's included; and what has arrived    *)
(* whole is delivered without waiting for more (next_message, next_event,    *)
(* next_command, read_head).                                                 *)
ReadersMeetReference ==
    \A e \in Sipr :
        /\ IsPrefix(end[e].out, Expected(e))
        /\ wire[e] = << >> /\ todo[Other(e)] = << >> /\ end[e].phase # "head"
               => end[e].out = Expected(e)

(* Pings are answered in their order, each with its own payload, and a close *)
(* last; a connection ends exactly where the peer closed it or broke the     *)
(* protocol.                                                                 *)
RepliesMeetReference ==
    case.foreign /\ Upgraded =>
        LET f == case.send["A"] IN
        /\ IsPrefix(end["B"].replies, RefReplies(f))
        /\ end["B"].phase \notin {"head", "open"} => end["B"].phase = RefPhase(f)
        /\ wire["B"] = << >> /\ todo["A"] = << >> /\ end["B"].phase # "head"
               => end["B"].phase = RefPhase(f) /\ end["B"].replies = RefReplies(f)
=============================================================================
