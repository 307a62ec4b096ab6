----------------------------- MODULE MediaPorts -----------------------------
(* The ports of a call's media: allocate_rtpstream_ports and                 *)
(* media_port_layout of crates/sipr-engine/src/engine.rs, media_port_value   *)
(* of render.rs, and the probe of crates/sipr-media/src/echo.rs.             *)
EXTENDS Integers, Sequences, SequencesExt

MaxPort == 65535       \* u16::MAX

\* The cursor of [rtpstream_audio_port] and [rtpstream_video_port].
PortAfter(port, base, max) == IF port + 2 <= MaxPort /\ port + 2 <= max - 1 THEN port + 2 ELSE base

\* What [media_port] and [auto_media_port], with an offset, are for a call.
MediaPortValue(base, auto, offset, number) ==
    LET port == base + offset + (IF auto THEN (4 * (number - 1)) % 10000 ELSE 0)
    IN  IF port > MaxPort THEN MaxPort ELSE port

-----------------------------------------------------------------------------
(* media_port_layout: which keyword is on the m= line of a kind.  A template *)
(* is lines of words, each a text or a port keyword.                         *)

Text(t) == [is |-> "text", text |-> t, auto |-> FALSE, offset |-> 0]
PortKeyword(auto, offset) == [is |-> "port", text |-> "", auto |-> auto, offset |-> offset]
Plain == [auto |-> FALSE, offset |-> 0]

\* The first line of a kind counts, and on it the first keyword.
Tells(found, kind, line) == kind \notin found /\ line # << >> /\ line[1] = Text(kind)

LayoutLine(s, line, kind) ==
    LET ports == {i \in DOMAIN line : line[i].is = "port"}
    IN  IF ~Tells(s.found, kind, line) \/ ports = {} THEN s
        ELSE LET first == line[CHOOSE i \in ports : \A j \in ports : i <= j]
             IN  [s EXCEPT !.found = @ \cup {kind}, !.layout[kind] = [auto |-> first.auto, offset |-> first.offset]]

-----------------------------------------------------------------------------
(* Properties.                                                             *)

MediaKinds == {"audio", "video"}
Layout(lines, kind) ==
    FoldLeft(LAMBDA s, i : LayoutLine(s, lines[i], kind), [found |-> {}, layout |-> [k \in MediaKinds |-> Plain]],
             [i \in DOMAIN lines |-> i]).layout[kind]
LayoutIsFirst(lines) ==
    \A kind \in MediaKinds :
        LET own == SelectInSeq(lines, LAMBDA l : l[1] = Text(kind) /\ \E i \in DOMAIN l : l[i].is = "port")
            port == IF own = 0 THEN 0 ELSE SelectInSeq(lines[own], LAMBDA w : w.is = "port")
        IN  Layout(lines, kind) = IF own = 0 THEN Plain
                                  ELSE [auto |-> lines[own][port].auto, offset |-> lines[own][port].offset]

Given(base, max, n) == LET port[i \in 0..n] == IF i = 0 THEN base ELSE PortAfter(port[i - 1], base, max) IN port
PortsAreSpread(base, max) ==
    LET pairs == ((IF max < MaxPort THEN max ELSE MaxPort) + 1 - base) \div 2
        n == IF pairs < 6 THEN pairs ELSE 6
        port == Given(base, max, 2 * n)
    IN  /\ \A i \in DOMAIN port : port[i] \in base..max - 1
        /\ \A i, j \in DOMAIN port : i < j /\ j - i < n => port[i] # port[j]
=============================================================================
