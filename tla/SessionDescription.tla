-------------------------- MODULE SessionDescription --------------------------
(***************************************************************************)
(* What a call learns from the peer's SDP and what it renders into its     *)
(* own: crates/sipr-media/src/sdp.rs, learn_remote_media and               *)
(* prepare_crypto of the engine, and CallCrypto of render.rs.  A line is a *)
(* record; a key is the number of its making.                              *)
(***************************************************************************)
EXTENDS Integers, Sequences, SequencesExt, FiniteSets

NoAddress == "0.0.0.0"   \* also what does not parse
Declined == 0            \* the port of a stream that is held or refused
None == << >>

Connection(address) == [is |-> "c", address |-> address, kind |-> "", port |-> 0, suite |-> "", key |-> 0, ue |-> FALSE]
MediaLine(kind, port) == [Connection("") EXCEPT !.is = "m", !.kind = kind, !.port = port]
CryptoLine(suite, key, ue) == [Connection("") EXCEPT !.is = "crypto", !.suite = suite, !.key = key, !.ue = ue]

\* parse_connection, parse_media.
AddressIn(line) == IF line.address = NoAddress THEN None ELSE <<line.address>>
LiveMedia(line, kind) == line.is = "m" /\ line.kind = kind /\ line.port # Declined

-----------------------------------------------------------------------------
(* remote_endpoint, one line after the other: inside is the port of the      *)
(* section that matches, with the address it has had so far.               *)

Scanning == [session |-> None, inside |-> FALSE, port |-> 0, media |-> None, found |-> None]
Finish(s) ==
    LET address == IF s.media # None THEN s.media ELSE s.session
    IN  IF ~s.inside \/ address = None THEN None ELSE <<[address |-> address[1], port |-> s.port]>>

ScanConnection(s, line) ==
    IF s.inside THEN [s EXCEPT !.media = IF @ = None THEN AddressIn(line) ELSE @]
    ELSE [s EXCEPT !.session = IF @ = None THEN AddressIn(line) ELSE @]
ScanMedia(s, line, kind) ==
    LET found == Finish(s)
    IN  IF found # None THEN [s EXCEPT !.found = found, !.inside = FALSE]
        ELSE [s EXCEPT !.inside = LiveMedia(line, kind), !.port = line.port, !.media = None]
ScanLine(s, line, kind) ==
    IF s.found # None THEN s
    ELSE CASE line.is = "c" -> ScanConnection(s, line)
           [] line.is = "m" -> ScanMedia(s, line, kind)
           [] OTHER         -> s
RemoteEndpoint(body, kind) ==
    LET s == FoldLeft(LAMBDA t, line : ScanLine(t, line, kind), Scanning, body)
    IN  IF s.found # None THEN s.found ELSE Finish(s)

\* crypto_attributes: at most two, of the first section that matches.
SectionFrom(body, from) ==
    LET ends == {i \in from + 1..Len(body) : body[i].is = "m"}
    IN  SubSeq(body, from + 1, IF ends = {} THEN Len(body) ELSE (CHOOSE i \in ends : \A j \in ends : i <= j) - 1)
CryptoAttributes(body, kind) ==
    LET from == SelectInSeq(body, LAMBDA line : LiveMedia(line, kind))
        own == IF from = 0 THEN << >> ELSE SelectSeq(SectionFrom(body, from), LAMBDA line : line.is = "crypto")
    IN  SubSeq(own, 1, IF Len(own) < 2 THEN Len(own) ELSE 2)

-----------------------------------------------------------------------------
(* CallCrypto, of one kind of media: two slots of one's own and the peer's   *)
(* lines.                                                                  *)

Suites == {"80", "32"}
NoSlot == [suite |-> "", key |-> 0, ue |-> FALSE]
NoCrypto == [local |-> <<NoSlot, NoSlot>>, remote |-> << >>]

\* learn_remote_media: an SDP without crypto lines leaves what was known.
LearnCrypto(crypto, attrs) == IF attrs = << >> THEN crypto ELSE [crypto EXCEPT !.remote = attrs]

\* prepare_crypto, for one line that the template renders.
PrepareSlot(slot, line, fresh) ==
    [suite |-> IF line.ue /\ slot.suite # "" THEN slot.suite ELSE line.suite,
     ue    |-> slot.ue \/ line.ue,
     key   |-> IF line.reuse /\ slot.key # 0 THEN slot.key ELSE fresh]
Prepare(crypto, lines, fresh) ==
    FoldLeft(LAMBDA c, i : [c EXCEPT !.local[lines[i].slot] = PrepareSlot(@, lines[i], fresh + i)],
             crypto, [i \in DOMAIN lines |-> i])

\* A mutant of Rendered: the lines are rendered before they are prepared.
RenderedFirst(crypto, prepared, lines) ==
    [i \in DOMAIN lines |-> CryptoLine(lines[i].suite, crypto.local[lines[i].slot].key, lines[i].ue)]
Rendered(crypto, prepared, lines) ==
    [i \in DOMAIN lines |-> CryptoLine(lines[i].suite, prepared.local[lines[i].slot].key, lines[i].ue)]

\* negotiate: the slot to send under, and the contexts.
Chosen(crypto) ==
    LET suite == crypto.remote[1].suite
    IN  IF crypto.local[1].suite # suite /\ crypto.local[2].key # 0 /\ crypto.local[2].suite = suite THEN 2 ELSE 1
Context(suite, key, ue) == [suite |-> suite, key |-> key, encrypts |-> ~ue]
Negotiates(crypto) ==
    /\ crypto.remote # << >>
    /\ crypto.remote[1].suite \in Suites
    /\ crypto.local[Chosen(crypto)].suite \in Suites /\ crypto.local[Chosen(crypto)].key # 0
SendContext(crypto) == LET l == crypto.local[Chosen(crypto)] IN Context(l.suite, l.key, l.ue)
ReceiveContext(crypto) == LET r == crypto.remote[1] IN Context(r.suite, r.key, r.ue)

-----------------------------------------------------------------------------
(* Properties.                                                             *)

Sections(body) == {i \in DOMAIN body : body[i].is = "m"}
SessionPart(body) == SubSeq(body, 1, IF Sections(body) = {} THEN Len(body)
                                     ELSE (CHOOSE i \in Sections(body) : \A j \in Sections(body) : i <= j) - 1)
FirstAddress(lines) == LET i == SelectInSeq(lines, LAMBDA l : l.is = "c" /\ l.address # NoAddress)
                       IN  IF i = 0 THEN None ELSE <<lines[i].address>>
\* Connection lines where RFC 4566 has them: for the session, or in every section.
WellFormed(body) ==
    \/ FirstAddress(SessionPart(body)) # None
    \/ \A i \in Sections(body) : FirstAddress(SectionFrom(body, i)) # None
EndpointIsFirstLive(body, kind) ==
    LET i == SelectInSeq(body, LAMBDA l : LiveMedia(l, kind))
        own == IF i = 0 THEN None ELSE FirstAddress(SectionFrom(body, i))
    IN  RemoteEndpoint(body, kind) =
            IF i = 0 THEN None
            ELSE <<[address |-> IF own # None THEN own[1] ELSE FirstAddress(SessionPart(body))[1], port |-> body[i].port]>>

\* Two calls that send each other messages with crypto lines.
Told(cryptos, message, fresh) ==
    LET from == message.from
        prepared == Prepare(cryptos[from], message.lines, fresh)
        attrs == CryptoAttributes(<<MediaLine("audio", 5)>> \o Rendered(cryptos[from], prepared, message.lines), "audio")
    IN  [c \in 1..2 |-> IF c = from THEN prepared ELSE LearnCrypto(cryptos[c], attrs)]
Exchange(messages) ==
    FoldLeft(LAMBDA s, i : Told(s, messages[i], 10 * i), <<NoCrypto, NoCrypto>>, [i \in DOMAIN messages |-> i])

LastOf(messages, from) == SelectLastInSeq(messages, LAMBDA m : m.from = from)
\* The usual exchange: slot 1 first, the answer's suite is the offer's first, and who
\* sends unencrypted always says so.
Usual(messages) ==
    /\ \A from \in 1..2 : LastOf(messages, from) # 0
    /\ \A i \in DOMAIN messages : messages[i].lines # << >> /\ messages[i].lines[1].slot = 1
    /\ \A i, j \in DOMAIN messages : \A k \in DOMAIN messages[i].lines, l \in DOMAIN messages[j].lines :
          messages[i].from = messages[j].from /\ messages[i].lines[k].slot = messages[j].lines[l].slot =>
              /\ messages[i].lines[k].ue = messages[j].lines[l].ue
              /\ messages[i].lines[k].ue => messages[i].lines[k].suite = messages[j].lines[l].suite
    /\ messages[LastOf(messages, 1)].lines[1].suite = messages[LastOf(messages, 2)].lines[1].suite
SidesAgree(messages) ==
    LET c == Exchange(messages)
    IN  /\ \A s \in 1..2 : Negotiates(c[s])
        /\ SendContext(c[1]) = ReceiveContext(c[2]) /\ SendContext(c[2]) = ReceiveContext(c[1])
=============================================================================
