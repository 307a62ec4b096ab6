---------------------------- MODULE MCStreamCases ----------------------------
(* Two siprs over each framing, and a sipr with a WebSocket peer that        *)
(* fragments, pings, closes and breaks the protocol.                         *)
EXTENDS StreamFraming

Ends == {"A", "B"}
CaseOf(framing, foreign, deaf, request, a, b) ==
    [framing |-> framing, foreign |-> foreign, deaf |-> deaf, request |-> request,
     send |-> [e \in Ends |-> IF e = "A" THEN a ELSE b]]
Own == OwnRequest("key A")

Sip(n, lengths, body) == [name |-> n, lengths |-> lengths, body |-> body]
SipItems == {Sip(1, <<0>>, << >>), Sip(2, << >>, << >>), Sip(3, <<4, 1>>, Blank), KeepAlive}
SipCases == {CaseOf("sip", FALSE, FALSE, Own, a, b) :
    a \in {<<x, y, z>> : x, y, z \in SipItems}, b \in {<<Sip(3, <<4>>, Blank)>>}}
EscCases == {CaseOf("esc", FALSE, FALSE, Own, a, <<<<Text(1)>>, << >>>>) :
    a \in {<<x, y>> : x, y \in {<<Text(1), CR, LF, Text(2)>>, << >>, <<CR, LF, CR, LF>>}}}
PairCases == {CaseOf("ws", FALSE, FALSE, Own, a, b) :
    a, b \in {<<x, y>> : x, y \in {<<1>>, <<0, 1, 1>>}}}

F(op, fin, data) == [op |-> op, fin |-> fin, data |-> data, masked |-> Len(data) # 1]
Frames == {F("data", TRUE, <<1, 0>>), F("data", FALSE, <<1>>), F("cont", TRUE, <<0, 1>>),
           F("cont", FALSE, <<0>>), F("ping", TRUE, <<1>>), F("close", TRUE, <<0>>),
           F("pong", TRUE, << >>), F("reserved", TRUE, << >>), F("data", TRUE, <<1, 1, 1, 1, 1>>)}
ForeignCases ==
    {CaseOf("ws", TRUE, FALSE, Own, <<x, y, z>>, << >>) : x, y, z \in Frames}
    \cup {CaseOf("ws", TRUE, d, [q EXCEPT !.headers = @ \o h], <<F("ping", TRUE, <<1>>), F("data", TRUE, <<1>>)>>, << >>) :
            d \in BOOLEAN, q \in {Own, [Own EXCEPT !.get = FALSE], [Own EXCEPT !.endless = TRUE]},
            h \in {<< >>, <<<<"version", "8">>>>, <<<<"connection", "keep-alive">>>>, <<<<"key", "key B">>>>}}
AllCases == <<SipCases, EscCases, PairCases, ForeignCases>>
=============================================================================
