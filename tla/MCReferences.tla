---------------------------- MODULE MCReferences ----------------------------
(* The pure algorithms against their references: every input of a topic,     *)
(* built from its pieces up to a length.                                     *)
EXTENDS RegexReference, TLC

T == INSTANCE Templates

CONSTANTS
    Lengths,       \* bound: the pieces of an input, by topic
    Pieces,        \* the pieces themselves
    Tables,        \* the variables the scenarios of the actions declare
    Files,         \* the injection files they read and write
    StreamCases    \* what the ends of a stream send, see StreamSession

VARIABLES topic, input,
          case, wire, end, todo    \* of StreamSession, which has a topic of its own

RegexPieces == {<<"a">>, <<"b">>, <<".">>, <<"*">>, <<"+">>, <<"?">>, <<"{", "1", ",", "2", "}">>,
                <<"(">>, <<")">>, <<"|">>, <<"(", "a", "|", "a", "b", ")">>,<<"^">>, <<"$">>, <<"[", "^", "a", "]">>}

TemplatePieces == {<<"[">>, <<"]">>, <<"\n">>, <<"x">>, <<"pid">>, <<"cseq">>, <<"+1">>, <<" ">>, <<"key">>,
                   <<"file", " ", "name=">>, <<" ", "line=", "$v">>, <<"field0">>, <<"last_">>, <<":">>,
                   <<"[", "$v", "]">>, <<"branch">>}
CdataPieces == {<<"h">>, <<" ">>, <<"\r">>, <<"\n">>}

-----------------------------------------------------------------------------
(* Variables, actions and injection files.                                 *)

Var(name, scope) == [name |-> name, scope |-> scope]
Tables0 == <<<<Var("a", "call"), Var("u", "user"), Var("g", "global"), Var("w", "global")>>,
             <<Var("w", "global"), Var("a", "call"), Var("g", "global"), Var("u", "user")>>>>
I == INSTANCE Injection
File(mode, rows) == [I!NoFile EXCEPT !.ok = TRUE, !.mode = mode, !.rows = rows]
Files0 == <<I!BuildIndex(File("sequential", <<<<<<"h">>>>, <<<<"2", ".000000">>>>>>)),
            File("sequential", <<<<>>, <<>>, <<>>>>), File("user", <<<<>>, <<>>>>), File("random", <<<<>>, <<>>>>)>>
A == INSTANCE ActionsReference WITH FileNames <- <<"f", "1", "3", "r">>,
                                    Sets <- <<<<"w", <<" ", "7">>>>>>

Invite == [start |-> <<"INVITE", "h">>, head |-> <<"k:", "h", "x", "\n">>, body |-> <<"h", "y">>]
To(do, ids) == [A!Action(do) EXCEPT !.to = ids]
From(do, id, from) == [To(do, <<id>>) EXCEPT !.from = from]
Arith(op, id, from, value) == [From("arith", id, from) EXCEPT !.op = op, !.value = value]
Ereg(ids, in, check, pattern) ==
    [To("ereg", ids) EXCEPT !.in = in, !.check = check, !.pattern = pattern, !.header = "k:", !.from = 3]
Printing(a, parts) == [a EXCEPT !.parts = parts, !.file = "f", !.line = <<A!TextPart(<<"1">>)>>]

MainActions == {
    <<[To("assign", <<3>>) EXCEPT !.value = 2], Arith("add", 2, 3, 0), Arith("divide", 4, 1, 0)>>,
    <<Printing(To("assignstr", <<1>>), <<A!TextPart(<<"%">>), A!VarPart(3)>>), A!Action("jump"), Arith("multiply", 3, 0, 3)>>,
    <<Ereg(<<1, 2>>, "hdr", TRUE, <<"(", "h", ")", ".">>), A!Action("stop_now"), [To("assign", <<3>>) EXCEPT !.value = 7]>>,
    <<Printing(To("lookup", <<2>>), <<A!VarPart(3)>>), Printing(A!Action("insert"), <<A!VarPart(1)>>), From("trim", 3, 4)>>}
OtherActions == {
    <<From("todouble", 3, 1), [From("test", 2, 3) EXCEPT !.op = "less_equal", !.value = 7], From("urlencode", 4, 1)>>,
    <<Ereg(<<4, 1>>, "var", FALSE, <<"2", "(", "y", ")", "?">>), Printing(A!Action("replace"), <<A!VarPart(4)>>),
      Printing(From("strcmp", 2, 3), <<A!TextPart(<<"7">>)>>), A!Action("stop_call"), From("urldecode", 3, 4)>>}
ActionPieces ==
    {A!Open(1, 1, u) : u \in 0..1} \cup {A!Open(2, s, 1) : s \in 1..2} \cup {A!Run(1, l, Invite, << >>) : l \in MainActions}
    \cup {A!Run(2, l, A!NoMessage, <<"h", "2">>) : l \in OtherActions}

\* Writes of the index: a row appended or a line replaced.
WritePieces == {[line |-> l, key |-> k] : l \in {-1, 0, 1}, k \in {<<"a">>, <<"b">>, << >>}}
Row(key) == IF key = << >> THEN << >> ELSE <<key>>
KeysFile == I!BuildIndex(File("sequential", <<<<<<"a">>>>, <<<<"b">>>>>>))
Keys0 == <<[line |-> 0, key |-> <<"a">>], [line |-> 1, key |-> <<"b">>]>>
Wrote == FoldLeft(LAMBDA s, w :
            IF w.line = -1 THEN [file |-> I!Insert(s.file, Row(w.key)),
                                 writes |-> Append(s.writes, [w EXCEPT !.line = Len(s.file.rows)])]
            ELSE [file |-> I!Replace(s.file, w.line, Row(w.key)), writes |-> Append(s.writes, w)],
            [file |-> KeysFile, writes |-> Keys0], input)

LinePieces == {[is |-> i, fields |-> f] : i \in {"blank", "comment"}, f \in {<<<<"x">>>>}}
    \cup {[is |-> "data", fields |-> f] : f \in {<<<<"%", "d">>>>, <<<<"a">>, <<"%", "-", "2", "d">>>>,
                                               <<<<"a">>, <<"%", "0", "3">>>>, <<<<"%", "%">>>>}}
Headers == {[printf |-> p, lines |-> n, offset |-> -1, multiple |-> m] : p \in BOOLEAN, n \in {0, 3}, m \in {1, 12}}
Word == {"SEQUENTIAL"}

ScopePieces == {<<t, Var(n, s)>> : t \in 1..2, n \in {"x", "y", "z"}, s \in {"call", "user", "global"}}
Declared(t) == LET own == SelectSeq(input, LAMBDA d : d[1] = t) IN [i \in DOMAIN own |-> own[i][2]]
Distinct(table) == \A i, j \in DOMAIN table : table[i].name = table[j].name => i = j

-----------------------------------------------------------------------------
(* Media.                                                                  *)

M == INSTANCE MediaSources WITH SeqModulus <- 8
D == INSTANCE SessionDescription
P == INSTANCE MediaPorts
W == INSTANCE RecvWindow

BurstPieces == {<<digits, tone>> : digits \in {<<"1">>, <<"*", "x">>, <<"x">>, <<"1", "1">>}, tone \in {49, 50, 90}}
SdpPieces == {D!Connection("A"), D!Connection("B"), D!Connection(D!NoAddress), D!MediaLine("audio", 5),
              D!MediaLine("audio", 0), D!MediaLine("video", 7), D!CryptoLine("80", 1, FALSE)}
Crypto(slot, suite, ue, reuse) == [slot |-> slot, suite |-> suite, ue |-> ue, reuse |-> reuse]
OfferPieces ==
    {[from |-> f, lines |-> <<Crypto(1, s, u, r)>> \o more] :
        f \in 1..2, s \in D!Suites, u \in BOOLEAN, r \in BOOLEAN,
        more \in {<< >>, <<Crypto(2, "32", FALSE, FALSE)>>}}
LayoutPieces == {<<P!Text(t)>> \o rest : t \in {"audio", "video", "image"},
                    rest \in {<< >>, <<P!PortKeyword(TRUE, 0)>>, <<P!Text(","), P!PortKeyword(FALSE, 2), P!PortKeyword(TRUE, 4)>>}}
                \cup {<<P!PortKeyword(FALSE, 6)>>}
PortRanges == {<<base, max>> : base \in {10, P!MaxPort - 3}, max \in {13, 14, 15, P!MaxPort - 1, P!MaxPort}}

-----------------------------------------------------------------------------
(* Messages and their authentication.                                      *)

R == INSTANCE Rendering
N == INSTANCE Inbound
G == INSTANCE Digest

NoLast == [lines |-> << >>, values |-> << >>, message |-> << >>]
Poor == [texts |-> [pid |-> <<"x">>, service |-> <<"x">>], ips |-> [remote_ip |-> <<"x">>], ports |-> [remote_port |-> 70],
         callNumber |-> 71, mediaPort |-> R!MaxPort, cseq |-> 1, msgIndex |-> 72, callMsgIndex |-> 72, peerTag |-> << >>,
         routes |-> << >>, last |-> NoLast, vars |-> << >>, doubles |-> << >>, parsed |-> << >>, keys |-> << >>,
         generic |-> << >>, files |-> << >>, fileLines |-> << >>, disk |-> << >>, challenge |-> G!NoChallenge,
         authUser |-> <<"u">>, authPassword |-> <<"p", "w">>, method |-> <<"INVITE">>, digestUri |-> <<"sip:", "h">>]
Rich == [Poor EXCEPT !.ips = [remote_ip |-> <<"x", ":", "x">>], !.routes = <<<<"x">>, <<"y">>>>, !.peerTag = <<"x">>,
                     !.last = [lines |-> [Via |-> <<<<"Via: ", "x">>, <<"Via: ">>>>],
                               values |-> [Contact |-> <<"<", "sip:x", ";", "x", ">">>, To |-> <<"<", "x">>],
                               message |-> <<"x", "\n", "\n", "x">>],
                     !.vars = [user |-> <<"u">>, n |-> <<"3">>], !.doubles = [n |-> 3], !.parsed = [n |-> 0],
                     !.files = <<[name |-> "f", rows |-> <<<<<<"x">>>>>>]>>, !.fileLines = <<0>>]
OnDisk == [path \in {<<"x">>} |-> <<"x", "\n", "\n", "x">>]
Contexts == {Poor, [Rich EXCEPT !.disk = OnDisk]}
FileKeyword == [R!Keyword("file", "") EXCEPT !.params = <<R!Lit(<<"x">>)>>]
FieldKeyword == [R!Keyword("field", "") EXCEPT !.line = [is |-> "var", name |-> "n"]]
WithLine == [Rich EXCEPT !.fileLines = <<0>>]
RenderPieces == {R!Lit(<<"x">>), R!Lit(<<"\n">>), R!Lit(<<"\n", "\n">>), R!Keyword("len", ""), R!Plus(R!Keyword("len", ""), 2),
                 R!Keyword("routes", ""), R!Keyword("last", "Via"), FieldKeyword, FileKeyword, R!Keyword("last_message", ""),
                 R!Keyword("next_url", "")}
WithFill == <<R!Keyword("len", ""), R!Lit(<<"\n">>)>> \o input \o <<[R!Keyword("fill", "n") EXCEPT !.text = <<"a", "b">>]>>

InboundPieces == {<<"\n">>, <<" ">>, <<"x">>, <<":">>, <<"Via", ":">>, <<"v", ":">>}
Wire(eol) == LET text == <<"INVITE", "\n">> \o FlattenSeq(input)
             IN  [i \in DOMAIN text |-> IF text[i] = "\n" THEN eol ELSE text[i]]

ChallengePieces ==
    {<<",", " ">>, G!Quoted("Realm", <<"r", ",">>), G!Quoted("nonce", <<"n", "=">>), G!Quoted("qop", <<"AUTH">>),
     G!Quoted("qop", <<"auth-int", ",", " ", "auth">>), G!Quoted("qop", <<"auth-int">>), G!Plain("algorithm", <<"sha-256">>),
     G!Quoted("algorithm", <<"MD5", "-sess">>), G!Plain("algorithm", <<"AKAv1-MD5">>), G!Quoted("stale", <<"TRUE">>), G!Quoted("opaque", <<",", "=">>)}
Challenge == <<"Digest", " ">> \o G!Quoted("realm", <<"r">>) \o G!More \o G!Quoted("nonce", <<"n">>) \o <<",">> \o FlattenSeq(input)

-----------------------------------------------------------------------------
(* The receive window.                                                     *)

Step0 == [kind |-> "nop", name |-> "", request |-> FALSE, optional |-> FALSE,
          txn |-> 0, acks |-> FALSE, retrans |-> FALSE, timed |-> FALSE,
          ontimeout |-> 0, next |-> 0, test |-> FALSE, chance |-> FALSE,
          cond |-> FALSE, jump |-> 0, fails |-> FALSE]
Send(name)  == [Step0 EXCEPT !.kind = "send", !.name = name, !.request = TRUE]
Reply(code) == [Step0 EXCEPT !.kind = "recv", !.name = code]
Ask(name)   == [Step0 EXCEPT !.kind = "recv", !.name = name, !.request = TRUE]
Opt(step)   == [step EXCEPT !.optional = TRUE]
Txn(step)   == [step EXCEPT !.txn = 1]
StepPieces == {Step0, [Step0 EXCEPT !.kind = "label"],
               Send("INVITE"), Txn(Send("INVITE")), Send("BYE"),
               Reply("200"), Opt(Reply("200")), Txn(Reply("200")), Opt(Txn(Reply("200"))),
               Opt(Reply("180")), Ask("ACK"), Opt(Ask("ACK")),
               Opt([Step0 EXCEPT !.kind = "recvCmd"])}
Messages ==
    {[request |-> FALSE, name |-> code, cseq |-> method, num |-> 1, txn |-> t] :
        code \in {"200", "180"}, method \in {"INVITE", "BYE"}, t \in 0..1}
    \cup {[request |-> TRUE, name |-> "ACK", cseq |-> "ACK", num |-> n, txn |-> 0] :
        n \in 1..2}

-----------------------------------------------------------------------------

Pieces0 == [t \in DOMAIN Lengths |->
    CASE t = "regex" -> RegexPieces [] t = "template" -> TemplatePieces [] t = "cdata" -> CdataPieces
      [] t = "actions" -> ActionPieces [] t = "calls" -> 0..3 [] t = "index" -> WritePieces
      [] t = "lines" -> LinePieces [] t = "scopes" -> ScopePieces [] t = "url" -> {"/", "%", "a", "2", "5", "F"}
      [] t = "files" -> {"f", "1", "0"} [] t = "rtp" -> {"tick", "pause", "resume"} [] t = "dtmf" -> BurstPieces
      [] t = "srtp" -> 0..13 [] t = "sdp" -> SdpPieces [] t = "sdes" -> OfferPieces [] t = "layout" -> LayoutPieces
      [] t = "ports" -> PortRanges [] t = "window" -> StepPieces
      [] t = "render" -> RenderPieces [] t = "inbound" -> InboundPieces [] t = "digest" -> ChallengePieces
      [] t = "aka" -> 0..3 [] t = "ids" -> 1..3
      [] t = "retrans" -> 0..4 [] t = "tdm" -> 0..3]

Rt == INSTANCE RetransSchedule WITH T2 <- 3, MaxShift <- 3
Td == INSTANCE TdmMap WITH Width <- 5
Cs == INSTANCE MCStreamCases WITH MaxMessage <- 4, MaxHead <- 6
S == INSTANCE StreamSession WITH MaxMessage <- 4, MaxHead <- 6, Cases <- StreamCases

stream == <<case, wire, end, todo>>
Init == /\ input = << >>
        /\ \/ topic \in DOMAIN Lengths /\ case = << >> /\ wire = << >> /\ end = << >> /\ todo = << >>
           \/ topic = "streams" /\ S!Init
Extends == /\ topic \notin {"streams", "judged"} /\ Len(input) < Lengths[topic]
           /\ \E piece \in Pieces[topic] : input' = Append(input, piece)
           /\ UNCHANGED <<topic, stream>>
\* The input is whole: what the properties say of it is about to be decided.
Judges == /\ topic \notin {"streams", "judged"}
          /\ topic' = "judged" /\ input' = << >>
          /\ UNCHANGED stream
Next == \/ Extends \/ Judges
        \/ topic = "streams" /\ S!Next /\ UNCHANGED <<topic, input>>
vars == <<topic, input, stream>>
Spec == Init /\ [][Next]_vars

Texts == BoundedSeq({"a", "b"}, 3)

\* What find returns is a real match, with groups that hold what they matched, at
\* the leftmost place where the matcher finds one (regex.rs, find).
RegexFindsRealMatches ==
    topic = "regex" => LET r == Compile(FlattenSeq(input)) IN r.ok => \A t \in Texts : Sound(r, t)

\* Where only repetitions that stand in a sequence have choices, the matcher finds
\* what a leftmost-first greedy backtracker does (match_repeat_then).
RegexBacktracks ==
    topic = "regex" => LET r == Compile(FlattenSeq(input)) IN
                       r.ok /\ Retried(r.node) => \A t \in Texts : FindsFirst(r, t)

\* The parser reads every pattern as it is written: it accepts what has balanced
\* groups and something to repeat, and keeps every byte (compile).
RegexParses == topic = "regex" => Faithful(input)

\* A template keeps every byte of its text, its keywords in their order
\* (tokenize_with).
TemplatesLoseNothing == topic = "template" => T!TokenizesWell(FlattenSeq(input))

\* Patterns are parsed as written, and matched as documented (this and
\* the next ones say it of every whole input).
PatternsMeetReference == [][Judges => (RegexFindsRealMatches /\ RegexBacktracks /\ RegexParses)]_vars

\* Every message ends its headers with an empty line and its lines with CRLF,
\* however the scenario's text is laid out (normalize_cdata).
MessagesAreSeparated == topic = "cdata" => T!NormalizesWell(FlattenSeq(input))

\* A variable is what the last action wrote to its name in the run, for the user
\* or in the call, across both scenarios (vars.rs, actions.rs, user_table).
ReadsSeeLastWrite == topic = "actions" => A!ReadsSeeLastWrite(input)

\* Scenarios share exactly the names they declare alike (VarSpace, layout).
SlotsFollowScopes ==
    topic = "scopes" /\ Distinct(Declared(1)) /\ Distinct(Declared(2)) => A!SlotsFollowScopes(<<Declared(1), Declared(2)>>)

\* Calls take the lines of sequential files in turn (assign_field_lines).
LinesTakeTurns == topic = "calls" => A!LinesTakeTurns(input)

\* A lookup finds the line its key was last written to, as long as that line holds
\* it, whatever was inserted and replaced (reindex, deindex).
LookupsFollowWrites == topic = "index" => I!LookupsFollow(Wrote.file, Wrote.writes)

\* An accepted PRINTF file expands on every line and its lines differ; comments
\* and what follows a blank line are nothing (parse, field).
AcceptedRowsExpand ==
    topic = "lines" => \A h \in Headers : /\ I!FieldsExpand(I!Parse(Word, h, input))
                                          /\ I!ReadsTheRows(Word, h, input)

\* Decoding undoes encoding (url_encode, url_decode).
DecodeUndoesEncode == topic = "url" => A!UrlDecode(A!UrlEncode(input)) = input

\* A field that passed validation reads a loaded file (validate_field_files).
AcceptedFieldsRead ==
    topic = "files" => \A d \in 0..Len(input) : \A spec \in {"", "f", "0", "1", "2"} : A!AcceptedFieldsRead(input, d, spec)

\* Actions and fields read what was written for them, in variables and in files.
DataMeetsReference ==
    [][Judges => (/\ ReadsSeeLastWrite /\ SlotsFollowScopes /\ LinesTakeTurns /\ LookupsFollowWrites
                  /\ AcceptedRowsExpand /\ DecodeUndoesEncode /\ AcceptedFieldsRead)]_vars

\* However it is paused, a generated stream plays its file as often as it was told,
\* without a gap, in full packets but the last (RtpSource, next_packet).
StreamsPlayTheirLoops ==
    topic = "rtp" => \A n \in 1..3, loops \in -1..2, bytes \in 1..2 :
        M!PlaysItsLoops([i \in 1..n |-> i], loops, bytes, input)

\* The bursts of a call number their packets on from each other, keep their times,
\* and give every digit one event that begins and ends (dtmf.rs, start_dtmf).
DigitsAreWellFormed == topic = "dtmf" => \A start \in {0, 5} : M!BurstsAreWellFormed(input, start)

\* Whatever was lost or reordered, a packet within half the sequence numbers of the
\* newest decrypts, rollovers included (estimate_roc, advance).
PacketsDecrypt == topic = "srtp" /\ input # << >> /\ M!InWindow(input) => M!AllDecrypt(input)

\* Media goes where the first live section of its kind says (remote_endpoint).
EndpointIsFirstLive ==
    topic = "sdp" /\ D!WellFormed(input) => \A kind \in {"audio", "video"} : D!EndpointIsFirstLive(input, kind)

\* After the last offer and answer of any number, each side decrypts what the other
\* encrypts, fresh keys and reused ones (prepare_crypto, learn_remote_media, negotiate).
SidesAgree == topic = "sdes" /\ D!Usual(input) => D!SidesAgree(input)

\* The first m= line of a kind with a port says where that kind is sent from
\* (media_port_layout).
LayoutIsFirstLine == topic = "layout" => P!LayoutIsFirst(input)

\* Streams that render their ports get pairs of the range, none twice before all
\* were given (allocate_rtpstream_ports).
PortsAreSpread ==
    topic = "ports" => \A i \in DOMAIN input : input[i][1] + 1 <= input[i][2] => P!PortsAreSpread(input[i][1], input[i][2])

\* Media is generated whole, and goes where the descriptions say, under keys both have.
MediaMeetsReference ==
    [][Judges => (/\ StreamsPlayTheirLoops /\ DigitsAreWellFormed /\ PacketsDecrypt
                  /\ EndpointIsFirstLive /\ SidesAgree /\ LayoutIsFirstLine /\ PortsAreSpread)]_vars

\* Wherever the call stands, waiting there or not, the walk finds the message
\* of the window, the passed optional or the old transaction that the
\* reference names: the first match ahead that only skippable steps precede,
\* else the last one in the block of optionals right behind, else the last
\* recv of a named transaction (scan_for_match_guarded).
ScanMeetsReference ==
    topic = "window" =>
        \A start \in 1..Len(input) + 1, waiting \in BOOLEAN, m \in Messages,
           branched \in SUBSET {1}, guard \in {W!NoGuard, 1} :
            W!Scan(input, branched, start, waiting, m, guard) = W!Expected(input, branched, start, waiting, m, guard)

\* The Content-Length of a message is that of its body, whatever its keywords become,
\* and no marker is sent (render_string, patch_len).
ContentLengthIsTrue ==
    topic = "render" => \A ctx \in Contexts : R!ContentLengthIsTrue(input, ctx) /\ R!ContentLengthIsTrue(WithFill, ctx)

\* Dynamic ids stay in their range and come back in turn (DynamicId::take).
IdsAreSpread == topic = "ids" /\ Len(input) = 2 => \A start \in 0..2 : R!IdsAreSpread(start, input[1], start + input[2], 8)

\* A message that was rebuilt from what was parsed is parsed the same, and a folded
\* header has the values of a plain one, under its short name as well (Inbound).
ReconstructedIsSame == topic = "inbound" => \A eol \in N!Ends : N!ReconstructedIsSame(Wire(eol))
FoldingIsTransparent == topic = "inbound" => \A eol \in N!Ends : N!FoldingIsTransparent(Wire(eol))

\* An answer verifies for the password and the method it was made with, whatever the
\* challenge asks (authorization_header, verify_authorization).
AnswersVerify == topic = "digest" => \A www \in {G!NoValue, <<"Basic", " ">>} :
        /\ G!AnswersVerify(www, Challenge)
        /\ LET ch == G!Captured([www |-> www, proxy |-> Challenge]) IN ch.ok => R!Answered(WithLine, ch)

\* A server that resynchronises is answered at the second challenge, and no sequence
\* number below the client's is accepted (aka_challenge_response).
AkaConverges == topic = "aka" => \A i \in DOMAIN input, ms \in -1..3 : G!AkaConverges(input[i], ms)

\* What is sent is the scenario's message, complete and authentic; what is received
\* is read as it was meant.
MessagesMeetReference ==
    [][Judges => (/\ TemplatesLoseNothing /\ MessagesAreSeparated /\ ContentLengthIsTrue /\ IdsAreSpread
                  /\ ReconstructedIsSame /\ FoldingIsTransparent /\ AnswersVerify /\ AkaConverges)]_vars

\* A message that is never answered goes out at the instants its schedule says, as
\* often as its caps allow, and is given up one interval later (RetransSchedule,
\* on_retrans_timer).
SendsInTime ==
    topic = "retrans" /\ Len(input) = 3 =>
        \A invite, noRetrans \in BOOLEAN, global \in {Rt!NoCap, 2} :
            Rt!SendsInTime(input[1], invite, Rt!RetransCaps(input[2], input[3] + 2, global), noRetrans)

\* Each circuit of a map that fits has a name of its own (TdmMap, circuit).
CircuitsHaveTheirOwnNames ==
    topic = "tdm" /\ Len(input) = 3 =>
        Td!CircuitsHaveTheirOwnNames(Td!Map(1, input[1], 5, input[2], 0, input[3]))

\* A call receives, repeats and names as its rules say.
CallRulesMeetReference ==
    [][Judges => (ScanMeetsReference /\ SendsInTime /\ CircuitsHaveTheirOwnNames)]_vars

\* Wherever the reads end, each end of a connection cuts out what the other sent, a
\* WebSocket peer's pings and its close are answered in their order, and it ends where
\* that peer closed it or broke the protocol (next_message, next_event, next_command).
ReadersMeetReference == topic = "streams" => S!ReadersMeetReference
RepliesMeetReference == topic = "streams" => S!RepliesMeetReference
StreamsMeetReference == ReadersMeetReference /\ RepliesMeetReference

StreamCases0 == Cs!AllCases

Lengths0 == [regex |-> 4, template |-> 4, cdata |-> 7, actions |-> 5, calls |-> 6, index |-> 5, lines |-> 4,
             scopes |-> 4, url |-> 5, files |-> 3, rtp |-> 6, dtmf |-> 2, srtp |-> 4, sdp |-> 5, sdes |-> 3,
             layout |-> 3, ports |-> 1, window |-> 4, render |-> 4, inbound |-> 6, digest |-> 3, aka |-> 1, ids |-> 2,
             retrans |-> 3, tdm |-> 3]
=============================================================================
