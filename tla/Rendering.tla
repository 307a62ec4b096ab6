------------------------------ MODULE Rendering ------------------------------
(***************************************************************************)
(* Rendering a message: crates/sipr-engine/src/render.rs.  A text is a     *)
(* sequence of characters and words; "\n" stands for the two bytes of      *)
(* CRLF.  A template is a sequence of keywords, literal text among them.   *)
(*                                                                         *)
(* The context ctx is what RenderCtx holds of the run and the call: copied *)
(* texts by keyword, ports and numbers, routes, the last message, the      *)
(* variables, the injection files and the challenge to answer.             *)
(***************************************************************************)
EXTENDS Integers, Sequences, SequencesExt

D == INSTANCE Digest

Kill == "kill"            \* KILL_MARKER
Separator == <<"\n", "\n">>
MaxLength == 100000
MaxPort == 65535

Blank == [is |-> "lit", text |-> << >>, name |-> "", offset |-> 0, auto |-> FALSE, file |-> "", line |-> [is |-> "own"],
          params |-> << >>]
Keyword(is, name) == [Blank EXCEPT !.is = is, !.name = name]
Lit(text) == [Blank EXCEPT !.text = text]
Plus(kw, offset) == [kw EXCEPT !.offset = offset]

\* wrap_unsigned: what %u prints of a sum that is not below -867296.
Unsigned(n) == IF n >= 0 THEN ToString(n) ELSE "4294" \o ToString(967296 + n)

\* LEN_MARKER, its offset and LEN_MARKER_END, of the offsets that templates write.
Offsets == -9..9
LenMark(offset) == "len" \o ToString(offset)
LenMarks == {LenMark(o) : o \in Offsets}

-----------------------------------------------------------------------------
(* DynamicId.                                                              *)

DynamicId(start, step, max) == [start |-> start, step |-> step, max |-> max, next |-> start]

Following(id) == IF id.next + id.step > id.max THEN id.start ELSE id.next + id.step
Take(id) == [id EXCEPT !.next = Following(id)]

-----------------------------------------------------------------------------
(* What a keyword copies.                                                  *)

Joined(lines) == FlattenSeq([i \in DOMAIN lines |-> IF i = 1 THEN lines[i] ELSE <<"\n">> \o lines[i]])
Lines(lines) == IF lines = << >> THEN <<Kill>> ELSE Joined(lines)
Routes(ctx) == Lines([i \in DOMAIN ctx.routes |-> <<"Route: ">> \o ctx.routes[Len(ctx.routes) + 1 - i]])
Known(name, texts) == IF name \in DOMAIN texts THEN texts[name] ELSE << >>

\* push_ip_for_uri and ip_type.
IpForUri(ip) == IF Contains(ip, ":") /\ Head(ip) # "[" THEN <<"[">> \o ip \o <<"]">> ELSE ip
IpType(ip) == IF Contains(ip, ":") THEN <<"6">> ELSE <<"4">>

\* media_port_value: auto reserves a block of four ports per call.
AtMost(n, most) == IF n > most THEN most ELSE n
MediaPort(kw, ctx) ==
    LET block == IF kw.auto /\ ctx.callNumber > 0 THEN (4 * (ctx.callNumber - 1)) % 10000 ELSE 0
    IN  AtMost(ctx.mediaPort + block + kw.offset, MaxPort)

\* [branch]: the call, the message and the offset; the call's own message, minus
\* one, where none is being sent.
NoIndex == -1
Branch(kw, ctx) ==
    LET index == IF ctx.msgIndex = NoIndex THEN ctx.callMsgIndex - 1 ELSE ctx.msgIndex
    IN  <<"z9hG4bK-">> \o ctx.texts["pid"] \o <<"-", ToString(ctx.callNumber), "-", ToString(index + kw.offset)>>

\* Of the last message: ctx.last has its headers' lines, their values and its text.
Value(name, ctx) == Known(name, ctx.last.values)
Place(text, c) == SelectInSeq(text, LAMBDA d : d = c)
Within(text) ==    \* between < and the > after it, "none" unless both are there
    LET start == Place(text, "<")
        end == start + Place(SubSeq(text, start + 1, Len(text)), ">")
    IN  IF start = 0 \/ end = start THEN <<"none">> ELSE SubSeq(text, start + 1, end - 1)
BeforeSemicolon(text) == IF Place(text, ";") = 0 THEN text ELSE SubSeq(text, 1, Place(text, ";") - 1)
WithoutBrackets(contact) == BeforeSemicolon(IF Within(contact) = <<"none">> THEN contact ELSE Within(contact))
NextUrl(ctx) ==
    IF "Contact" \in DOMAIN ctx.last.values THEN WithoutBrackets(Value("Contact", ctx))
    ELSE <<"sip:">> \o ctx.texts["service"] \o <<"@">> \o ctx.ips["remote_ip"] \o <<":", ToString(ctx.ports["remote_port"])>>
LastRequestUri(ctx) == IF Within(Value("To", ctx)) = <<"none">> THEN << >> ELSE Within(Value("To", ctx))
LastCseqNumber(ctx) ==
    LET cseq == Value("CSeq", ctx)
        numbers == {n \in 0..99 : cseq # << >> /\ cseq[1] = ToString(n)}
    IN  IF numbers = {} THEN 0 ELSE CHOOSE n \in numbers : TRUE

\* [fill]: the text, over and over, as long as a variable says.
Filled(text, length) ==
    IF text = << >> \/ length < 0 THEN << >> ELSE [i \in 1..length |-> text[((i - 1) % Len(text)) + 1]]
NumberOf(name, numbers) == IF name \in DOMAIN numbers THEN numbers[name] ELSE 0

\* What the keywords that only copy copy.
Copied(kw, ctx) ==
    CASE kw.is \in {"lit", "crypto"}  -> kw.text
      [] kw.is = "text"             -> Known(kw.name, ctx.texts)
      [] kw.is = "ip"               -> IpForUri(ctx.ips[kw.name])
      [] kw.is = "ip_type"          -> IpType(ctx.ips[kw.name])
      [] kw.is = "port"             -> <<ToString(ctx.ports[kw.name] + kw.offset)>>
      [] kw.is = "cseq"             -> <<Unsigned(ctx.cseq + kw.offset)>>
      [] kw.is = "branch"           -> Branch(kw, ctx)
      [] kw.is = "msg_index"        -> <<ToString(ctx.msgIndex)>>
      [] kw.is = "peer_tag_param"   -> IF ctx.peerTag = << >> THEN << >> ELSE <<";tag=">> \o ctx.peerTag
      [] kw.is = "routes"           -> Routes(ctx)
      [] kw.is = "next_url"         -> NextUrl(ctx)
      [] kw.is = "len"              -> <<LenMark(kw.offset)>>
      [] kw.is = "media_port"       -> <<ToString(MediaPort(kw, ctx))>>
      [] kw.is = "rtpstream_port"   -> <<ToString(AtMost(ctx.ports[kw.name] + kw.offset, MaxPort))>>
      [] kw.is = "crypto_key"       -> Known(kw.name, ctx.keys)
      [] kw.is = "last"             -> Lines(IF kw.name \in DOMAIN ctx.last.lines THEN ctx.last.lines[kw.name] ELSE << >>)
      [] kw.is = "var"              -> Known(kw.name, ctx.vars)
      [] kw.is = "last_message"     -> ctx.last.message
      [] kw.is = "last_request_uri" -> LastRequestUri(ctx)
      [] kw.is = "last_cseq_number" -> <<ToString(LastCseqNumber(ctx) + kw.offset)>>
      [] kw.is = "fill"             -> Filled(kw.text, NumberOf(kw.name, ctx.doubles))
      [] kw.is = "generic"          -> LET at == SelectInSeq(ctx.generic, LAMBDA g : g[1] = kw.name)
                                       IN  IF at = 0 THEN << >> ELSE ctx.generic[at][2]
      [] kw.is = "unknown"          -> <<"[", kw.name, "]">>

\* [fieldN]: of the named file or the first one, on the call's line or the one that
\* line= gives; nothing where one of them is not there.
FileOf(kw, ctx) ==
    IF kw.file = "" THEN AtMost(1, Len(ctx.files))
    ELSE LET at == SelectInSeq(ctx.files, LAMBDA f : f.name = kw.file)
             indexes == {i \in DOMAIN ctx.files : ToString(i - 1) = kw.file}
         IN  IF at # 0 \/ indexes = {} THEN at ELSE CHOOSE i \in indexes : TRUE
LineOf(kw, file, ctx) ==
    CASE kw.line.is = "own"     -> ctx.fileLines[file]
      [] kw.line.is = "literal" -> kw.line.number
      [] kw.line.is = "var"     -> IF kw.line.name \in DOMAIN ctx.vars THEN NumberOf(kw.line.name, ctx.parsed) ELSE -1
FieldText(kw, ctx) ==
    LET file == FileOf(kw, ctx)
        row == LineOf(kw, file, ctx) + 1
    IN  IF file = 0 THEN << >>
        ELSE IF row \notin DOMAIN ctx.files[file].rows THEN << >>
        ELSE IF kw.offset + 1 \notin DOMAIN ctx.files[file].rows[row] THEN << >>
        ELSE ctx.files[file].rows[row][kw.offset + 1]

-----------------------------------------------------------------------------
(* aka_keys.  A secret is the hex digits of its bytes, or as many bytes:   *)
(* one byte is one digit here, and K and OP have two.                      *)

SecretBytes == [aka_K |-> 2, aka_OP |-> 2, aka_OPc |-> 2, aka_AMF |-> 1, aka_sqn |-> 1]
Digits == <<"1", "2", "3", "4">>
ParseSecret(value, name) ==
    LET hex == value # << >> /\ Head(value) \in {"0x", "0X"}
        digits == IF hex THEN Tail(value) ELSE value
    IN  [ok |-> Len(digits) = SecretBytes[name] /\ (hex => Range(digits) \subseteq Range(Digits)), bytes |-> digits]

\* The first of a parameter counts.
Given(params, key) == \E i \in DOMAIN params : params[i].key = key
ParamOr(params, key, default) ==
    IF Given(params, key) THEN params[SelectInSeq(params, LAMBDA p : p.key = key)].value ELSE default

ValueOfByte(bytes) == Place(Digits, bytes[1])
AkaKeys(params, password) ==
    LET secret(name) == ParseSecret(ParamOr(params, name, << >>), name)
        bad(name) == Given(params, name) /\ ~secret(name).ok
        k == IF Given(params, "aka_K") THEN secret("aka_K").bytes ELSE SubSeq(password, 1, SecretBytes["aka_K"])
        op == IF Given(params, "aka_OPc") THEN "aka_OPc" ELSE "aka_OP"
        resync == ParamOr(params, "aka_resync", <<"0">>)
    IN  IF \/ bad("aka_K") \/ (~Given(params, "aka_K") /\ Len(password) < SecretBytes["aka_K"])
           \/ ~Given(params, op) \/ bad(op) \/ bad("aka_AMF") \/ bad("aka_sqn")
           \/ D!Trimmed(resync) \notin {<<"1">>, <<"true">>, <<"yes">>, <<"0">>, <<"false">>, <<"no">>}
        THEN [ok |-> FALSE]
        ELSE [ok |-> TRUE, k |-> k,
              opc |-> IF op = "aka_OPc" THEN secret(op).bytes ELSE D!Opc(k, secret(op).bytes),
              amf |-> IF Given(params, "aka_AMF") THEN ValueOfByte(secret("aka_AMF").bytes) ELSE D!NoAmf,
              sqnMs |-> IF Given(params, "aka_sqn") THEN ValueOfByte(secret("aka_sqn").bytes) ELSE D!NoSqn,
              forceResync |-> D!Trimmed(resync) \in {<<"1">>, <<"true">>, <<"yes">>}]

-----------------------------------------------------------------------------
(* fill.  What is rendered so far: the text, the dynamic id, and whether   *)
(* some keyword failed.                                                    *)

Wrote(s, text) == [s EXCEPT !.out = @ \o text]
FailedAt(s) == [s EXCEPT !.ok = FALSE]

\* header_name_already_rendered: the current line has nothing but the name.
Names == {"Authorization", "Proxy-Authorization"}
CurrentLine(out) == SubSeq(out, SelectLastInSeq(out, LAMBDA c : c = "\n") + 1, Len(out))
WithoutTrailing(text, chars) == Reverse(D!WithoutLeading(Reverse(text), chars))
NameAlreadyRendered(out) ==
    \E n \in Names :
        WithoutTrailing(WithoutTrailing(WithoutTrailing(CurrentLine(out), {" "}), {":"}), {" "}) = <<n>>

Bytes(text) == Len(text) + Len(SelectSeq(text, LAMBDA c : c = "\n"))

\* The lines, each with its end.
RECURSIVE SplitInclusive(_)
SplitInclusive(text) ==
    LET end == SelectInSeq(text, LAMBDA c : c = "\n")
    IN  IF text = << >> THEN << >>
        ELSE IF end = 0 THEN <<text>>
        ELSE <<SubSeq(text, 1, end)>> \o SplitInclusive(SubSeq(text, end + 1, Len(text)))
WithoutKilled(text) == FlattenSeq(SelectSeq(SplitInclusive(text), LAMBDA line : ~Contains(line, Kill)))

Separated(text, i) == i + 1 \in DOMAIN text /\ SubSeq(text, i, i + 1) = Separator
BodyOf(text) ==
    LET at == {i \in DOMAIN text : Separated(text, i)}
    IN  IF at = {} THEN << >> ELSE SubSeq(text, (CHOOSE i \in at : \A j \in at : i <= j) + 2, Len(text))

\* patch_len: with no body, or one that does not fit its columns, the offset goes
\* as well.
Length(bytes, offset) == IF bytes \in 1..MaxLength - 1 THEN Unsigned(bytes + offset) ELSE "0"
PatchLen(text, bytes) ==
    [i \in DOMAIN text |->
        IF text[i] \in LenMarks THEN Length(bytes, CHOOSE o \in Offsets : LenMark(o) = text[i]) ELSE text[i]]

\* A mutant of Patched: the length is the one before lines were deleted.
PatchedEarly(out, text) == PatchLen(text, Bytes(BodyOf(out)))
Patched(out, text) == PatchLen(text, Bytes(BodyOf(text)))

RECURSIVE Fill(_, _, _)
RECURSIVE RenderString(_, _, _)
RECURSIVE RenderAuthentication(_, _, _)

\* render_auth_params: each value is a template of its own, and one that fails is empty.
RenderAuthParams(params, ctx, dyn) ==
    FoldLeft(LAMBDA r, p : LET v == RenderString(p.value, ctx, r.dyn)
                           IN  [dyn |-> v.dyn, params |-> Append(r.params, [key |-> p.key, value |-> IF v.ok THEN v.out ELSE << >>])],
             [dyn |-> dyn, params |-> << >>], params)

\* render_authentication: the whole header line, or its value where the name stands.
RenderAuthentication(params, ctx, s) ==
    LET rendered == RenderAuthParams(params, ctx, s.dyn)
        given == rendered.params
        password == ParamOr(given, "password", ctx.authPassword)
        akaChallenge == ctx.challenge.algorithm = "AKAv1-MD5"
        aka == IF akaChallenge THEN AkaKeys(given, password) ELSE D!NoKeys
        answer == D!AuthorizationHeader(ctx.challenge,
                      [username |-> ParamOr(given, "username", ctx.authUser), password |-> password, method |-> ctx.method,
                       uri |-> ctx.digestUri, cnonce |-> <<"cnonce">>, nc |-> <<"00000001">>, aka |-> aka])
        at == [s EXCEPT !.dyn = rendered.dyn]
    IN  IF ~ctx.challenge.ok THEN s
        ELSE IF (akaChallenge /\ ~aka.ok) THEN FailedAt(at)
        ELSE IF ~answer.ok THEN FailedAt(at)
        ELSE Wrote(at, IF NameAlreadyRendered(s.out) THEN answer.value ELSE <<answer.name, ": ">> \o answer.value)

\* A field is sent as it is, but for an [authentication] keyword in it; what follows
\* an opening bracket that is not closed is lost.
InField(value, ctx, s) ==
    LET start == Place(value, "[authentication")
        close == start + Place(SubSeq(value, start + 1, Len(value)), "]")
        before == Wrote(s, SubSeq(value, 1, start - 1))
        answered == RenderAuthentication(<< >>, ctx, before)
    IN  IF start = 0 THEN Wrote(s, value)
        ELSE IF close = start THEN before
        ELSE IF ~answered.ok THEN answered
        ELSE Wrote(answered, SubSeq(value, close + 1, Len(value)))

\* [file name=..]: its name is a template, rendered with no message index.
InFile(kw, ctx, s) ==
    LET path == RenderString(kw.params, [ctx EXCEPT !.msgIndex = NoIndex], s.dyn)
        named == [s EXCEPT !.dyn = path.dyn]
        known == IF path.ok THEN path.out ELSE << >>
    IN  IF known \notin DOMAIN ctx.disk THEN FailedAt(named) ELSE Wrote(named, ctx.disk[known])

Fill(kw, ctx, s) ==
    CASE ~s.ok                      -> s
      [] s.ok /\ kw.is = "authentication" -> RenderAuthentication(kw.params, ctx, s)
      [] s.ok /\ kw.is = "field"    -> InField(FieldText(kw, ctx), ctx, s)
      [] s.ok /\ kw.is = "file"     -> InFile(kw, ctx, s)
      [] s.ok /\ kw.is = "dynamic_id" -> [Wrote(s, <<ToString(s.dyn.next)>>) EXCEPT !.dyn = Take(s.dyn)]
      [] OTHER                      -> Wrote(s, Copied(kw, ctx))

RenderString(template, ctx, dyn) ==
    LET s == FoldLeft(LAMBDA r, kw : Fill(kw, ctx, r), [out |-> << >>, dyn |-> dyn, ok |-> TRUE], template)
    IN  IF ~s.ok THEN s ELSE [s EXCEPT !.out = Patched(s.out, WithoutKilled(s.out))]

-----------------------------------------------------------------------------
(* Properties.                                                             *)

Counter == DynamicId(1, 1, 9)

\* The Content-Length that a peer reads is the length of the body it then reads,
\* with what the scenario adds to it; a body's own [len] is left out.
ContentLengthIsTrue(template, ctx) ==
    LET whole == RenderString(template, ctx, Counter)
        out == whole.out
        marks == {i \in DOMAIN template : template[i].is = "len"}
        inHead == {i \in DOMAIN out : \E j \in DOMAIN out : j >= i /\ Separated(out, j)}
        Said(n) == {Length(n, template[i].offset) : i \in marks}
        numbers == {i \in DOMAIN out : out[i] \in {ToString(n) : n \in 0..60}}
    IN  whole.ok =>
            /\ ~Contains(out, Kill) /\ \A i \in DOMAIN out : out[i] \notin LenMarks
            /\ numbers \subseteq inHead => \A i \in numbers : out[i] \in Said(Bytes(BodyOf(out)))

\* The numbers of a run are the range's, each again only after all the others.
IdsAreSpread(start, step, max, n) ==
    LET ids[i \in 0..n] == IF i = 0 THEN DynamicId(start, step, max) ELSE Take(ids[i - 1])
        round == (max - start) \div step + 1
    IN  \A i \in 0..n : /\ ids[i].next \in start..max
                        /\ \A j \in i + 1..n : (ids[i].next = ids[j].next) <=> (j - i) % round = 0

\* The challenge a call holds is answered in one header, whether the scenario has
\* its name, the injection file has it, or neither; the answer verifies, and an
\* AKA challenge is not answered without its secrets.
Answered(ctx, ch) ==
    LET name == IF ch.proxy THEN "Proxy-Authorization" ELSE "Authorization"
        spelled == <<name, ":", " ">>
        asked == [ctx EXCEPT !.challenge = ch, !.files = <<[name |-> "f", rows |-> <<<<spelled \o <<"[authentication", "]">>>>>>]>>]
        user == [key |-> "username", value |-> <<Keyword("var", "user")>>]
        secrets == <<[key |-> "aka_K", value |-> <<Lit(<<"0x", "1", "2">>)>>], [key |-> "aka_OPc", value |-> <<Lit(<<"1", "1">>)>>]>>
        kws == {<<Keyword("field", "")>>} \cup
               {<<Lit(before), [Keyword("authentication", "") EXCEPT !.params = params]>> :
                    before \in {<< >>, spelled}, params \in {<< >>, <<user>>, secrets}}
        sent(kw) == RenderString(<<Lit(<<"x", "\n">>)>> \o kw \o <<Lit(<<"\n">>)>>, asked, Counter)
        line(kw) == SubSeq(sent(kw).out, 3, Len(sent(kw).out) - 1)
        value(kw) == SubSeq(line(kw), Place(line(kw), "Digest"), Len(line(kw)))
    IN  \A kw \in kws :
            /\ ch.algorithm = "AKAv1-MD5" => ~sent(kw).ok
            /\ ch.algorithm # "AKAv1-MD5" =>
                  /\ sent(kw).ok
                  /\ line(kw) \in {<<name, ": ">> \o value(kw), spelled \o value(kw)}
                  /\ D!VerifyAuthorization(value(kw), <<"u">>, <<"p", "w">>, ctx.method, << >>, D!NoValue).verified
=============================================================================
