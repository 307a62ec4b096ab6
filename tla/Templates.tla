----------------------------- MODULE Templates ------------------------------
(***************************************************************************)
(* Message templates: crates/sipr-scenario/src/template.rs.  A text is a   *)
(* sequence of tokens: brackets, white space, offsets and the words that a *)
(* keyword is told by.                                                     *)
(***************************************************************************)
EXTENDS Integers, Sequences, FiniteSets, SequencesExt

Adding == {"cseq", "len"}              \* keywords that add an offset
Simple == Adding \cup {"pid", "tdmmap"}
Generic == {"key"}                     \* the names of -key
Blanks == {" ", "\n", "\r"}
Marks == {"[", "]", "+1", ":", "="} \cup Blanks

\* What precedes the first blank, and what follows it without the outer blanks.
FirstBlank(body) == SelectInSeq(body, LAMBDA t : t \in Blanks)
NameOf(body) == IF FirstBlank(body) = 0 THEN body ELSE SubSeq(body, 1, FirstBlank(body) - 1)
Trimmed(s) ==
    LET solid == {i \in DOMAIN s : s[i] \notin Blanks}
    IN  IF solid = {} THEN << >>
        ELSE SubSeq(s, CHOOSE i \in solid : \A j \in solid : i <= j,
                       CHOOSE i \in solid : \A j \in solid : j <= i)
ParamsOf(body) == IF FirstBlank(body) = 0 THEN << >>
                  ELSE Trimmed(SubSeq(body, FirstBlank(body) + 1, Len(body)))

Unknown == [is |-> "unknown", kw |-> "", offset |-> 0, sub |-> << >>]
Keyword(kw, offset) == [Unknown EXCEPT !.is = "keyword", !.kw = kw, !.offset = offset]
Alone(kw, params) == IF params = << >> THEN Keyword(kw, 0) ELSE Unknown

\* parse_offset: nothing is 0.
IsOffset(s) == s \in {<< >>, <<"+1">>}
OffsetOf(s) == Len(s)

\* param_value: what follows `key` up to a blank.
ValueOf(params, key) ==
    LET at == SelectInSeq(params, LAMBDA t : t = key)
    IN  IF at = 0 THEN << >> ELSE NameOf(SubSeq(params, at + 1, Len(params)))

\* classify_field: only file= and line=, the line a number or a variable.
Field(params) ==
    LET line == ValueOf(params, "line=")
    IN  IF \/ \E i \in DOMAIN params : params[i] = "=" \/ params[i] = "name="
           \/ \E i \in DOMAIN params : params[i] = "line=" /\ line \notin {<<"$v">>, <<"[", "$v", "]">>}
          THEN Unknown ELSE Keyword("field", 0)

\* A name with an offset: the keyword adds it or drops it.
WithOffset(base, params) ==
    IF params # << >> THEN Unknown
    ELSE IF base \in Adding THEN Keyword(base, 1)
    ELSE [Keyword(base, 0) EXCEPT !.is = "ignored"]

\* classify.
Classify(body) ==
    LET name == NameOf(body)
        params == ParamsOf(body)
        word == IF Len(name) = 0 THEN "" ELSE name[1]
        rest == IF body = << >> THEN << >> ELSE Tail(body)
        header == IF rest # << >> /\ Last(rest) = ":" THEN Front(rest) ELSE rest
    IN  CASE body = << >>  -> Unknown
          [] body[1] = "$v" -> IF Len(body) = 1 THEN Keyword("var", 0) ELSE Unknown
          [] body = <<"last_", "message">> -> Keyword("last_message", 0)
          [] body[1] = "branch" /\ IsOffset(rest) -> Keyword("branch", OffsetOf(rest))
          [] body[1] = "last_" ->
                IF header # << >> /\ \A i \in DOMAIN header : header[i] \notin Marks
                  THEN Keyword("last", 0) ELSE Unknown
          [] Len(name) = 1 /\ word \in Simple -> Alone(word, params)
          [] Len(name) = 2 /\ name[2] = "+1" /\ word \in (Simple \cup Generic) \ {"tdmmap"} ->
                WithOffset(word, params)
          [] name = <<"file">> ->
                LET path == ValueOf(params, "name=")
                IN  IF path = << >> THEN Unknown
                    ELSE [Keyword("file", 0) EXCEPT !.is = "file", !.sub = path]
          [] word = "media_port" /\ IsOffset(Tail(name)) ->
                IF params = << >> THEN Keyword("media_port", OffsetOf(Tail(name))) ELSE Unknown
          [] name = <<"field0">> -> Field(params)
          [] Len(name) = 1 /\ word \in Generic -> Alone(word, params)
          [] OTHER -> Unknown

\* matching_close: where the bracket opened before `from` closes; a keyword
\* never spans a line.
MatchingClose(text, from) ==
    LET depth(j) == 1 + Cardinality({k \in from..j : text[k] = "["})
                      - Cardinality({k \in from..j : text[k] = "]"})
        closes == {j \in from..Len(text) : depth(j) = 0 /\ \A k \in from..j : text[k] # "\n"}
    IN  IF closes = {} THEN 0 ELSE CHOOSE j \in closes : \A k \in closes : j <= k

Span(kind, text, is, sub) == [kind |-> kind, text |-> text, is |-> is, sub |-> sub]
Literal(lit) == IF lit = << >> THEN << >> ELSE <<Span("lit", lit, Unknown, << >>)>>

\* tokenize_with, from `at`, with the literal gathered so far.
RECURSIVE Tokens(_, _, _)

Tokens(text, at, lit) ==
    LET close == MatchingClose(text, at + 1)
        body == SubSeq(text, at + 1, close - 1)
        is == Classify(body)
    IN  IF at > Len(text) THEN Literal(lit)
        ELSE IF text[at] # "[" \/ close = 0 THEN Tokens(text, at + 1, Append(lit, text[at]))
        ELSE IF is.is = "unknown" THEN Tokens(text, close + 1, lit \o <<"[">> \o body \o <<"]">>)
        ELSE Literal(lit) \o <<Span("kw", body, is, Tokens(is.sub, 1, << >>))>>
                \o Tokens(text, close + 1, << >>)

Tokenize(text) == Tokens(text, 1, << >>)

-----------------------------------------------------------------------------
(* normalize_cdata.                                                        *)

Eol == <<"\r", "\n">>

\* str::lines: without the line feed and one carriage return before it; nothing
\* after the last line feed is no line.
Lines(raw) ==
    LET split == FoldLeft(LAMBDA s, c : IF c = "\n" THEN [done |-> Append(s.done, s.line), line |-> << >>]
                                        ELSE [s EXCEPT !.line = Append(@, c)],
                          [done |-> << >>, line |-> << >>], raw)
        all == IF split.line = << >> THEN split.done ELSE Append(split.done, split.line)
        closed(i) == i <= Len(split.done) /\ all[i] # << >> /\ Last(all[i]) = "\r"
    IN  [i \in DOMAIN all |-> IF closed(i) THEN Front(all[i]) ELSE all[i]]

LeftTrimmed(line) ==
    LET solid == SelectInSeq(line, LAMBDA c : c \notin Blanks)
    IN  IF solid = 0 THEN << >> ELSE SubSeq(line, solid, Len(line))
WithoutReturns(line) ==
    LET solid == SelectLastInSeq(line, LAMBDA c : c # "\r") IN SubSeq(line, 1, solid)

Separated(s) == \E i \in 1..Len(s) - 3 : SubSeq(s, i, i + 3) = Eol \o Eol

\* Without the blank lines around them, the lines end with CRLF, and a message
\* without a body still gets the empty line after its headers.
Wire(raw) ==
    LET lines == [i \in DOMAIN Lines(raw) |-> LeftTrimmed(Lines(raw)[i])]
        solid == {i \in DOMAIN lines : lines[i] # << >>}
        first == CHOOSE i \in solid : \A j \in solid : i <= j
        last == CHOOSE i \in solid : \A j \in solid : j <= i
    IN  FlattenSeq([i \in 1..last - first + 1 |-> WithoutReturns(lines[first + i - 1]) \o Eol])

NormalizeCdata(raw) ==
    IF \A i \in DOMAIN Lines(raw) : LeftTrimmed(Lines(raw)[i]) = << >> THEN << >>
    ELSE IF Separated(Wire(raw)) THEN Wire(raw) ELSE Wire(raw) \o Eol

-----------------------------------------------------------------------------
(* The references.                                                         *)

\* The brackets that are read: those that close on their line and lie in no
\* other that is.
ReadAt(text) ==
    LET read[i \in 0..Len(text)] ==
            IF i = 0 THEN {}
            ELSE LET before == read[i - 1]
                 IN  IF /\ text[i] = "[" /\ MatchingClose(text, i + 1) # 0
                        /\ \A j \in before : MatchingClose(text, j + 1) < i
                       THEN before \cup {i} ELSE before
    IN  read[Len(text)]

\* The spans are the text: no token is lost, literals never touch, and the
\* keywords are the brackets read that name one, in their order (tokenize_with).
TokenizesWell(text) ==
    LET spans == Tokenize(text)
        shown(span) == IF span.kind = "lit" THEN span.text ELSE <<"[">> \o span.text \o <<"]">>
        bodies == {<<i, SubSeq(text, i + 1, MatchingClose(text, i + 1) - 1)>> : i \in ReadAt(text)}
        known == SetToSortSeq({b \in bodies : Classify(b[2]).is # "unknown"}, LAMBDA a, b : a[1] < b[1])
        kws == SelectSeq(spans, LAMBDA s : s.kind = "kw")
    IN  /\ FlattenSeq([i \in DOMAIN spans |-> shown(spans[i])]) = text
        /\ \A i \in 1..Len(spans) - 1 : spans[i].kind = "kw" \/ spans[i + 1].kind = "kw"
        /\ [i \in DOMAIN kws |-> kws[i].text] = [i \in DOMAIN known |-> known[i][2]]

\* A message is made of lines that end with CRLF and start with no blank, its
\* headers with a line, and has the empty line that ends them; it is already
\* what it would become (normalize_cdata).
NormalizesWell(raw) ==
    LET wire == NormalizeCdata(raw) IN
    /\ (wire = << >>) = (\A i \in DOMAIN raw : raw[i] \in Blanks)
    /\ NormalizeCdata(wire) = wire
    /\ \A i \in DOMAIN wire : wire[i] = "\n" => i > 1 /\ wire[i - 1] = "\r"
    /\ wire # << >> => /\ wire[1] \notin Blanks
                       /\ Separated(wire)
                       /\ SubSeq(wire, Len(wire) - 1, Len(wire)) = Eol
=============================================================================
