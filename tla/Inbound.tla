------------------------------ MODULE Inbound ------------------------------
(***************************************************************************)
(* Reading a message: crates/sipr-net/src/message.rs.  A text is a         *)
(* sequence of tokens: the start line, words, ":", " " and the line ends   *)
(* CRLF and LF.  Names are compared without case in the code; a token has  *)
(* none.                                                                   *)
(***************************************************************************)
EXTENDS Integers, Sequences, SequencesExt

CrLf == "\r\n"
Lf == "\n"
Ends == {CrLf, Lf}
Malformed == [ok |-> FALSE, start |-> << >>, headers |-> << >>, body |-> << >>]

FirstIn(S) == CHOOSE i \in S : \A j \in S : i <= j

\* split_head_body: CRLFCRLF wherever it is, else two line ends of which the second is LF.
SplitHeadBody(data) ==
    LET crlfs == {i \in 1..Len(data) - 1 : data[i] = CrLf /\ data[i + 1] = CrLf}
        lfs == {i \in 1..Len(data) - 1 : data[i] \in Ends /\ data[i + 1] = Lf}
        at == IF crlfs # {} THEN FirstIn(crlfs) ELSE IF lfs # {} THEN FirstIn(lfs) ELSE 0
    IN  IF at = 0 THEN [head |-> data, body |-> << >>]
        ELSE [head |-> SubSeq(data, 1, at - 1), body |-> SubSeq(data, at + 2, Len(data))]

RECURSIVE LinesOf(_)
LinesOf(text) ==
    LET end == SelectInSeq(text, LAMBDA c : c \in Ends)
    IN  IF text = << >> THEN << >>
        ELSE IF end = 0 THEN <<text>>
        ELSE <<SubSeq(text, 1, end - 1)>> \o LinesOf(SubSeq(text, end + 1, Len(text)))

RECURSIVE TrimStart(_)
TrimStart(s) == IF s # << >> /\ Head(s) = " " THEN TrimStart(Tail(s)) ELSE s
Trimmed(s) == Reverse(TrimStart(Reverse(TrimStart(s))))

\* Inbound::parse: a line that begins with a blank goes on with the one before it, and
\* empty lines between them are gone.
RECURSIVE Written(_)
Written(headers) == IF headers # << >> /\ Last(headers) = << >> THEN Written(Front(headers)) ELSE headers

Unfolded(headers, line) ==
    LET kept == Written(headers)
        last == IF kept = << >> THEN << >> ELSE Last(kept)
    IN  Append(IF kept = << >> THEN kept ELSE Front(kept), last \o <<" ">> \o TrimStart(line))
Header(headers, line) ==
    IF line # << >> /\ Head(line) = " " THEN Unfolded(headers, line) ELSE Append(headers, line)

StartLines == {<<"INVITE">>, <<"200">>}   \* what parse_start_line takes
Parse(data) ==
    LET parts == SplitHeadBody(data)
        lines == LinesOf(parts.head)
        start == IF lines = << >> THEN << >> ELSE Reverse(TrimStart(Reverse(Head(lines))))
    IN  IF start \notin StartLines THEN Malformed
        ELSE [ok |-> TRUE, start |-> start, headers |-> FoldLeft(Header, << >>, Tail(lines)), body |-> parts.body]

Reconstruct(m) ==
    m.start \o <<CrLf>> \o FlattenSeq([i \in DOMAIN m.headers |-> m.headers[i] \o <<CrLf>>]) \o <<CrLf>> \o m.body

\* header_lines, and header, which takes the first.
CompactOf(name) == IF name = "Via" THEN {"v"} ELSE {}
NameOf(line) == Trimmed(SubSeq(line, 1, SelectInSeq(line, LAMBDA c : c = ":") - 1))
HeaderLines(m, name) ==
    SelectSeq(m.headers, LAMBDA line : Contains(line, ":") /\ NameOf(line) \in {<<n>> : n \in {name} \cup CompactOf(name)})
ValueOf(line) == Trimmed(SubSeq(line, SelectInSeq(line, LAMBDA c : c = ":") + 1, Len(line)))
HeaderValues(m, name) == LET lines == HeaderLines(m, name) IN [i \in DOMAIN lines |-> ValueOf(lines[i])]

-----------------------------------------------------------------------------
(* Properties, of messages that end all their lines in one way and do not go *)
(* on with the start line.                                                 *)

Uniform(data) ==
    /\ \E e \in Ends : \A i \in DOMAIN data : data[i] \in Ends => data[i] = e
    /\ LET end == SelectInSeq(data, LAMBDA c : c \in Ends) IN end + 1 \in DOMAIN data => data[end + 1] # " "

\* What actions search and [last_message] sends is the same message.
ReconstructedIsSame(data) == LET m == Parse(data) IN m.ok /\ Uniform(data) => Parse(Reconstruct(m)) = m

\* A header that was folded has the values of one that was not, under either name.
Folds(head, i) == i + 1 \in DOMAIN head /\ head[i] \in Ends /\ head[i + 1] = " "
Flat(head) == FlattenSeq([i \in DOMAIN head |->
                  IF Folds(head, i) /\ \E j \in 1..i - 1 : head[j] \in Ends THEN << >> ELSE <<head[i]>>])
LongForm(text) == [i \in DOMAIN text |-> IF text[i] = "v" THEN "Via" ELSE text[i]]
Squeezed(value) == FlattenSeq([i \in DOMAIN value |-> IF value[i] = " " /\ i > 1 /\ value[i - 1] = " " THEN << >> ELSE <<value[i]>>])
Values(m, name) == LET v == HeaderValues(m, name) IN [i \in DOMAIN v |-> LongForm(Squeezed(v[i]))]
FoldingIsTransparent(data) ==
    LET flat == Parse(LongForm(Flat(SplitHeadBody(data).head)))
    IN  Parse(data).ok /\ Uniform(data) => Values(Parse(data), "Via") = Values(flat, "Via")
=============================================================================
