------------------------------- MODULE Regex --------------------------------
(***************************************************************************)
(* The regular expressions of <ereg> and regexp_match:                     *)
(* crates/sipr-scenario/src/regex.rs.  A pattern is a sequence of bytes, a *)
(* POSIX class's name counting as one; the step budget, which only a       *)
(* pathological pattern exhausts, is left out.                             *)
(*                                                                         *)
(* A node has the shape of all of them: what kind it is, its byte or class *)
(* items, its children, its group and its bounds.                          *)
(***************************************************************************)
EXTENDS Integers, Sequences, FiniteSets, SequencesExt

NoMax == 99     \* {m,}: no upper bound

Node == [op |-> "seq", byte |-> "", not |-> FALSE, items |-> {}, kids |-> <<>>,
         group |-> 0, min |-> 0, max |-> 0]

Leaf(op) == [Node EXCEPT !.op = op]
Literal(c) == [Leaf("literal") EXCEPT !.byte = c]
ClassOf(not, items) == [Leaf("class") EXCEPT !.not = not, !.items = items]
GroupOf(n, kid) == [Leaf("group") EXCEPT !.group = n, !.kids = <<kid>>]

Repeat(kid, min, max) == [Leaf("repeat") EXCEPT !.kids = <<kid>>, !.min = min, !.max = max]

\* parse_alt and parse_seq keep a single child as it is.
Of(op, kids) == IF Len(kids) = 1 THEN kids[1] ELSE [Leaf(op) EXCEPT !.kids = kids]

-----------------------------------------------------------------------------
(* The parser.  A result is the node, the place after it and the groups    *)
(* opened so far; `Bad` is an error.                                       *)

Bad == [ok |-> FALSE, node |-> Node, at |-> 0, groups |-> 0]
Parsed(node, at, groups) == [ok |-> TRUE, node |-> node, at |-> at, groups |-> groups]

Peek(p, i) == IF i \in DOMAIN p THEN p[i] ELSE "end"

Digit == [d \in {"0", "1", "2"} |-> CASE d = "0" -> 0 [] d = "1" -> 1 [] OTHER -> 2]

\* The place after the digits at i, and their number.
AfterDigits(p, i) == CHOOSE j \in i..Len(p) + 1 :
    Peek(p, j) \notin DOMAIN Digit /\ \A k \in i..j - 1 : p[k] \in DOMAIN Digit
Number(p, i) == FoldLeft(LAMBDA n, d : 10 * n + Digit[d], 0, SubSeq(p, i, AfterDigits(p, i) - 1))

\* The bytes in their order.
Bytes == <<"\n", "$", "(", ")", "*", "+", ",", "-", ".", "0", "1", "2", ":", "?", "[", "\\", "]",
           "^", "a", "b", "c", "n", "{", "|", "}">>
Place(c) == CHOOSE i \in DOMAIN Bytes : Bytes[i] = c
Between(c, d) == {Bytes[i] : i \in Place(c)..Place(d)}
Posix == [name \in {"alpha", "digit"} |-> IF name = "alpha" THEN {"a", "b", "c"} ELSE {}]

\* parse_class from after the bracket: the bytes of the class.  A bracket that
\* comes first is a byte; a dash makes a range unless it ends the class.
RECURSIVE ClassItems(_, _, _, _)
ClassItems(p, i, items, not) ==
    LET escaped == p[i] = "\\"
        from == Peek(p, IF escaped THEN i + 1 ELSE i)
        next == IF escaped THEN i + 2 ELSE i + 1
    IN  CASE Peek(p, i) = "end" -> Bad
          [] Peek(p, i) = "]"   -> Parsed(ClassOf(not, items), i + 1, 0)
          [] Peek(p, i) = "[" /\ Peek(p, i + 1) = ":" ->
                IF Peek(p, i + 3) = ":" /\ Peek(p, i + 4) = "]" /\ Peek(p, i + 2) \in DOMAIN Posix
                  THEN ClassItems(p, i + 5, items \cup Posix[p[i + 2]], not) ELSE Bad
          [] from = "end" -> Bad
          [] Peek(p, next) = "-" /\ Peek(p, next + 1) # "]" ->
                IF Peek(p, next + 1) = "end" \/ Place(p[next + 1]) < Place(from) THEN Bad
                ELSE ClassItems(p, next + 2, items \cup Between(from, p[next + 1]), not)
          [] OTHER -> ClassItems(p, next, items \cup {from}, not)

Class(p, i) ==
    LET not == Peek(p, i) = "^"
        first == IF not THEN i + 1 ELSE i
    IN  IF Peek(p, first) = "]" THEN ClassItems(p, first + 1, {"]"}, not)
        ELSE ClassItems(p, first, {}, not)

\* parse_bound, from after the brace.
Bound(p, i, atom, groups) ==
    LET comma == AfterDigits(p, i)
        close == IF Peek(p, comma) = "," THEN AfterDigits(p, comma + 1) ELSE comma
        max == CASE close = comma     -> Number(p, i)
                 [] close = comma + 1 -> NoMax
                 [] OTHER             -> Number(p, comma + 1)
    IN  IF comma = i \/ Peek(p, close) # "}" \/ max < Number(p, i) THEN Bad
        ELSE Parsed(Repeat(atom, Number(p, i), max), close + 1, groups)

\* parse_postfix: one at most.
Postfix(p, r) ==
    CASE ~r.ok                -> r
      [] Peek(p, r.at) = "*"  -> Parsed(Repeat(r.node, 0, NoMax), r.at + 1, r.groups)
      [] Peek(p, r.at) = "+"  -> Parsed(Repeat(r.node, 1, NoMax), r.at + 1, r.groups)
      [] Peek(p, r.at) = "?"  -> Parsed(Repeat(r.node, 0, 1), r.at + 1, r.groups)
      [] Peek(p, r.at) = "{"  -> Bound(p, r.at + 1, r.node, r.groups)
      [] OTHER                -> r

RECURSIVE ParseAlt(_, _, _, _), ParseSeq(_, _, _, _), ParseAtom(_, _, _)

ParseAtom(p, i, groups) ==
    CASE p[i] = "("  -> LET inner == ParseAlt(p, i + 1, groups + 1, <<>>) IN
                        IF inner.ok /\ Peek(p, inner.at) = ")"
                          THEN Parsed(GroupOf(groups + 1, inner.node), inner.at + 1, inner.groups)
                          ELSE Bad
      [] p[i] = "["  -> [Class(p, i + 1) EXCEPT !.groups = groups]
      [] p[i] = "."  -> Parsed(Leaf("any"), i + 1, groups)
      [] p[i] = "^"  -> Parsed(Leaf("start"), i + 1, groups)
      [] p[i] = "$"  -> Parsed(Leaf("finish"), i + 1, groups)
      [] p[i] = "\\" -> IF Peek(p, i + 1) = "end" THEN Bad
                        ELSE Parsed(Literal(IF p[i + 1] = "n" THEN "\n" ELSE p[i + 1]), i + 2, groups)
      [] p[i] \in {"*", "+", "?"} -> Bad
      [] OTHER       -> Parsed(Literal(p[i]), i + 1, groups)

ParseSeq(p, i, groups, kids) ==
    IF Peek(p, i) \in {"|", ")", "end"} THEN Parsed(Of("seq", kids), i, groups)
    ELSE LET item == Postfix(p, ParseAtom(p, i, groups))
         IN  IF item.ok THEN ParseSeq(p, item.at, item.groups, Append(kids, item.node)) ELSE Bad

ParseAlt(p, i, groups, branches) ==
    LET branch == ParseSeq(p, i, groups, <<>>)
        all == Append(branches, branch.node)
    IN  IF ~branch.ok THEN Bad
        ELSE IF Peek(p, branch.at) = "|" THEN ParseAlt(p, branch.at + 1, branch.groups, all)
        ELSE Parsed(Of("alt", all), branch.at, branch.groups)

\* Regex::compile: what is left over is an error.
Compile(p) ==
    LET all == ParseAlt(p, 1, 0, <<>>) IN IF all.ok /\ all.at = Len(p) + 1 THEN all ELSE Bad

-----------------------------------------------------------------------------
(* The matcher.  An outcome is where the match ends, 0 for nowhere, and    *)
(* what the groups hold then: a failure may leave something in them.  A    *)
(* place is 1 for the first byte.                                          *)

Hit(end, caps) == [end |-> end, caps |-> caps]
Miss(caps) == Hit(0, caps)

\* The nodes that take one byte.
Takes(node, c) ==
    CASE node.op = "literal" -> c = node.byte
      [] node.op = "any"     -> c # "\n"
      [] OTHER               -> (c \in node.items) # node.not

RECURSIVE MatchNode(_, _, _, _), MatchSeq(_, _, _, _), MatchRepeat(_, _, _, _, _),
          MatchAlt(_, _, _, _), Expand(_, _, _, _, _), Backtrack(_, _, _, _, _)

MatchNode(node, text, at, caps) ==
    CASE node.op = "start"  -> Hit(IF at = 1 THEN at ELSE 0, caps)
      [] node.op = "finish" -> Hit(IF at = Len(text) + 1 THEN at ELSE 0, caps)
      [] node.op = "group"  ->
            LET m == MatchNode(node.kids[1], text, at, caps)
                held == IF m.end = 0 THEN caps[node.group] ELSE <<at, m.end>>
            IN  Hit(m.end, [m.caps EXCEPT ![node.group] = held])
      [] node.op = "seq"    -> MatchSeq(node.kids, text, at, caps)
      [] node.op = "alt"    -> MatchAlt(node.kids, text, at, caps)
      [] node.op = "repeat" -> MatchRepeat(node, <<>>, text, at, caps)
      [] OTHER              ->
            Hit(IF at <= Len(text) /\ Takes(node, text[at]) THEN at + 1 ELSE 0, caps)

\* The first branch that matches, whatever follows the alternation.
MatchAlt(branches, text, at, caps) ==
    IF branches = <<>> THEN Miss(caps)
    ELSE LET m == MatchNode(Head(branches), text, at, caps)
         IN  IF m.end # 0 THEN m ELSE MatchAlt(Tail(branches), text, at, caps)

\* match_seq: only a repetition that is an item of the sequence itself is tried
\* again when what follows it fails.
MatchSeq(nodes, text, at, caps) ==
    IF nodes = <<>> THEN Hit(at, caps)
    ELSE IF Head(nodes).op = "repeat" THEN MatchRepeat(Head(nodes), Tail(nodes), text, at, caps)
    ELSE LET m == MatchNode(Head(nodes), text, at, caps)
             all == MatchSeq(Tail(nodes), text, m.end, m.caps)
         IN  IF m.end = 0 \/ all.end = 0 THEN Miss(caps) ELSE all

\* A mutant of Expand: one repetition at most.
ExpandOnce(node, text, ends, limit, caps) ==
    LET m == MatchNode(node, text, Last(ends), caps)
    IN  [ends |-> IF m.end <= Last(ends) THEN ends ELSE Append(ends, m.end), caps |-> m.caps]

\* The ends after 0, 1, 2 ... repetitions and what the groups hold: one of no
\* width is not taken, but the groups keep it.
Expand(node, text, ends, limit, caps) ==
    LET m == MatchNode(node, text, Last(ends), caps)
    IN  CASE Len(ends) > limit     -> [ends |-> ends, caps |-> caps]
          [] m.end <= Last(ends) -> [ends |-> ends, caps |-> m.caps]
          [] OTHER               -> Expand(node, text, Append(ends, m.end), limit, m.caps)

\* The longest first, down to the minimum; the groups hold what they held after
\* the last repetition, however many are given back.
Backtrack(rest, text, ends, min, caps) ==
    IF Len(ends) <= min THEN Miss(caps)
    ELSE LET m == MatchSeq(rest, text, Last(ends), caps)
         IN  IF m.end # 0 THEN m ELSE Backtrack(rest, text, Front(ends), min, caps)

\* match_repeat_then.
MatchRepeat(node, rest, text, at, caps) ==
    LET run == Expand(node.kids[1], text, <<at>>, node.max, caps)
    IN  Backtrack(rest, text, run.ends, node.min, run.caps)

\* starts_with_anchor.
RECURSIVE Anchored(_)
Anchored(node) ==
    CASE node.op = "start" -> TRUE
      [] node.op = "seq"   -> node.kids # <<>> /\ Anchored(node.kids[1])
      [] node.op = "group" -> Anchored(node.kids[1])
      [] node.op = "alt"   -> \A i \in DOMAIN node.kids : Anchored(node.kids[i])
      [] OTHER             -> FALSE

\* find: the leftmost start that matches; an anchored one is the first.
Find(regex, text) ==
    LET none == [g \in 1..regex.groups |-> <<>>]
        hit(start) == MatchNode(regex.node, text, start, none)
        starts == {s \in IF Anchored(regex.node) THEN {1} ELSE 1..Len(text) + 1 : hit(s).end # 0}
        first == CHOOSE s \in starts : \A t \in starts : s <= t
    IN  IF starts = {} THEN [from |-> 0, to |-> 0, caps |-> none]
        ELSE [from |-> first, to |-> hit(first).end, caps |-> hit(first).caps]
=============================================================================
