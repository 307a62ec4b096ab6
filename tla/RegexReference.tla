--------------------------- MODULE RegexReference ---------------------------
(***************************************************************************)
(* What an expression of Regex means: the places where it may end, the one *)
(* a backtracking matcher would try first coming first.                    *)
(***************************************************************************)
EXTENDS Regex

RECURSIVE Ends(_, _, _), SeqEnds(_, _, _), RunEnds(_, _, _, _)

\* All the ends of what may follow each of these.
Each(ends, Follow(_)) == FlattenSeq([i \in DOMAIN ends |-> Follow(ends[i])])

Ends(node, text, at) ==
    CASE node.op = "start"  -> IF at = 1 THEN <<at>> ELSE << >>
      [] node.op = "finish" -> IF at = Len(text) + 1 THEN <<at>> ELSE << >>
      [] node.op = "group"  -> Ends(node.kids[1], text, at)
      [] node.op = "seq"    -> SeqEnds(node.kids, text, at)
      [] node.op = "alt"    -> Each(node.kids, LAMBDA kid : Ends(kid, text, at))
      [] node.op = "repeat" -> RunEnds(node, 0, text, at)
      [] OTHER              -> IF at <= Len(text) /\ Takes(node, text[at]) THEN <<at + 1>> ELSE << >>

SeqEnds(nodes, text, at) ==
    IF nodes = << >> THEN <<at>>
    ELSE Each(Ends(Head(nodes), text, at), LAMBDA e : SeqEnds(Tail(nodes), text, e))

\* Once more where it may be, before stopping; nothing is repeated at no width
\* but to reach the minimum.
RunEnds(node, done, text, at) ==
    LET on(e) == IF e = at /\ done >= node.min THEN << >> ELSE RunEnds(node, done + 1, text, e)
    IN  (IF done < node.max /\ done < node.min + Len(text) + 1
           THEN Each(Ends(node.kids[1], text, at), on) ELSE << >>)
        \o IF done >= node.min THEN <<at>> ELSE << >>

\* Nothing in it is tried a second time: it has one end at most.
RECURSIVE Plain(_)
Plain(node) == /\ node.op \notin {"repeat", "alt"}
               /\ \A i \in DOMAIN node.kids : Plain(node.kids[i])

\* What the matcher can try again: a repetition of something plain, and an
\* alternation or a group that nothing follows.
RECURSIVE Retried(_)
Retried(node) ==
    CASE node.op = "seq"    -> \A i \in DOMAIN node.kids :
                                  Plain(node.kids[i]) \/ ((node.kids[i].op = "repeat" \/ i = Len(node.kids))
                                                          /\ Retried(node.kids[i]))
      [] node.op = "repeat" -> Plain(node.kids[1]) /\ (node.min = 0 \/ Ends(node.kids[1], << >>, 1) = << >>)
      [] OTHER              -> \A i \in DOMAIN node.kids : Retried(node.kids[i])

RECURSIVE GroupBodies(_)
GroupBodies(node) ==
    UNION {GroupBodies(node.kids[i]) : i \in DOMAIN node.kids}
    \cup IF node.op = "group" THEN {<<node.group, node.kids[1]>>} ELSE {}

\* The leftmost match that backtracking finds first.
Backtracked(regex, text) ==
    LET starts == {s \in 1..Len(text) + 1 : Ends(regex.node, text, s) # << >>}
        first == CHOOSE s \in starts : \A t \in starts : s <= t
    IN  IF starts = {} THEN <<0, 0>> ELSE <<first, Head(Ends(regex.node, text, first))>>

\* A match is one of the expression, and every group holds a match of its own
\* body (Regex::find: match_seq and match_repeat_then).
Sound(regex, text) ==
    LET m == Find(regex, text) IN
    m.from # 0 =>
        /\ m.to \in Range(Ends(regex.node, text, m.from))
        /\ \A g \in GroupBodies(regex.node) :
              m.caps[g[1]] # << >> =>
                  m.caps[g[1]][2] \in Range(Ends(g[2], text, m.caps[g[1]][1]))

\* The match is the one that backtracking finds.
FindsFirst(regex, text) ==
    LET m == Find(regex, text) IN <<m.from, m.to>> = Backtracked(regex, text)

-----------------------------------------------------------------------------
(* The grammar, on a pattern that is given as its tokens: a class and a     *)
(* bound are tokens of their own.                                           *)

Postfixes == {<<"*">>, <<"+">>, <<"?">>}
IsBound(token) == token[1] = "{"

\* The tokens that apply to the one before them; braces that have nothing to
\* apply to are bytes.
Applied(tokens) ==
    LET at[i \in 0..Len(tokens)] ==
            IF i = 0 THEN {}
            ELSE LET before == at[i - 1]
                 IN  IF /\ tokens[i] \in Postfixes \/ IsBound(tokens[i])
                        /\ i > 1 /\ i - 1 \notin before /\ tokens[i - 1] \notin {<<"(">>, <<"|">>}
                       THEN before \cup {i} ELSE before
    IN  at[Len(tokens)]

Opened(tokens, i) == Cardinality({j \in 1..i : tokens[j] = <<"(">>}) -
                     Cardinality({j \in 1..i : tokens[j] = <<")">>})

WellFormed(tokens) ==
    /\ Opened(tokens, Len(tokens)) = 0
    /\ \A i \in DOMAIN tokens : Opened(tokens, i) >= 0
                                /\ (tokens[i] \in Postfixes => i \in Applied(tokens))

RECURSIVE Printed(_)
Printed(node) ==
    LET kids == [i \in DOMAIN node.kids |-> Printed(node.kids[i])]
        joined == FoldLeft(LAMBDA s, k : s \o <<"|">> \o k, << >>, kids)
    IN  CASE node.op = "literal" -> <<node.byte>>
          [] node.op = "any"     -> <<".">>
          [] node.op = "start"   -> <<"^">>
          [] node.op = "finish"  -> <<"$">>
          [] node.op = "class"   -> <<"[">> \o (IF node.not THEN <<"^">> ELSE << >>)
                                    \o SetToSeq(node.items) \o <<"]">>
          [] node.op = "group"   -> <<"(">> \o kids[1] \o <<")">>
          [] node.op = "seq"     -> FlattenSeq(kids)
          [] node.op = "alt"     -> Tail(joined)
          [] OTHER               -> kids[1] \o
                CASE node.min = 0 /\ node.max = NoMax -> <<"*">>
                  [] node.min = 1 /\ node.max = NoMax -> <<"+">>
                  [] node.min = 0 /\ node.max = 1     -> <<"?">>
                  [] OTHER                            -> <<"{", "1", ",", "2", "}">>

\* The groups in the order in which they open.
RECURSIVE GroupOrder(_)
GroupOrder(node) ==
    (IF node.op = "group" THEN <<node.group>> ELSE << >>)
    \o FlattenSeq([i \in DOMAIN node.kids |-> GroupOrder(node.kids[i])])

\* The parser takes the patterns of the grammar, keeps every token, and numbers
\* the groups as they open (Regex::compile).
Faithful(tokens) ==
    LET regex == Compile(FlattenSeq(tokens)) IN
    /\ regex.ok = WellFormed(tokens)
    /\ regex.ok => /\ Printed(regex.node) = FlattenSeq(tokens)
                   /\ GroupOrder(regex.node) = [g \in 1..regex.groups |-> g]
=============================================================================
