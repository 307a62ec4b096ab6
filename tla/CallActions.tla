---------------------------- MODULE CallActions -----------------------------
(***************************************************************************)
(* The actions of a step and the data that calls share through them:       *)
(* crates/sipr-engine/src/actions.rs, with the variables of vars.rs and    *)
(* the injection files.  What the engine does with the outcomes is         *)
(* CallMachine's and CallPool's.  Texts are sequences of characters and    *)
(* words; a number is whole.                                               *)
(***************************************************************************)
EXTENDS Injection

R == INSTANCE Regex

CONSTANTS Tables,      \* the scenarios' variable tables
          Files,       \* the injection files of the run
          FileNames,   \* their names
          Sets         \* -set: names and texts for the globals

-----------------------------------------------------------------------------
(* The layers of the variables (vars.rs).  A scenario's table is a sequence *)
(* of names and scopes; a variable is its place there.                     *)

InScope(table, scope) == SelectSeq(table, LAMBDA v : v.scope = scope)

\* VarSpace::new: the names of the shared scopes of every scenario.
NoSpace == [user |-> << >>, global |-> << >>, conflicts |-> << >>]
Noted(names, name) == IF name \in Range(names) THEN names ELSE Append(names, name)

UserNames(space, table) ==
    FoldLeft(LAMBDA s, v : IF v.name \in Range(s.global) THEN [s EXCEPT !.conflicts = Noted(@, v.name)]
                           ELSE [s EXCEPT !.user = Noted(@, v.name)],
             space, InScope(table, "user"))
GlobalNames(space, table) ==
    FoldLeft(LAMBDA s, v : IF v.name \in Range(s.user) THEN [s EXCEPT !.conflicts = Noted(@, v.name)]
                           ELSE [s EXCEPT !.global = Noted(@, v.name)],
             space, InScope(table, "global"))
Space(tables) == FoldLeft(LAMBDA s, t : GlobalNames(UserNames(s, t), t), NoSpace, tables)

\* layout: a shared name has its slot in the space, the others one of the call's.
Layout(space, table) ==
    LET shared(id) == CASE table[id].scope = "user"   -> SelectInSeq(space.user, LAMBDA n : n = table[id].name)
                        [] table[id].scope = "global" -> SelectInSeq(space.global, LAMBDA n : n = table[id].name)
                        [] OTHER                      -> 0
    IN  [id \in DOMAIN table |->
            IF shared(id) # 0 THEN [layer |-> table[id].scope, at |-> shared(id)]
            ELSE [layer |-> "call", at |-> Cardinality({j \in 1..id : shared(j) = 0})]]
CallLength(layout) == Cardinality({id \in DOMAIN layout : layout[id].layer = "call"})

-----------------------------------------------------------------------------
(* Value.                                                                  *)

Unset == [is |-> "unset", text |-> << >>, num |-> 0]
Str(text) == [Unset EXCEPT !.is = "str", !.text = text]
Num(n) == [Unset EXCEPT !.is = "num", !.num = n]
Bool(b) == [Unset EXCEPT !.is = "bool", !.num = IF b THEN 1 ELSE 0]

IsSet(v) == v.is = "str" \/ v.num # 0
AsDouble(v) == IF v.is = "num" THEN v.num ELSE 0
Fraction == ".000000"
AsText(v) ==
    CASE v.is = "str"                -> v.text
      [] v.is = "num" /\ v.num # 0   -> (IF v.num < 0 THEN <<"-">> ELSE << >>)
                                            \o Append(Decimal(Magnitude(v.num)), Fraction)
      [] v.is = "bool"               -> <<IF v.num = 1 THEN "true" ELSE "false">>
      [] OTHER                       -> << >>

Blank(c) == c \in {" ", "\n", "\r"}
LeftTrimmed(s) == LET i == SelectInSeq(s, LAMBDA c : ~Blank(c)) IN IF i = 0 THEN << >> ELSE SubSeq(s, i, Len(s))
TrimmedText(s) == LeftTrimmed(SubSeq(s, 1, SelectLastInSeq(s, LAMBDA c : ~Blank(c))))

\* to_double: a string is a number when all of it is.
IsNumber(s) ==
    LET unsigned == IF s # << >> /\ s[1] = "-" THEN Tail(s) ELSE s
        digits == IF unsigned # << >> /\ Last(unsigned) = Fraction THEN Front(unsigned) ELSE unsigned
    IN  digits # << >> /\ \A i \in DOMAIN digits : digits[i] \in Range(DigitChars)
NumberIn(s) == LET n == Count(SelectSeq(s, LAMBDA c : c \in Range(DigitChars)))
               IN  IF s # << >> /\ s[1] = "-" THEN -n ELSE n
Converts(v) == CASE v.is = "unset" -> FALSE
                 [] v.is = "str"   -> LeftTrimmed(v.text) = << >> \/ IsNumber(LeftTrimmed(v.text))
                 [] OTHER          -> TRUE
ToDouble(v) == IF v.is = "str" THEN NumberIn(LeftTrimmed(v.text)) ELSE v.num

\* url_encode and url_decode: a byte that is no letter is its two hex digits.
HexOf == [c \in {"/", "%", " "} |-> CASE c = "/" -> <<"2", "F">> [] c = "%" -> <<"2", "5">> [] c = " " -> <<"2", "0">>]
UrlEncode(s) == FlattenSeq([i \in DOMAIN s |-> IF s[i] \in DOMAIN HexOf THEN <<"%">> \o HexOf[s[i]] ELSE <<s[i]>>])

EscapeAt(s, i) == /\ s[i] = "%" /\ i + 2 <= Len(s)
                  /\ \E c \in DOMAIN HexOf : HexOf[c] = SubSeq(s, i + 1, i + 2)
RECURSIVE Decoded(_, _)
Decoded(s, i) ==
    IF i > Len(s) THEN << >>
    ELSE IF EscapeAt(s, i) THEN <<CHOOSE c \in DOMAIN HexOf : HexOf[c] = SubSeq(s, i + 1, i + 2)>> \o Decoded(s, i + 3)
    ELSE <<s[i]>> \o Decoded(s, i + 1)
UrlDecode(s) == Decoded(s, 1)

-----------------------------------------------------------------------------
(* What an ereg searches: a message is its start line, headers and body.   *)

NoMessage == [start |-> << >>, head |-> << >>, body |-> << >>]
Whole(msg) == msg.start \o <<"\n">> \o msg.head \o <<"\n">> \o msg.body

\* header_haystack: the rest of the line after the header's first occurrence.
HeaderHaystack(text, header, lineStart) ==
    LET at == SelectInSubSeq([i \in DOMAIN text |-> <<i, text[i]>>], 1, Len(text),
                  LAMBDA p : p[2] = header /\ (lineStart => p[1] = 1 \/ text[p[1] - 1] = "\n"))
        end == SelectInSubSeq(Append(text, "\n"), at + 1, Len(text) + 1, LAMBDA c : c \in {"\r", "\n"})
    IN  IF at = 0 THEN << >> ELSE SubSeq(text, at + 1, end - 1)

\* ereg_haystack and cmd_haystack: a twin's command has no start line of its own.
Haystack(a, msg, cmd) ==
    CASE a.in = "hdr"                   -> HeaderHaystack(IF cmd = << >> THEN Whole(msg) ELSE cmd, a.header, a.lineStart)
      [] cmd # << >>                    -> cmd
      [] msg = NoMessage                -> << >>
      [] a.in = "body"                  -> msg.body
      [] a.in = "msg" /\ a.lineStart    -> msg.start
      [] OTHER                          -> Whole(msg)

-----------------------------------------------------------------------------
(* run_one.  An action has the fields of all of them; a template is a      *)
(* sequence of parts, the texts and the variables of it.                   *)

Action(do) == [do |-> do, to |-> << >>, from |-> 0, value |-> 0, op |-> "", parts |-> << >>,
               in |-> "msg", header |-> "", lineStart |-> FALSE, check |-> FALSE, pattern |-> << >>,
               file |-> "", line |-> << >>, row |-> << >>]
TextPart(text) == [text |-> text, var |-> 0]
VarPart(id) == [text |-> << >>, var |-> id]

\* render_with_store: the variables as they are now.
Rendered(parts, read) ==
    FlattenSeq([i \in DOMAIN parts |-> IF parts[i].var = 0 THEN parts[i].text ELSE AsText(read[parts[i].var])])
Operand(a, read) == IF a.from = 0 THEN a.value ELSE AsDouble(read[a.from])

\* An effect: the values written, in order, the files and the outcome.
Effect(writes, files, outcome) == [writes |-> writes, files |-> files, outcome |-> outcome]

Compared(a, n) == CASE a.op = "equal"   -> n = a.value [] a.op = "not_equal" -> n # a.value
                    [] a.op = "greater" -> n > a.value [] a.op = "less"      -> n < a.value
                    [] a.op = "greater_equal" -> n >= a.value [] a.op = "less_equal" -> n <= a.value
Computed(a, lhs, rhs) ==
    CASE a.op = "add"      -> lhs + rhs [] a.op = "subtract" -> lhs - rhs
      [] a.op = "multiply" -> lhs * rhs [] a.op = "divide"   -> IF rhs = 0 THEN lhs ELSE lhs \div rhs

\* The variables of an ereg: the whole match, then the groups; what is not
\* matched, and everything when nothing is, becomes unset.
Captured(a, regex, text) ==
    LET found == R!Find(regex, text)
        span(i) == IF i = 1 THEN <<found.from, found.to>> ELSE found.caps[i - 1]
        value(i) == IF found.from = 0 \/ i > regex.groups + 1 \/ span(i) = << >> THEN Unset
                    ELSE Str(SubSeq(text, span(i)[1], span(i)[2] - 1))
    IN  [i \in DOMAIN a.to |-> <<a.to[i], value(i)>>]

Ereg(a, read, env, files) ==
    LET text == IF a.in = "var" THEN AsText(read[a.from]) ELSE Haystack(a, env.msg, env.cmd)
        regex == R!Compile(a.pattern)
        absent == a.in = "hdr" /\ a.check /\ text = << >>
        unset == [i \in DOMAIN a.to |-> <<a.to[i], Unset>>]
    IN  IF absent THEN Effect(unset, files, "fail")
        ELSE Effect(Captured(a, regex, text), files,
                    IF a.check /\ R!Find(regex, text).from = 0 THEN "fail" ELSE "continue")

\* The actions on the injection files: an unknown file, one without an index, a
\* line it does not have and a PRINTF file fail the call.
OnFile(a, read, env, files) ==
    LET fi == ResolveFile(FileNames, a.file)
        line == TrimmedText(Rendered(a.line, read))
        row == IF a.parts = << >> THEN a.row ELSE <<Rendered(a.parts, read)>>
        changed(file) == Effect(<< >>, [files EXCEPT ![fi] = file], "continue")
        failed == Effect(<< >>, files, "fail")
    IN  IF fi = 0 THEN failed
        ELSE CASE a.do = "lookup"  -> IF ~files[fi].indexed THEN failed
                                      ELSE Effect(<<<<a.to[1], Num(Lookup(files[fi], Rendered(a.parts, read)))>>>>,
                                                  files, "continue")
               [] a.do = "insert"  -> IF Insertable(files[fi]) THEN changed(Insert(files[fi], row)) ELSE failed
               [] a.do = "replace" -> IF IsNumber(line) /\ Replaceable(files[fi], NumberIn(line))
                                        THEN changed(Replace(files[fi], NumberIn(line), row)) ELSE failed

OnVariable(a, read, files) ==
    LET set(v) == Effect(<<<<a.to[1], v>>>>, files, "continue")
        text == AsText(read[a.from])
    IN  CASE a.do = "assign"     -> set(Num(Operand(a, read)))
          [] a.do = "assignstr"  -> set(Str(Rendered(a.parts, read)))
          [] a.do = "strcmp"     -> set(Num(IF text = Rendered(a.parts, read) THEN 0 ELSE 1))
          [] a.do = "test"       -> set(Bool(Compared(a, AsDouble(read[a.from]))))
          [] a.do = "arith"      -> set(Num(Computed(a, AsDouble(read[a.to[1]]), Operand(a, read))))
          [] a.do = "todouble"   -> IF Converts(read[a.from]) THEN set(Num(ToDouble(read[a.from])))
                                    ELSE Effect(<< >>, files, "warn")
          [] a.do = "trim"       -> set(Str(TrimmedText(text)))
          [] a.do = "urlencode"  -> set(Str(UrlEncode(text)))
          [] a.do = "urldecode"  -> set(Str(UrlDecode(text)))

OnVariables == {"assign", "assignstr", "strcmp", "test", "arith", "todouble", "trim", "urlencode", "urldecode"}
OnFiles == {"lookup", "insert", "replace"}
Other == {"log", "warn", "fail", "jump", "pauserestore", "closecon", "stop_call", "stop_gracefully", "stop_now",
          "media", "command", "setdest"}

RunOne(a, read, env, files) ==
    CASE a.do = "ereg"           -> Ereg(a, read, env, files)
      [] a.do \in OnVariables    -> OnVariable(a, read, files)
      [] a.do \in OnFiles        -> OnFile(a, read, env, files)
      [] a.do = "stop_call"      -> Effect(<< >>, files, "fail")
      [] a.do \in Other          -> Effect(<< >>, files, a.do)

\* run_actions: what ends the list.
Terminal == {"fail", "stop_gracefully", "stop_now"}

-----------------------------------------------------------------------------
(* The data of a run: the globals, the users' tables, the calls' own       *)
(* values, the files and their counters.                                   *)

VarSpace == Space(Tables)
Layouts == [s \in DOMAIN Tables |-> Layout(VarSpace, Tables[s])]
Blanks(n) == [i \in 1..n |-> Unset]

\* seed_globals.
Seeded == FoldLeft(LAMBDA g, set : [g EXCEPT ![SelectInSeq(VarSpace.global, LAMBDA n : n = set[1])] = Str(set[2])],
                   Blanks(Len(VarSpace.global)), Sets)

Start == [globals |-> Seeded, users |-> << >>, calls |-> << >>, files |-> Files,
          counters |-> [i \in DOMAIN Files |-> 0]]

Slot(data, call, id) ==
    LET slot == Layouts[data.calls[call].scenario][id]
        user == data.calls[call].user
    IN  CASE slot.layer = "global"              -> data.globals[slot.at]
          [] slot.layer = "user" /\ user \in DOMAIN data.users -> data.users[user][slot.at]
          [] slot.layer = "user"                -> data.calls[call].private[slot.at]
          [] OTHER                              -> data.calls[call].own[slot.at]
Store(data, call) == [id \in DOMAIN Tables[data.calls[call].scenario] |-> Slot(data, call, id)]

SetSlot(data, call, write) ==
    LET slot == Layouts[data.calls[call].scenario][write[1]]
        user == data.calls[call].user
    IN  CASE slot.layer = "global"              -> [data EXCEPT !.globals[slot.at] = write[2]]
          [] slot.layer = "user" /\ user \in DOMAIN data.users -> [data EXCEPT !.users[user][slot.at] = write[2]]
          [] slot.layer = "user"                -> [data EXCEPT !.calls[call].private[slot.at] = write[2]]
          [] OTHER                              -> [data EXCEPT !.calls[call].own[slot.at] = write[2]]

\* A mutant of UserTables: each call of a user starts with a table of its own.
UserTablesFresh(users, user) ==
    IF user = 0 THEN users ELSE [u \in DOMAIN users \cup {user} |-> IF u = user THEN Blanks(Len(VarSpace.user)) ELSE users[u]]

\* user_table: a user's first call creates it.
UserTables(users, user) ==
    IF user = 0 \/ user \in DOMAIN users THEN users
    ELSE [u \in DOMAIN users \cup {user} |-> IF u = user THEN Blanks(Len(VarSpace.user)) ELSE users[u]]

\* new_store and assign_field_lines: what a call is given when it opens.
OpenCall(data, call, scenario, user, draw) ==
    LET new == [scenario |-> scenario, user |-> user, own |-> Blanks(CallLength(Layouts[scenario])),
                private |-> Blanks(Len(VarSpace.user)),
                lines |-> AssignFieldLines(data.files, data.counters, user, draw)]
    IN  [data EXCEPT !.users = UserTables(@, user),
                     !.counters = CountersAfter(data.files, @),
                     !.calls = [c \in DOMAIN @ \cup {call} |-> IF c = call THEN new ELSE @[c]]]

\* run_actions over the shared data; what it leaves is the data and the outcomes.
RunActions(data, call, actions, env) ==
    LET step(s, a) ==
            LET effect == RunOne(a, Store(s.data, call), env, s.data.files)
            IN  IF s.outcomes # << >> /\ Last(s.outcomes) \in Terminal THEN s
                ELSE [data |-> [FoldLeft(LAMBDA d, w : SetSlot(d, call, w), s.data, effect.writes)
                                   EXCEPT !.files = effect.files],
                      outcomes |-> Append(s.outcomes, effect.outcome)]
    IN  FoldLeft(step, [data |-> data, outcomes |-> << >>], actions)

=============================================================================
