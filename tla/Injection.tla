----------------------------- MODULE Injection ------------------------------
(***************************************************************************)
(* Injection files: crates/sipr-scenario/src/inject.rs, the sources of     *)
(* fields of render.rs and the lines engine.rs gives to calls.  A file is  *)
(* its rows, each a sequence of fields; lines count from 0.                *)
(***************************************************************************)
EXTENDS Integers, Sequences, FiniteSets, SequencesExt, Functions

NoLine == -1
Empty == << >>          \* the field that is not there

Modes == {"random", "sequential", "user"}

-----------------------------------------------------------------------------
(* PRINTF files: the rows are templates, a field a sequence of characters. *)

DigitChars == <<"0", "1", "2", "3", "4", "5", "6", "7", "8", "9">>
DigitOf(c) == CHOOSE d \in 0..9 : DigitChars[d + 1] = c
Decimal(n) ==
    LET digits[k \in Nat] == IF k < 10 THEN <<DigitChars[k + 1]>>
                             ELSE Append(digits[k \div 10], DigitChars[(k % 10) + 1])
    IN  digits[n]
Magnitude(n) == IF n < 0 THEN -n ELSE n
Times(c, n) == IF n <= 0 THEN Empty ELSE [i \in 1..n |-> c]

\* bounded_count: what is no number is 0.
Count(text) ==
    IF text = Empty \/ \E i \in DOMAIN text : text[i] \notin Range(DigitChars) THEN 0
    ELSE FoldLeft(LAMBDA n, c : 10 * n + DigitOf(c), 0, text)

\* format_decimal: flags, a width and a precision, as C's %d.
FormatDecimal(spec, value) ==
    LET after == SelectInSeq(Append(spec, "d"), LAMBDA c : c \notin {"-", "0"})
        flags == Range(SubSeq(spec, 1, after - 1))
        rest == SubSeq(spec, after, Len(spec))
        dot == SelectInSeq(rest, LAMBDA c : c = ".")
        width == Count(IF dot = 0 THEN rest ELSE SubSeq(rest, 1, dot - 1))
        precision == IF dot = 0 THEN 0 ELSE Count(SubSeq(rest, dot + 1, Len(rest)))
        plain == Decimal(Magnitude(value))
        digits == Times("0", precision - Len(plain)) \o plain
        sign == IF value < 0 THEN <<"-">> ELSE Empty
        pad == width - Len(sign) - Len(digits)
    IN  CASE "-" \in flags             -> sign \o digits \o Times(" ", pad)
          [] "0" \in flags /\ dot = 0  -> sign \o Times("0", pad) \o digits
          [] OTHER                     -> Times(" ", pad) \o sign \o digits

\* expand_printf from `at`: a conversion that is no %d is an error.
Refused == [ok |-> FALSE, text |-> Empty]
RECURSIVE Expanded(_, _, _, _)
Expanded(field, value, at, done) ==
    LET stop == SelectInSubSeq(field, at + 1, Len(field), LAMBDA c : c \notin Range(DigitChars) \cup {".", "-"})
    IN  CASE at > Len(field)   -> [ok |-> TRUE, text |-> done]
          [] field[at] # "%"   -> Expanded(field, value, at + 1, Append(done, field[at]))
          [] at < Len(field) /\ field[at + 1] = "%" -> Expanded(field, value, at + 2, Append(done, "%"))
          [] stop = 0 \/ field[stop] # "d" -> Refused
          [] OTHER -> Expanded(field, value, stop + 1,
                               done \o FormatDecimal(SubSeq(field, at + 1, stop - 1), value))
ExpandPrintf(field, value) == Expanded(field, value, 1, Empty)

-----------------------------------------------------------------------------
(* parse.  A text is a header, the set of its words and its parameters,    *)
(* and lines: "data" with its fields, a "comment" or a "blank" one.        *)

NoFile == [ok |-> FALSE, mode |-> "", rows |-> << >>, printf |-> FALSE, lines |-> 0, offset |-> 0,
           multiple |-> 1, indexed |-> FALSE, index |-> << >>]

ModeOf(words) == CASE "RANDOM" \in words     -> "random"
                   [] "SEQUENTIAL" \in words -> "sequential"
                   [] OTHER                  -> "user"

\* A blank line ends the file; comments are no rows.
RowsOf(lines) ==
    LET blank == SelectInSeq(lines, LAMBDA l : l.is = "blank")
        read == IF blank = 0 THEN lines ELSE SubSeq(lines, 1, blank - 1)
        data == SelectSeq(read, LAMBDA l : l.is = "data")
    IN  [i \in DOMAIN data |-> data[i].fields]

\* validate_printf_field, for every field of every row.
Valid(rows) == \A i \in DOMAIN rows : \A j \in DOMAIN rows[i] : ExpandPrintf(rows[i][j], 0).ok

Parse(words, params, lines) ==
    LET rows == RowsOf(lines)
    IN  IF \/ words \cap {"RANDOM", "SEQUENTIAL", "USER"} = {}
           \/ rows = << >>
           \/ params.printf /\ (~Valid(rows) \/ params.lines <= 0)
          THEN NoFile
          ELSE [NoFile EXCEPT !.ok = TRUE, !.mode = ModeOf(words), !.rows = rows, !.printf = params.printf,
                              !.lines = params.lines, !.offset = params.offset, !.multiple = params.multiple]

-----------------------------------------------------------------------------
(* A file in use.                                                          *)

Length(file) == IF file.printf THEN file.lines ELSE Len(file.rows)

\* field: missing is not there; a PRINTF file's line selects a row and a number.
Field(file, line, field) ==
    LET row == file.rows[(line % Len(file.rows)) + 1]
        value == file.offset + line * file.multiple
    IN  IF line \notin 0..Length(file) - 1 \/ field + 1 \notin DOMAIN row THEN Empty
        ELSE IF file.printf /\ ExpandPrintf(row[field + 1], value).ok
          THEN ExpandPrintf(row[field + 1], value).text
        ELSE row[field + 1]

\* The index is on one field: key_at.
IndexField == 0
KeyAt(file, line) == Field(file, line, IndexField)

Reindex(file, line) ==
    IF file.indexed THEN [file EXCEPT !.index = [k \in DOMAIN @ \cup {KeyAt(file, line)} |->
                                                    IF k = KeyAt(file, line) THEN line ELSE @[k]]]
    ELSE file

Deindex(file, line) ==
    LET key == KeyAt(file, line)
    IN  IF file.indexed /\ key \in DOMAIN file.index /\ file.index[key] = line
          THEN [file EXCEPT !.index = Restrict(@, DOMAIN @ \ {key})] ELSE file

BuildIndex(file) ==
    FoldLeft(Reindex, [file EXCEPT !.indexed = TRUE, !.index = << >>], [l \in 1..Length(file) |-> l - 1])

Lookup(file, key) == IF key \in DOMAIN file.index THEN file.index[key] ELSE NoLine

\* insert and replace; a PRINTF file is refused, as is a line it does not have.
Insertable(file) == ~file.printf
Insert(file, row) == Reindex([file EXCEPT !.rows = Append(@, row)], Len(file.rows))
Replaceable(file, line) == ~file.printf /\ line \in 0..Len(file.rows) - 1
Replace(file, line, row) == Reindex([Deindex(file, line) EXCEPT !.rows[line + 1] = row], line)

-----------------------------------------------------------------------------
(* The files of a run, those of -inf first, and the calls' lines in them.  *)

\* resolve_file: no name is the first file; a name goes before a number.
\* 0 is not found.
ResolveFile(names, spec) ==
    LET named == SelectInSeq(names, LAMBDA n : n = spec)
        number == IF spec \in Range(DigitChars) THEN DigitOf(spec) ELSE Len(names)
    IN  CASE spec = ""             -> IF names = << >> THEN 0 ELSE 1
          [] named # 0             -> named
          [] number < Len(names)   -> number + 1
          [] OTHER                 -> 0

\* validate_field_files: a field that names no file needs a -inf one.
Resolves(names, defaults, spec) ==
    IF spec = "" THEN defaults > 0
    ELSE \/ \E i \in DOMAIN names : names[i] = spec
         \/ spec \in Range(DigitChars) /\ DigitOf(spec) < Len(names)

\* assign_field_lines: a sequential file's counter moves on, the others' stay.
CountersAfter(files, counters) ==
    [i \in DOMAIN counters |-> IF files[i].mode = "sequential" THEN counters[i] + 1 ELSE counters[i]]

\* The line of a call: the next, a drawn one, or the user's own.
LineIn(file, counter, user, draw) ==
    CASE Length(file) = 0           -> NoLine
      [] file.mode = "sequential"   -> counter % Length(file)
      [] file.mode = "random"       -> draw % Length(file)
      [] OTHER                      -> IF user \in 1..Length(file) THEN user - 1 ELSE NoLine
AssignFieldLines(files, counters, user, draw) ==
    [i \in DOMAIN files |-> LineIn(files[i], counters[i], user, draw)]

-----------------------------------------------------------------------------
(* The references.                                                         *)

\* What the rows of a PRINTF file were checked for holds on every virtual line,
\* and lines that share a row's only conversion differ by its number.
FieldsExpand(file) ==
    file.ok /\ file.printf =>
        /\ \A line \in 0..Length(file) - 1 :
              \A j \in DOMAIN file.rows[(line % Len(file.rows)) + 1] :
                 ExpandPrintf(file.rows[(line % Len(file.rows)) + 1][j], file.offset + line * file.multiple).ok
        /\ file.multiple # 0 /\ (\A i \in DOMAIN file.rows : file.rows[i] = <<<<"%", "d">>>>) =>
              \A l, m \in 0..Length(file) - 1 : Field(file, l, 0) = Field(file, m, 0) => l = m

\* Comments are nothing, and nothing that follows a blank line is read.
ReadsTheRows(words, params, lines) ==
    LET blank == SelectInSeq(lines, LAMBDA l : l.is = "blank")
        bare == SelectSeq(lines, LAMBDA l : l.is # "comment")
    IN  /\ Parse(words, params, bare) = Parse(words, params, lines)
        /\ blank # 0 => Parse(words, params, SubSeq(lines, 1, blank)) = Parse(words, params, lines)

\* A key is found on the line it was last written to, while that line holds it.
\* `writes` are the lines written and the keys they got, the file's own first.
LookupsFollow(file, writes) ==
    \A key \in {writes[i].key : i \in DOMAIN writes} :
        LET last == SelectLastInSeq(writes, LAMBDA w : w.key = key)
            line == writes[last].line
            now == writes[SelectLastInSeq(writes, LAMBDA w : w.line = line)].key
        IN  Lookup(file, key) = IF now = key THEN line ELSE NoLine
=============================================================================
