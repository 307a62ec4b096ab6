-------------------------- MODULE ScenarioCompiler --------------------------
(***************************************************************************)
(* The scenario compiler of crates/sipr-scenario/src/compile.rs: it takes  *)
(* the children of <scenario> one by one, and resolves what they refer to  *)
(* once it has seen them all.  Nothing of a scenario with an error is run; *)
(* warnings and, under --check, lints are reported.                        *)
(*                                                                         *)
(* An element has a tag, its attributes, its actions, the text in it and   *)
(* whether a child is out of place; a comment may be a sipr-lint           *)
(* directive.  Steps are numbered from 1.                                  *)
(***************************************************************************)
EXTENDS ScenarioActions, RecvWindow

CONSTANTS
    Vocabularies,  \* sets of elements; a document is written in one
    MaxElements,   \* bound: elements of a document
    Lint           \* CompileOptions::lint

\* The lints a directive may name.
LintNames == {"optional-window", "unreachable", "body-separator", "content-length"}

\* What the XML reader hands over: attributes have values, and what a directive
\* keeps are lints' names.
HasValues(el) == el.attrs \in [DOMAIN el.attrs -> Value]

IsElement(el) ==
    /\ HasValues(el) /\ el.body \in Value
    /\ IsFiniteSet(el.actions)
    /\ \A a \in el.actions : HasValues(a)
    /\ el.tag = "directive" => el.body.vars \subseteq LintNames

ASSUME VocabulariesAssumption == \A w \in Vocabularies : \A el \in w : IsElement(el)

\* The text of an attribute that is not there is text: so it is in TLA+, where every
\* literal is a string, but no prover has it as a fact to start from.
ASSUME TextAssumption == "" \in STRING

VARIABLES
    words,      \* the document's vocabulary
    document,   \* the elements so far
    compiler,   \* the Compiler
    outcome     \* the CompileOutcome

vars == <<words, document, compiler, outcome>>

Pending == [status |-> "reading"]

NoDirective == {"none"}

Fresh ==
    [steps |-> <<>>, labels |-> [l \in {} |-> 0], pending |-> {},
     scope |-> [v \in {} |-> ""], read |-> {}, written |-> {},
     txns |-> [t \in {} |-> 0], allows |-> {}, directive |-> NoDirective,
     misplaced |-> FALSE, errors |-> {}, warnings |-> {}]

Init ==
    /\ words \in Vocabularies
    /\ document = <<>>
    /\ compiler = Fresh
    /\ outcome = Pending

-----------------------------------------------------------------------------
(* Shared pieces.                                                          *)

\* VarTable::intern: a new name is a call's variable.
Interned(c, names) ==
    [v \in DOMAIN c.scope \cup names |-> IF v \in DOMAIN c.scope THEN c.scope[v] ELSE "call"]

Reads(c, names) == [c EXCEPT !.scope = Interned(c, names), !.read = @ \cup names]
Writes(c, names) == [c EXCEPT !.scope = Interned(c, names), !.written = @ \cup names]
Reports(c, errors, warnings) ==
    [c EXCEPT !.errors = @ \cup errors, !.warnings = @ \cup warnings]

CommonAttrs ==
    {"start_rtd", "rtd", "repeat_rtd", "crlf", "next", "ontimeout", "test", "chance",
     "condexec", "condexec_inverse", "counter", "hide", "display"}

PauseAttrs == {"milliseconds", "variable", "sanity_check", "distribution", "mean", "stdev"}

OwnAttrs(tag) ==
    CASE tag = "send"     -> {"retrans", "lost", "start_txn", "ack_txn", "response_txn"}
      [] tag = "recv"     -> {"response", "request", "optional", "rrs", "auth", "lost", "timeout",
                              "regexp_match", "response_txn", "ignoresdp", "ignosesdp"}
      [] tag \in {"pause", "timewait"} -> PauseAttrs
      [] tag = "nop"      -> {"display"}
      [] tag = "sendCmd"  -> {"dest"}
      [] tag = "recvCmd"  -> {"optional", "src"}
      [] OTHER            -> {}

Booleans == {"repeat_rtd", "crlf", "condexec_inverse", "hide", "optional", "rrs", "auth",
             "regexp_match", "ignoresdp", "ignosesdp", "sanity_check"}
Numbers == {"retrans", "lost", "timeout", "milliseconds", "chance", "distribution"}

\* parse_common, parse_bool_attr, parse_num_attr and counter_name; a regular
\* expression and a peer's name are checked the same way.
StepErrors(el) ==
    When(el.tag = "timewait" /\ Given(el, {"next", "ontimeout"}) # {}, "branch on timewait")
        \cup When(Malformed(el, (Booleans \cup Numbers \cup {"counter", "dest", "src"})
                                    \cap (CommonAttrs \cup OwnAttrs(el.tag))), "bad value")
        \cup When(el.odd, "unexpected child")
        \cup UNION {ActionErrors(a) : a \in el.actions}

StepWarnings(el) ==
    When(~(DOMAIN el.attrs \subseteq CommonAttrs \cup OwnAttrs(el.tag)), "unknown attribute")
        \cup When(Has(el, "ontimeout") /\ el.tag \notin {"send", "recv", "recvCmd", "timewait"},
                  "ontimeout has no effect")
        \cup When(Has(el, "chance") /\ ~Malformed(el, {"chance"}) /\ ~Has(el, "next"),
                  "chance without next")
        \cup UNION {ActionWarnings(a) : a \in el.actions}

\* The branches to resolve once every label is known.
Branching(c, el) ==
    {[step |-> Len(c.steps) + 1, slot |-> slot, label |-> Text(el, slot)] :
        slot \in IF el.tag = "timewait" THEN {} ELSE Given(el, {"next", "ontimeout"})}

\* A step as it is before `finish`: its jump is still a message's number, one
\* more than it is so that 0 means none.
NewStep(el) ==
    [kind |-> el.tag,
     name |-> Text(el, IF Has(el, "request") THEN "request" ELSE "response"),
     request |-> Has(el, "request"),
     optional |-> Text(el, "optional") = "true",
     txn |-> 0, acks |-> FALSE,
     retrans |-> Has(el, "retrans"), timed |-> Has(el, "timeout"),
     ontimeout |-> 0, next |-> 0,
     test |-> Has(el, "test"), chance |-> Has(el, "chance"), cond |-> Has(el, "condexec"),
     jump |-> Max({0} \cup {n + 1 : n \in JumpsTo(el.actions)}),
     returns |-> "_unexp.retaddr" \in JumpsThrough(el.actions),
     computed |-> JumpsThrough(el.actions) \ {"_unexp.retaddr"} # {},
     restores |-> \E a \in el.actions :
                    a.do = "pauserestore" /\ "_unexp.pausedaddr" \in ReadBy(a),
     fails |-> FALSE]

\* Every step: its attributes, its actions and its place.
Emit(c, el, errors, names) ==
    LET read == VarsIn(el, {"test", "condexec"}) \cup names
                    \cup UNION {ReadBy(a) : a \in el.actions}
        written == UNION {WrittenBy(a) : a \in el.actions}
        branched == [c EXCEPT !.pending = @ \cup Branching(c, el),
                              !.steps = Append(@, NewStep(el))]
    IN  Reports(Writes(Reads(branched, read), written),
                StepErrors(el) \cup errors, StepWarnings(el))

-----------------------------------------------------------------------------
(* Named transactions.                                                     *)

NewTxn == [invite |-> FALSE, started |-> 0, responses |-> 0, acks |-> 0]

\* txn: the first mention of a transaction creates it.
Uses(c, name, use, invite) ==
    LET txn == IF name \in DOMAIN c.txns THEN c.txns[name] ELSE NewTxn
        used == IF use = "start"
                  THEN [txn EXCEPT !.started = @ + 1, !.invite = invite]
                  ELSE IF use = "ack" THEN [txn EXCEPT !.acks = @ + 1]
                  ELSE [txn EXCEPT !.responses = @ + 1]
    IN  [c EXCEPT !.txns = [t \in DOMAIN @ \cup {name} |-> IF t = name THEN used ELSE @[t]]]

IsResponse(el) == el.body.text = "SIP/2.0"
IsAck(el) == el.body.text = "ACK"

\* parse_send_txns.
SendTxnErrors(el) ==
    When(Has(el, "response_txn"), "response_txn on a send")
        \cup When({"start_txn", "ack_txn"} \subseteq DOMAIN el.attrs, "start_txn and ack_txn")
        \cup When(Has(el, "start_txn") /\ (IsResponse(el) \/ IsAck(el)), "cannot start")
        \cup When(Has(el, "ack_txn") /\ ~IsAck(el), "cannot acknowledge")

SendsTxn(c, el) ==
    IF SendTxnErrors(el) \ {"response_txn on a send"} # {} THEN c
    ELSE IF Has(el, "start_txn")
      THEN Uses(c, Text(el, "start_txn"), "start", el.body.text = "INVITE")
    ELSE IF Has(el, "ack_txn") THEN Uses(c, Text(el, "ack_txn"), "ack", FALSE)
    ELSE c

\* validate_txn_usage.
TxnFaults(t) ==
    When(t.started = 0, "never started")
        \cup When(t.started > 0 /\ t.responses = 0, "no responses")
        \cup When(t.invite /\ t.acks = 0, "an INVITE without an ACK")
        \cup When(~t.invite /\ t.acks > 0, "no INVITE, with an ACK")

-----------------------------------------------------------------------------
(* compile_element.                                                        *)

CompileSend(c, el) ==
    SendsTxn(Emit(c, el, When(el.body.text = "", "no body") \cup SendTxnErrors(el),
                  el.body.vars), el)

RecvErrors(el) ==
    When(Cardinality(Given(el, {"request", "response"})) # 1, "response or request")
        \cup When(Has(el, "response_txn") /\ Has(el, "request"), "response_txn on a request")

CompileRecv(c, el) ==
    LET used == IF Has(el, "response_txn") /\ ~Has(el, "request")
                  THEN Uses(c, Text(el, "response_txn"), "response", FALSE) ELSE c
    IN  Emit(used, el, RecvErrors(el), {})

\* parse_pause_spec; a timewait takes what a pause takes.
CompilePause(c, el) ==
    Emit(c, el, When(Cardinality(Given(el, {"milliseconds", "variable", "distribution"})) > 1,
                     "one length"),
         VarsIn(el, {"variable"}))

CompileSendCmd(c, el) == Emit(c, el, When(el.body.text = "", "no body"), el.body.vars)

CompileOther(c, el) == Emit(c, el, {}, {})

Placed(labels, id, place) ==
    [l \in DOMAIN labels \cup {id} |-> IF l = id THEN place ELSE labels[l]]

\* A mutant of CompileLabel: a label stands for the step before it.
CompileLabelEarly(c, el) ==
    Reports([c EXCEPT !.labels = Placed(@, Text(el, "id"), Len(c.steps)),
                      !.steps = Append(@, NewStep(el))],
            When(Text(el, "id") \in DOMAIN c.labels, "duplicate label"), {})

CompileLabel(c, el) ==
    IF ~Has(el, "id") THEN Reports(c, {"label without id"}, {})
    ELSE Reports([c EXCEPT !.labels = Placed(@, Text(el, "id"), Len(c.steps) + 1),
                           !.steps = Append(@, NewStep(el))],
                 When(Text(el, "id") \in DOMAIN c.labels, "duplicate label"), {})

\* compile_scope_declaration: the scope is the whole scenario's, whatever stood
\* before the declaration.
Declares(c, el, scope) ==
    LET names == VarsIn(el, {"variables"})
        clash == {v \in names \cap DOMAIN c.scope : c.scope[v] \notin {"call", scope}}
        early == {v \in names \cap DOMAIN c.scope : c.scope[v] = "call"}
        known == Interned(c, names)
    IN  Reports([c EXCEPT !.scope = [v \in DOMAIN known |->
                            IF v \in names \ clash THEN scope ELSE known[v]]],
                When(~Has(el, "variables"), "missing attribute")
                    \cup When(clash # {}, "two scopes"),
                When(early # {}, "used before its declaration"))

Refers(c, el) ==
    Reports(Reads(c, VarsIn(el, {"variables"})),
            When(VarsIn(el, {"variables"}) = {}, "missing attribute"), {})

\* parse_bucket_list.
Buckets(c, el) ==
    Reports(c, When(~Has(el, "value") \/ Malformed(el, {"value"}), "bucket"), {})

Compiled(c, el) ==
    CASE el.tag = "send"     -> CompileSend(c, el)
      [] el.tag = "recv"     -> CompileRecv(c, el)
      [] el.tag \in {"pause", "timewait"} -> CompilePause(c, el)
      [] el.tag = "sendCmd"  -> CompileSendCmd(c, el)
      [] el.tag \in {"nop", "recvCmd"} -> CompileOther(c, el)
      [] el.tag = "label"    -> CompileLabel(c, el)
      [] el.tag = "Global"   -> Declares(c, el, "global")
      [] el.tag = "User"     -> Declares(c, el, "user")
      [] el.tag = "Reference" -> Refers(c, el)
      [] el.tag \in {"ResponseTimeRepartition", "CallLengthRepartition"} -> Buckets(c, el)
      [] OTHER -> Reports(c, {"unknown element"}, {})

-----------------------------------------------------------------------------
(* compile_root.                                                           *)

\* A mutant of Settled: a directive waits for the next step, however far.
SettledLater(before, after) ==
    IF before.directive = NoDirective \/ Len(after.steps) = Len(before.steps) THEN after
    ELSE [after EXCEPT !.directive = NoDirective,
                       !.allows = @ \cup {[step |-> Len(after.steps), lints |-> before.directive]}]

\* The directive before an element is for the step it compiles to, or for none.
Settled(before, after) ==
    IF before.directive = NoDirective THEN after
    ELSE IF Len(after.steps) > Len(before.steps)
      THEN [after EXCEPT !.directive = NoDirective,
              !.allows = @ \cup {[step |-> Len(before.steps) + 1, lints |-> before.directive]}]
    ELSE [after EXCEPT !.directive = NoDirective,
                       !.warnings = @ \cup When(Lint, "directive has no effect")]

Writable == outcome = Pending /\ Len(document) < MaxElements

Keeps(el) == document' = Append(document, el) /\ UNCHANGED <<words, outcome>>

ReadElement ==
    /\ Writable
    /\ \E el \in words :
          /\ el.tag # "directive"
          /\ compiler' = [Settled(compiler, Compiled(compiler, el))
                            EXCEPT !.misplaced = @ \/ el.hides]
          /\ Keeps(el)

\* lint_directive: names that are no lint's are reported; the others are kept.
ReadDirective ==
    /\ Writable
    /\ \E el \in words :
          /\ el.tag = "directive"
          /\ compiler' = [compiler EXCEPT
                !.directive = (@ \ NoDirective) \cup el.body.vars,
                !.warnings = @ \cup When(Lint /\ ~el.body.ok, "bad directive")]
          /\ Keeps(el)

-----------------------------------------------------------------------------
(* finish.                                                                 *)

LabelOf(c, label) == IF label \in DOMAIN c.labels THEN c.labels[label] ELSE 0

\* The label a step's branch leads to (0: none).
Branch(c, i, slot) ==
    LET labels == {p.label : p \in {q \in c.pending : q.step = i /\ q.slot = slot}}
    IN  IF labels = {} THEN 0 ELSE LabelOf(c, CHOOSE l \in labels : TRUE)

\* MessageNumbering: the step of message n, counted from 0.
StepOf(steps, n) ==
    CHOOSE i \in 1..Len(steps) + 1 :
        /\ Cardinality({j \in 1..i - 1 : steps[j].kind # "label"}) = n
        /\ i > Len(steps) \/ steps[i].kind # "label"

Messages(steps) == Cardinality({j \in DOMAIN steps : steps[j].kind # "label"})

OutOfRange(c) == {i \in DOMAIN c.steps : c.steps[i].jump > Messages(c.steps) + 1}

\* resolve_jump_values and the labels.
Resolved(c) ==
    [i \in DOMAIN c.steps |->
        [c.steps[i] EXCEPT
            !.next = Branch(c, i, "next"),
            !.ontimeout = Branch(c, i, "ontimeout"),
            !.jump = IF @ = 0 \/ i \in OutOfRange(c) THEN 0 ELSE StepOf(c.steps, @ - 1)]]

\* The engine writes the _unexp variables; a global may be set elsewhere.
EngineVars == {"_unexp.retaddr", "_unexp.pausedaddr"}
SetElsewhere(c) == EngineVars \cup {v \in DOMAIN c.scope : c.scope[v] = "global"}

IsSet(c, v) == v \in c.written \cup SetElsewhere(c)

HasRole(c) == \E i \in DOMAIN c.steps : c.steps[i].kind \in {"send", "recv"}

FinishErrors(c) ==
    When(\E p \in c.pending : LabelOf(c, p.label) = 0, "undefined label")
        \cup When(OutOfRange(c) # {}, "jump out of range")
        \cup (UNION {TxnFaults(c.txns[t]) : t \in DOMAIN c.txns})
        \cup When(~HasRole(c), "no send or recv")
        \cup When(\E v \in c.read : ~IsSet(c, v), "read but never set")

\* warn_misplaced_directives.
Misplaced(c) == When(Lint /\ c.misplaced, "directive misplaced")

FinishWarnings(c) ==
    When(\E v \in DOMAIN c.scope \ c.read : IsSet(c, v), "set but never used")
        \cup When(Lint /\ c.directive # NoDirective, "directive has no effect")
        \cup Misplaced(c)

ModelOf(steps, handler) == INSTANCE ScenarioLint WITH Steps <- steps, Handler <- handler

\* run_lints, less what the directives allow.
Findings(steps, handler) ==
    {[lint |-> "optional-window", step |-> i] : i \in ModelOf(steps, handler)!OptionalWindows}
        \cup {[lint |-> "unreachable", step |-> i] : i \in ModelOf(steps, handler)!UnreachableSteps}

Allowed(c, finding) ==
    \E allow \in c.allows : allow.step = finding.step /\ finding.lint \in allow.lints

\* Only what compiled is linted.
Finish ==
    /\ outcome = Pending
    /\ UNCHANGED <<words, document, compiler>>
    /\ LET errors == compiler.errors \cup FinishErrors(compiler)
           steps == Resolved(compiler)
           handler == LabelOf(compiler, "_unexp.main")
           found == IF Lint THEN Findings(steps, handler) ELSE {}
       IN  outcome' = IF errors # {} THEN [status |-> "refused", errors |-> errors]
                      ELSE [status   |-> "compiled",
                            steps    |-> steps,
                            handler  |-> handler,
                            scope    |-> compiler.scope,
                            txns     |-> DOMAIN compiler.txns,
                            warnings |-> compiler.warnings \cup FinishWarnings(compiler),
                            lints    |-> {f \in found : ~Allowed(compiler, f)}]

\* XML that does not parse, and a root that is no scenario.
RejectDocument ==
    /\ outcome = Pending /\ document = <<>>
    /\ outcome' = [status |-> "refused", errors |-> {"not a scenario"}]
    /\ UNCHANGED <<words, document, compiler>>

Next == ReadElement \/ ReadDirective \/ Finish \/ RejectDocument

Spec == Init /\ [][Next]_vars
=============================================================================
