--------------------------- MODULE ScenarioActions --------------------------
(***************************************************************************)
(* The <action> children of a scenario's steps: parse_action and its       *)
(* helpers of crates/sipr-scenario/src/compile.rs.                         *)
(*                                                                         *)
(* An element has a function of its attributes.  Of a value it matters     *)
(* whether it can be parsed as what it should be, which variables it names *)
(* or a template in it mentions, and, where it decides something, its text *)
(* or its number.  What an action that is refused would have read or       *)
(* written besides is left out: nothing comes of the scenario then.        *)
(***************************************************************************)
EXTENDS Integers, FiniteSets, Sequences

Value == [text : STRING, vars : SUBSET STRING, ok : BOOLEAN, num : Nat]

Has(el, attr) == attr \in DOMAIN el.attrs
Given(el, attrs) == attrs \cap DOMAIN el.attrs
Text(el, attr) == IF Has(el, attr) THEN el.attrs[attr].text ELSE ""
VarsIn(el, attrs) == UNION {el.attrs[a].vars : a \in Given(el, attrs)}
Malformed(el, attrs) == \E a \in Given(el, attrs) : ~el.attrs[a].ok

When(condition, what) == IF condition THEN {what} ELSE {}

Logs      == {"log", "warning", "error"}
Arith     == {"add", "subtract", "multiply", "divide"}
InPlace   == {"trim", "urlencode", "urldecode"}
Conversed == {"todouble", "strcmp", "test"}
Templated == {"lookup", "insert", "replace", "setdest"}

\* The actions that take exactly one of `value` and `variable`.
TakesOperand == {"assign", "jump", "pauserestore", "rtp_echo"} \cup Arith

Known == {"ereg", "assignstr", "verifyauth", "closecon", "gettimeofday", "exec", "sample"}
             \cup Logs \cup InPlace \cup Conversed \cup Templated \cup TakesOperand

Media == {"rtp_stream", "rtp_echo", "play_dtmf"}
Pcap  == {"play_pcap_audio", "play_pcap_video", "play_pcap_image"}
Execs == Media \cup Pcap \cup {"int_cmd", "command"}

\* require_attr: without them there is no action.
Requires(do) ==
    CASE do = "ereg"        -> {"regexp", "assign_to"}
      [] do \in Logs        -> {"message"}
      [] do \in Arith \cup {"assign", "gettimeofday", "sample"} -> {"assign_to"}
      [] do = "assignstr"   -> {"assign_to", "value"}
      [] do = "verifyauth"  -> {"assign_to", "username", "password"}
      [] do = "strcmp"      -> {"assign_to", "variable", "value"}
      [] do = "test"        -> {"assign_to", "variable", "compare", "value"}
      [] do = "todouble"    -> {"assign_to", "variable"}
      [] do \in InPlace     -> {"variable"}
      [] do = "lookup"      -> {"assign_to", "file", "key"}
      [] do = "insert"      -> {"file", "value"}
      [] do = "replace"     -> {"file", "line", "value"}
      [] do = "setdest"     -> {"host", "port", "protocol"}
      [] OTHER              -> {}

Optional(do) ==
    CASE do = "ereg"         -> {"search_in", "header", "variable", "start_line", "check_it"}
      [] do = "exec"         -> Execs \cup {"play_pcap"}
      [] do = "sample"       -> {"distribution", "mean", "stdev", "value", "min", "max"}
      [] do \in TakesOperand -> {"value", "variable"}
      [] OTHER               -> {}

\* var_reads: the variables an action reads, also from a template.
ReadBy(a) ==
    CASE a.do = "ereg"         -> IF Text(a, "search_in") = "var"
                                    THEN VarsIn(a, {"variable"}) ELSE {}
      [] a.do \in Arith        -> VarsIn(a, {"assign_to", "variable"})
      [] a.do \in Logs         -> VarsIn(a, {"message"})
      [] a.do = "assignstr"    -> VarsIn(a, {"value"})
      [] a.do = "verifyauth"   -> VarsIn(a, {"username", "password"})
      [] a.do = "exec"         -> VarsIn(a, {"play_dtmf", "command"})
      [] a.do = "lookup"       -> VarsIn(a, {"file", "key"})
      [] a.do \in Templated    -> VarsIn(a, Requires(a.do))
      [] a.do \in TakesOperand \cup InPlace \cup Conversed -> VarsIn(a, {"variable"})
      [] OTHER                 -> {}

\* var_writes.
WrittenBy(a) ==
    IF a.do \in InPlace THEN VarsIn(a, {"variable"}) ELSE VarsIn(a, {"assign_to"})

\* At most one of the exec attributes, and none that is not supported.
ExecErrors(a) ==
    When(Cardinality(Given(a, Execs)) > 1, "one exec per action")
        \cup When(Has(a, "play_pcap"), "play_pcap was never implemented")
        \cup When(Malformed(a, Execs), "exec value")

EregErrors(a) ==
    When(Malformed(a, {"regexp"}), "bad pattern")
        \cup When(Text(a, "search_in") \notin {"", "msg", "hdr", "body", "var"}, "search_in")
        \cup When(Text(a, "search_in") = "var" /\ ~Has(a, "variable"), "ereg without variable")
        \cup When(Text(a, "search_in") = "hdr" /\ ~Has(a, "header"), "ereg without header")
        \cup When(Has(a, "assign_to") /\ VarsIn(a, {"assign_to"}) = {}, "ereg without result")
        \cup When(Malformed(a, {"start_line", "check_it"}), "not a boolean")

ActionErrors(a) ==
    When(a.do \notin Known, "unknown or unsupported action")
        \cup When(~(Requires(a.do) \subseteq DOMAIN a.attrs), "missing attribute")
        \cup When(a.do \in TakesOperand
                    /\ Cardinality(Given(a, {"value", "variable"})) # 1, "operand")
        \cup When(a.do \in TakesOperand \cup {"test"} /\ Malformed(a, {"value"}), "not a number")
        \cup When(a.do = "test" /\ Malformed(a, {"compare"}), "unknown comparison")
        \cup When(a.do = "gettimeofday" /\ Malformed(a, {"assign_to"}), "needs two variables")
        \cup When(a.do = "sample" /\ (~Has(a, "distribution") \/ Malformed(a, {"distribution"})),
                  "distribution")
        \cup (IF a.do = "exec" THEN ExecErrors(a) ELSE {})
        \cup (IF a.do = "ereg" THEN EregErrors(a) ELSE {})

ActionWarnings(a) ==
    When(a.do \in Known /\ ~(DOMAIN a.attrs \subseteq Requires(a.do) \cup Optional(a.do)),
         "unknown attribute")

\* Where the jumps among a step's actions go: to messages, through
\* _unexp.retaddr, or to where another variable says.
Jumps(actions) == {a \in actions : a.do = "jump" /\ ActionErrors(a) = {}}
JumpsTo(actions) == {a.attrs["value"].num : a \in {b \in Jumps(actions) : Has(b, "value")}}
JumpsThrough(actions) == UNION {a.attrs["variable"].vars : a \in {b \in Jumps(actions) : ~Has(b, "value")}}
=============================================================================
