----------------------------- MODULE MCScenario -----------------------------
(***************************************************************************)
(* Instances of ScenarioCompiler: the vocabularies of the runs.            *)
(***************************************************************************)
EXTENDS ScenarioReference, TLC

T(text) == [text |-> text, vars |-> {}, ok |-> TRUE, num |-> 0]
V(name) == [T(name) EXCEPT !.vars = {name}]
N(n) == [T("n") EXCEPT !.num = n]
Bad == [T("bad") EXCEPT !.ok = FALSE]

El(tag) == [tag |-> tag, attrs |-> [a \in {} |-> T("")], actions |-> {},
            body |-> T(""), odd |-> FALSE, hides |-> FALSE]
With(el, attr, value) == [el EXCEPT !.attrs = (attr :> value) @@ @]
Do(el, action) == [el EXCEPT !.actions = @ \cup {action}]
Says(el, text) == [el EXCEPT !.body = T(text)]

Act(do) == [do |-> do, attrs |-> [a \in {} |-> T("")]]
Jump(n) == With(Act("jump"), "value", N(n))
JumpBy(v) == With(Act("jump"), "variable", V(v))
Assign(v, w) == With(With(Act("assign"), "assign_to", V(v)), "variable", V(w))
Log(v) == With(Act("log"), "message", V(v))

Next_(el) == With(el, "next", T("end"))
Label(id) == With(El("label"), "id", T(id))
Send == Says(El("send"), "OPTIONS")
Recv == With(El("recv"), "response", T("200"))
Optional_(el) == With(el, "optional", T("true"))
Directive(lints) == [El("directive") EXCEPT !.body = [T("") EXCEPT !.vars = lints]]

Flow == {Send, Next_(El("nop")), Optional_(Recv),
         Do(With(Next_(Optional_(Recv)), "test", V("_unexp.retaddr")), Jump(3)),
         With(With(Recv, "timeout", N(9)), "ontimeout", T("end")),
         Label("end"), El("timewait"), Do(El("nop"), Jump(2))}

Handling == {Send, Recv, Label("_unexp.main"), Next_(El("nop")), Label("end"), El("pause"),
             Do(Do(El("nop"), JumpBy("_unexp.retaddr")),
                With(Act("pauserestore"), "variable", V("_unexp.pausedaddr"))),
             Do(El("nop"), JumpBy("_unexp.pausedaddr"))}

Variables == {Send, Do(El("nop"), Assign("v", "w")), Do(El("nop"), Assign("w", "v")),
              Do(El("nop"), Log("v")), With(El("Global"), "variables", V("w")),
              With(El("User"), "variables", V("w")), With(El("User"), "variables", V("v")),
              With(El("Reference"), "variables", V("v"))}

Transactions == {With(Says(El("send"), "INVITE"), "start_txn", T("t")),
                 With(Says(El("send"), "OPTIONS"), "start_txn", T("t")),
                 With(Says(El("send"), "ACK"), "ack_txn", T("t")),
                 With(Says(El("send"), "ACK"), "start_txn", T("t")),
                 With(Says(El("send"), "SIP/2.0"), "ack_txn", T("t")),
                 With(Recv, "response_txn", T("t")),
                 With(With(El("recv"), "request", T("BYE")), "response_txn", T("t")),
                 With(Send, "response_txn", T("t"))}

Directives == {Directive({"unreachable"}), Directive({"optional-window"}),
               [Directive({"unreachable"}) EXCEPT !.body.ok = FALSE],
               [Send EXCEPT !.hides = TRUE], El("timewait"), Optional_(Recv),
               With(El("User"), "variables", V("v"))}

Commands == {Says(El("sendCmd"), "cmd"), El("sendCmd"), El("recvCmd"), Optional_(El("recvCmd")),
             With(El("recvCmd"), "timeout", N(9)), El("nop"), Recv, Next_(Optional_(Recv)), Label("end")}

Faulty == {Send, El("unknown"), Next_(El("timewait")), Label("end"), El("label"),
           [Send EXCEPT !.odd = TRUE], With(Send, "chance", Bad), With(Send, "chance", N(1)),
           With(El("pause"), "ontimeout", T("end")),
           With(With(El("pause"), "milliseconds", N(1)), "variable", V("_unexp.retaddr")),
           With(El("ResponseTimeRepartition"), "value", Bad),
           With(El("CallLengthRepartition"), "value", N(9)),
           Do(Send, Act("index")), Do(Send, With(Act("ereg"), "regexp", T("x"))),
           Do(Send, With(With(Act("exec"), "int_cmd", T("x")), "command", T("y"))),
           Do(Send, Jump(7)), Do(Send, With(Act("test"), "value", Bad))}

AllVocabularies == {Flow, Handling, Variables, Transactions, Directives, Commands, Faulty}
=============================================================================
