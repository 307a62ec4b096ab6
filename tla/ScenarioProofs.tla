--------------------------- MODULE ScenarioProofs ---------------------------
(***************************************************************************)
(* Proofs about the scenario compiler, for documents of any length written *)
(* in any vocabulary.                                                      *)
(***************************************************************************)
EXTENDS ScenarioReference, FiniteSetTheorems, TLAPS

Proved == INSTANCE StepFlowProofs
              WITH Steps <- Unrestored(outcome.steps), Handler <- outcome.handler

-----------------------------------------------------------------------------
(* What each element adds to the compiler.                                 *)

\* A compiler has the fields of the first one.
Fields == {"steps", "labels", "pending", "scope", "read", "written", "txns", "allows",
           "directive", "misplaced", "errors", "warnings"}
TxnFields == {"invite", "started", "responses", "acks"}
IsCompiler(c) ==
    /\ c = [field \in Fields |-> c[field]]
    /\ \A t \in DOMAIN c.txns : /\ c.txns[t] = [field \in TxnFields |-> c.txns[t][field]]
                                 /\ c.txns[t].started \in Nat

\* The elements that act, and those that become a step.
Acts(el) == el.tag \in StepTags
Stepping(el) == Acts(el) \/ (el.tag = "label" /\ Has(el, "id"))

\* What stays as it was.
SameSteps(c, d) == d.steps = c.steps /\ d.labels = c.labels /\ d.pending = c.pending
SameRest(c, d) == d.allows = c.allows /\ d.directive = c.directive /\ d.misplaced = c.misplaced

LEMMA ReportsDoes ==
    ASSUME NEW c, IsCompiler(c), NEW errors, NEW warnings
    PROVE  LET d == Reports(c, errors, warnings)
           IN  /\ IsCompiler(d) /\ SameSteps(c, d) /\ SameRest(c, d)
               /\ d.errors = c.errors \cup errors
               /\ d.scope = c.scope /\ d.read = c.read /\ d.written = c.written
               /\ d.txns = c.txns
  BY DEF IsCompiler, Fields, Reports, SameSteps, SameRest

LEMMA ReadsDoes ==
    ASSUME NEW c, IsCompiler(c), NEW names
    PROVE  LET d == Reads(c, names)
           IN  /\ IsCompiler(d) /\ SameSteps(c, d) /\ SameRest(c, d)
               /\ d.errors = c.errors /\ d.txns = c.txns
               /\ d.scope = Interned(c, names) /\ d.read = c.read \cup names
               /\ d.written = c.written
  BY DEF IsCompiler, Fields, Reads, SameSteps, SameRest

LEMMA WritesDoes ==
    ASSUME NEW c, IsCompiler(c), NEW names
    PROVE  LET d == Writes(c, names)
           IN  /\ IsCompiler(d) /\ SameSteps(c, d) /\ SameRest(c, d)
               /\ d.errors = c.errors /\ d.txns = c.txns
               /\ d.scope = Interned(c, names) /\ d.read = c.read
               /\ d.written = c.written \cup names
  BY DEF IsCompiler, Fields, Writes, SameSteps, SameRest

\* The branches of an element that acts, when `n` steps stand before it.
BranchesOf(el, n) ==
    {[step |-> n + 1, slot |-> slot, label |-> Text(el, slot)] :
        slot \in IF el.tag = "timewait" THEN {} ELSE Given(el, {"next", "ontimeout"})}

WrittenIn(el) == UNION {WrittenBy(a) : a \in el.actions}

\* New variables are a call's.
ScopesGrow(c, d) ==
    /\ DOMAIN c.scope \subseteq DOMAIN d.scope
    /\ \A v \in DOMAIN d.scope : d.scope[v] = IF v \in DOMAIN c.scope THEN c.scope[v] ELSE "call"

\* What each step does to the compiler, its transactions left aside.
Adds(c, el, d) ==
    /\ IsCompiler(d) /\ SameRest(c, d) /\ c.errors \subseteq d.errors
    /\ d.steps = Append(c.steps, NewStep(el)) /\ d.labels = c.labels
    /\ d.pending = c.pending \cup BranchesOf(el, Len(c.steps))
    /\ el.tag = "timewait" /\ Given(el, {"next", "ontimeout"}) # {} => d.errors # {}
    /\ c.read \cup ReadIn(el) \subseteq d.read
    /\ d.written = c.written \cup WrittenIn(el)
    /\ ScopesGrow(c, d)

LEMMA InternedTwice ==
    ASSUME NEW c, NEW b, NEW names, NEW more, b.scope = Interned(c, names)
    PROVE  Interned(b, more) = Interned(c, names \cup more)
  BY DEF Interned

LEMMA EmitAdds ==
    ASSUME NEW c, IsCompiler(c), NEW el, NEW errors, NEW names
    PROVE  LET d == Emit(c, el, errors, names)
           IN  Adds(c, el, d) /\ d.txns = c.txns /\ errors \subseteq d.errors
  <1> DEFINE read == VarsIn(el, {"test", "condexec"}) \cup names
                         \cup UNION {ReadBy(a) : a \in el.actions}
             b == [c EXCEPT !.pending = @ \cup Branching(c, el),
                            !.steps = Append(@, NewStep(el))]
             r == Reads(b, read)
             w == Writes(r, WrittenIn(el))
             found == StepErrors(el) \cup errors
             told == StepWarnings(el)
             d == Reports(w, found, told)
  <1>1. /\ IsCompiler(b) /\ SameRest(c, b) /\ b.errors = c.errors
        /\ b.steps = Append(c.steps, NewStep(el)) /\ b.labels = c.labels
        /\ b.pending = c.pending \cup BranchesOf(el, Len(c.steps))
        /\ b.scope = c.scope /\ b.read = c.read /\ b.written = c.written /\ b.txns = c.txns
    BY DEF IsCompiler, Fields, SameRest, Branching, BranchesOf
  <1>2. /\ IsCompiler(r) /\ SameSteps(b, r) /\ SameRest(b, r) /\ r.errors = b.errors
        /\ r.txns = b.txns /\ r.scope = Interned(b, read) /\ r.read = b.read \cup read
        /\ r.written = b.written
    <2> HIDE DEF b
    <2> QED BY <1>1, ReadsDoes
  <1>3. /\ IsCompiler(w) /\ SameSteps(r, w) /\ SameRest(r, w) /\ w.errors = r.errors
        /\ w.txns = r.txns /\ w.scope = Interned(r, WrittenIn(el)) /\ w.read = r.read
        /\ w.written = r.written \cup WrittenIn(el)
    <2> HIDE DEF r
    <2> QED BY <1>2, WritesDoes
  <1>4. /\ IsCompiler(d) /\ SameSteps(w, d) /\ SameRest(w, d)
        /\ d.errors = w.errors \cup found
        /\ d.scope = w.scope /\ d.read = w.read /\ d.written = w.written
        /\ d.txns = w.txns
    <2> HIDE DEF w, found, told
    <2>1. IsCompiler(w)
      BY <1>3
    <2> QED BY <2>1, ReportsDoes
  <1>5. Emit(c, el, errors, names) = d
    BY DEF Emit, WrittenIn
  <1>6. Interned(b, read) = Interned(c, read)
    BY <1>1 DEF Interned
  <1> HIDE DEF b, r, w, d
  <1>7. d.scope = Interned(c, read \cup WrittenIn(el))
    BY <1>2, <1>3, <1>4, <1>6, InternedTwice
  <1>10. ScopesGrow(c, d)
    BY <1>7 DEF ScopesGrow, Interned
  <1>8. el.tag = "timewait" /\ Given(el, {"next", "ontimeout"}) # {} => d.errors # {}
    BY <1>4 DEF StepErrors, When
  <1>9. ReadIn(el) \subseteq read
    BY DEF ReadIn
  <1> QED
    BY <1>1, <1>2, <1>3, <1>4, <1>5, <1>10, <1>8, <1>9 DEF Adds, SameSteps, SameRest

\* A transaction some send starts, and one some response is expected for.
Starts(c, t) == t \in DOMAIN c.txns /\ c.txns[t].started # 0
Answers(c, t) == t \in DOMAIN c.txns /\ c.txns[t].responses # 0

\* What a use of a transaction leaves alone.
SameBut(c, d) ==
    /\ IsCompiler(d) /\ SameSteps(c, d) /\ SameRest(c, d) /\ d.errors = c.errors
    /\ d.scope = c.scope /\ d.read = c.read /\ d.written = c.written

LEMMA UsesDoes ==
    ASSUME NEW c, IsCompiler(c), NEW name, NEW use \in {"start", "ack", "response"}, NEW invite
    PROVE  LET d == Uses(c, name, use, invite)
           IN  /\ SameBut(c, d)
               /\ \A t : Starts(d, t) => Starts(c, t) \/ (t = name /\ use = "start")
               /\ \A t : Answers(d, t) => Answers(c, t) \/ (t = name /\ use = "response")
  <1> DEFINE txn == IF name \in DOMAIN c.txns THEN c.txns[name] ELSE NewTxn
             used == IF use = "start"
                       THEN [txn EXCEPT !.started = @ + 1, !.invite = invite]
                       ELSE IF use = "ack" THEN [txn EXCEPT !.acks = @ + 1]
                       ELSE [txn EXCEPT !.responses = @ + 1]
             txns == [t \in DOMAIN c.txns \cup {name} |-> IF t = name THEN used ELSE c.txns[t]]
             d == [c EXCEPT !.txns = txns]
  <1>1. txn = [field \in TxnFields |-> txn[field]]
    BY DEF IsCompiler, NewTxn, TxnFields
  <1>2. used = [field \in TxnFields |-> used[field]]
    BY <1>1 DEF TxnFields
  <1>13. used.started \in Nat
    <2>1. txn.started \in Nat
      BY DEF IsCompiler, NewTxn
    <2> QED BY <1>1, <2>1 DEF TxnFields
  <1>3. used.started # 0 => txn.started # 0 \/ use = "start"
    <2> HIDE DEF txn
    <2> QED BY <1>1 DEF TxnFields
  <1>4. used.responses # 0 => txn.responses # 0 \/ use = "response"
    <2> HIDE DEF txn
    <2> QED BY <1>1 DEF TxnFields
  <1>5. \A t \in DOMAIN txns : /\ txns[t] = [field \in TxnFields |-> txns[t][field]]
                               /\ txns[t].started \in Nat
    <2>1. ASSUME NEW t \in DOMAIN c.txns
          PROVE  c.txns[t] = [field \in TxnFields |-> c.txns[t][field]] /\ c.txns[t].started \in Nat
      BY DEF IsCompiler
    <2> HIDE DEF used
    <2> QED BY <1>2, <1>13, <2>1
  <1>6. Uses(c, name, use, invite) = d
    BY DEF Uses
  <1>7. DOMAIN txns = DOMAIN c.txns \cup {name} /\ txns[name] = used
        /\ \A t \in DOMAIN c.txns : t # name => txns[t] = c.txns[t]
    BY Zenon
  <1> HIDE DEF txns, used
  <1>8. SameBut(c, d) /\ d.txns = txns
    BY <1>5 DEF IsCompiler, Fields, SameBut, SameSteps, SameRest
  <1>9. txn.started # 0 => Starts(c, name)
    BY DEF NewTxn, Starts
  <1>10. txn.responses # 0 => Answers(c, name)
    BY DEF NewTxn, Answers
  <1> HIDE DEF txn, d
  <1>11. \A t : Starts(d, t) => Starts(c, t) \/ (t = name /\ use = "start")
    BY <1>3, <1>7, <1>8, <1>9 DEF Starts
  <1>12. \A t : Answers(d, t) => Answers(c, t) \/ (t = name /\ use = "response")
    BY <1>4, <1>7, <1>8, <1>10 DEF Answers
  <1> QED BY <1>6, <1>8, <1>11, <1>12

\* What a declaration of `scope` does to the variables' scopes.
Declared(c, el, scope, d) ==
    LET names == VarsIn(el, {"variables"}) IN
    /\ DOMAIN d.scope = DOMAIN c.scope \cup names
    /\ \A v \in DOMAIN d.scope :
          \/ v \in DOMAIN c.scope /\ d.scope[v] = c.scope[v]
          \/ v \in names /\ d.scope[v] = scope
    /\ \A v \in DOMAIN c.scope \ names : d.scope[v] = c.scope[v]
    /\ d.errors = {} => \A v \in names : /\ d.scope[v] = scope
                                         /\ v \in DOMAIN c.scope => c.scope[v] \in {"call", scope}

IsLabel(el) == el.tag = "label" /\ Has(el, "id")

\* What an element must not be.
Refused(c, el) ==
    \/ el.tag = "timewait" /\ Given(el, {"next", "ontimeout"}) # {}
    \/ el.tag = "label" /\ (~Has(el, "id") \/ Text(el, "id") \in DOMAIN c.labels)

\* What compile_element does, a part at a time.
TakesSteps(c, el, d) ==
    /\ d.steps = IF Stepping(el) THEN Append(c.steps, NewStep(el)) ELSE c.steps
    /\ d.pending = IF Acts(el) THEN c.pending \cup BranchesOf(el, Len(c.steps)) ELSE c.pending
    /\ d.labels = IF IsLabel(el) THEN Placed(c.labels, Text(el, "id"), Len(c.steps) + 1)
                  ELSE c.labels

TakesVariables(c, el, d) ==
    /\ c.read \cup (IF Acts(el) THEN ReadIn(el) ELSE {}) \subseteq d.read
    /\ d.written = c.written \cup (IF Acts(el) THEN WrittenIn(el) ELSE {})
    /\ el.tag = "Global" => Declared(c, el, "global", d)
    /\ el.tag = "User" => Declared(c, el, "user", d)
    /\ el.tag \notin {"Global", "User"} => ScopesGrow(c, d)

TakesTxns(c, el, d) ==
    /\ \A t : Starts(d, t) => Starts(c, t) \/ (el.tag = "send" /\ Text(el, "start_txn") = t)
    /\ \A t : Answers(d, t) => Answers(c, t) \/ (el.tag = "recv" /\ Text(el, "response_txn") = t)

Takes(c, el, d) ==
    /\ IsCompiler(d) /\ SameRest(c, d) /\ c.errors \subseteq d.errors
    /\ Refused(c, el) => d.errors # {}
    /\ TakesSteps(c, el, d) /\ TakesVariables(c, el, d) /\ TakesTxns(c, el, d)

\* A step without transactions, and what may be used before or after it.
LEMMA ActsTake ==
    ASSUME NEW c, IsCompiler(c), NEW el, Acts(el), NEW d, Adds(c, el, d)
    PROVE  /\ IsCompiler(d) /\ SameRest(c, d) /\ c.errors \subseteq d.errors
           /\ Refused(c, el) => d.errors # {}
           /\ TakesSteps(c, el, d) /\ TakesVariables(c, el, d)
  <1>1. el.tag \notin {"label", "Global", "User"} /\ Stepping(el) /\ ~IsLabel(el)
    BY DEF Acts, StepTags, Stepping, IsLabel
  <1>2. TakesSteps(c, el, d)
    BY <1>1 DEF Adds, TakesSteps
  <1>3. TakesVariables(c, el, d)
    BY <1>1 DEF Adds, TakesVariables
  <1> QED BY <1>1, <1>2, <1>3 DEF Adds, Refused

LEMMA SendTakes ==
    ASSUME NEW c, IsCompiler(c), NEW el, el.tag = "send"
    PROVE  Takes(c, el, CompileSend(c, el))
  <1> DEFINE errors == When(el.body.text = "", "no body") \cup SendTxnErrors(el)
             names == el.body.vars
             b == Emit(c, el, errors, names)
             d == SendsTxn(b, el)
  <1>1. Adds(c, el, b) /\ b.txns = c.txns
    <2> HIDE DEF errors, names
    <2> QED BY EmitAdds
  <1>2. IsCompiler(b)
    BY <1>1 DEF Adds
  <1> HIDE DEF b
  <1>3. /\ SameBut(b, d)
        /\ \A t : Starts(d, t) => Starts(b, t) \/ t = Text(el, "start_txn")
        /\ \A t : Answers(d, t) => Answers(b, t)
    <2>1. CASE d = b
      BY <1>2, <2>1 DEF SameBut, SameSteps, SameRest
    <2>2. CASE d = Uses(b, Text(el, "start_txn"), "start", el.body.text = "INVITE")
      <3> DEFINE name == Text(el, "start_txn")
                 invite == el.body.text = "INVITE"
                 u == Uses(b, name, "start", invite)
      <3>1. /\ SameBut(b, u)
            /\ \A t : Starts(u, t) => Starts(b, t) \/ (t = name /\ "start" = "start")
            /\ \A t : Answers(u, t) => Answers(b, t) \/ (t = name /\ "start" = "response")
        <4> HIDE DEF name, invite
        <4> QED BY <1>2, UsesDoes
      <3> QED BY <2>2, <3>1
    <2>3. CASE d = Uses(b, Text(el, "ack_txn"), "ack", FALSE)
      <3> DEFINE name == Text(el, "ack_txn")
                 u == Uses(b, name, "ack", FALSE)
      <3>1. /\ SameBut(b, u)
            /\ \A t : Starts(u, t) => Starts(b, t) \/ (t = name /\ "ack" = "start")
            /\ \A t : Answers(u, t) => Answers(b, t) \/ (t = name /\ "ack" = "response")
        <4> HIDE DEF name
        <4> QED BY <1>2, UsesDoes
      <3> QED BY <2>3, <3>1
    <2> QED BY <2>1, <2>2, <2>3 DEF SendsTxn
  <1>4. CompileSend(c, el) = d
    BY DEF CompileSend, b
  <1>5. Adds(c, el, d)
    BY <1>1, <1>3 DEF Adds, SameBut, SameSteps, SameRest, ScopesGrow
  <1>6. TakesTxns(c, el, d)
    BY <1>1, <1>3 DEF TakesTxns, Starts, Answers
  <1>7. Acts(el)
    BY DEF Acts, StepTags
  <1> QED BY <1>4, <1>5, <1>6, <1>7, ActsTake DEF Takes

LEMMA RecvTakes ==
    ASSUME NEW c, IsCompiler(c), NEW el, el.tag = "recv"
    PROVE  Takes(c, el, CompileRecv(c, el))
  <1> DEFINE name == Text(el, "response_txn")
             u == Uses(c, name, "response", FALSE)
             b == IF Has(el, "response_txn") /\ ~Has(el, "request") THEN u ELSE c
             errors == RecvErrors(el)
             d == Emit(b, el, errors, {})
  <1>1. /\ SameBut(c, u)
        /\ \A t : Starts(u, t) => Starts(c, t) \/ (t = name /\ "response" = "start")
        /\ \A t : Answers(u, t) => Answers(c, t) \/ (t = name /\ "response" = "response")
    <2> HIDE DEF name
    <2> QED BY UsesDoes
  <1>2. /\ SameBut(c, b)
        /\ \A t : Starts(b, t) => Starts(c, t)
        /\ \A t : Answers(b, t) => Answers(c, t) \/ t = name
    <2>1. SameBut(c, c)
      BY DEF SameBut, SameSteps, SameRest
    <2> HIDE DEF u, name
    <2> QED BY <1>1, <2>1
  <1>3. CompileRecv(c, el) = d
    BY DEF CompileRecv
  <1> HIDE DEF b, errors, u
  <1>4. Adds(b, el, d) /\ d.txns = b.txns
    BY <1>2, EmitAdds DEF SameBut
  <1>5. Adds(c, el, d)
    BY <1>2, <1>4 DEF Adds, SameBut, SameSteps, SameRest, ScopesGrow
  <1>6. TakesTxns(c, el, d)
    BY <1>2, <1>4 DEF TakesTxns, Starts, Answers
  <1>7. Acts(el)
    BY DEF Acts, StepTags
  <1> QED BY <1>3, <1>5, <1>6, <1>7, ActsTake DEF Takes

\* Every other step.
LEMMA EmitTakes ==
    ASSUME NEW c, IsCompiler(c), NEW el, Acts(el), NEW errors, NEW names
    PROVE  Takes(c, el, Emit(c, el, errors, names))
  <1> DEFINE d == Emit(c, el, errors, names)
  <1>1. Adds(c, el, d) /\ d.txns = c.txns
    BY EmitAdds
  <1> HIDE DEF d
  <1>2. TakesTxns(c, el, d)
    BY <1>1 DEF TakesTxns, Starts, Answers
  <1>3. Takes(c, el, d)
    BY <1>1, <1>2, ActsTake DEF Takes
  <1> QED BY <1>3 DEF d

LEMMA LabelTakes ==
    ASSUME NEW c, IsCompiler(c), NEW el, el.tag = "label"
    PROVE  Takes(c, el, CompileLabel(c, el))
  <1>0. ~Acts(el) /\ (Stepping(el) <=> Has(el, "id")) /\ (IsLabel(el) <=> Has(el, "id"))
    BY DEF Acts, StepTags, Stepping, IsLabel
  <1> DEFINE labels == Placed(c.labels, Text(el, "id"), Len(c.steps) + 1)
             b == [c EXCEPT !.labels = labels, !.steps = Append(@, NewStep(el))]
             errors == IF Has(el, "id")
                         THEN When(Text(el, "id") \in DOMAIN c.labels, "duplicate label")
                         ELSE {"label without id"}
             from == IF Has(el, "id") THEN b ELSE c
             d == Reports(from, errors, {})
  <1>1. CompileLabel(c, el) = d
    BY DEF CompileLabel
  <1>2. /\ IsCompiler(b) /\ SameRest(c, b) /\ b.errors = c.errors
        /\ b.steps = Append(c.steps, NewStep(el)) /\ b.labels = labels
        /\ b.pending = c.pending
        /\ b.scope = c.scope /\ b.read = c.read /\ b.written = c.written /\ b.txns = c.txns
    <2> HIDE DEF labels
    <2> QED BY DEF IsCompiler, Fields, SameRest
  <1>3. /\ IsCompiler(from) /\ SameRest(c, from) /\ from.errors = c.errors
        /\ TakesSteps(c, el, from)
        /\ from.scope = c.scope /\ from.read = c.read /\ from.written = c.written
        /\ from.txns = c.txns
    <2>1. SameRest(c, c)
      BY DEF SameRest
    <2> HIDE DEF b
    <2> QED BY <1>0, <1>2, <2>1 DEF TakesSteps
  <1>4. Refused(c, el) => errors # {}
    BY DEF Refused, When
  <1> HIDE DEF from, errors
  <1>5. /\ IsCompiler(d) /\ SameSteps(from, d) /\ SameRest(from, d)
        /\ d.errors = from.errors \cup errors
        /\ d.scope = from.scope /\ d.read = from.read /\ d.written = from.written
        /\ d.txns = from.txns
    <2>1. IsCompiler(from)
      BY <1>3
    <2> QED BY <2>1, ReportsDoes
  <1> HIDE DEF d
  <1>6. TakesSteps(c, el, d)
    BY <1>3, <1>5 DEF TakesSteps, SameSteps
  <1>7. TakesVariables(c, el, d)
    BY <1>0, <1>3, <1>5 DEF TakesVariables, ScopesGrow
  <1>8. TakesTxns(c, el, d)
    BY <1>3, <1>5 DEF TakesTxns, Starts, Answers
  <1> QED BY <1>1, <1>3, <1>4, <1>5, <1>6, <1>7, <1>8 DEF Takes, SameRest

\* What is no step and declares nothing: it may read variables, or be reported.
LEMMA IdleTakes ==
    ASSUME NEW c, IsCompiler(c), NEW el, el.tag \notin StepTags \cup {"label", "Global", "User"},
           NEW b, IsCompiler(b), SameSteps(c, b), SameRest(c, b), b.errors = c.errors,
           c.read \subseteq b.read, b.written = c.written, ScopesGrow(c, b), b.txns = c.txns,
           NEW errors
    PROVE  Takes(c, el, Reports(b, errors, {}))
  <1>0. ~Acts(el) /\ ~Stepping(el) /\ ~IsLabel(el) /\ ~Refused(c, el)
    BY DEF Acts, StepTags, Stepping, IsLabel, Refused
  <1> DEFINE d == Reports(b, errors, {})
  <1>1. /\ IsCompiler(d) /\ SameSteps(b, d) /\ SameRest(b, d)
        /\ d.errors = b.errors \cup errors
        /\ d.scope = b.scope /\ d.read = b.read /\ d.written = b.written
        /\ d.txns = b.txns
    BY ReportsDoes
  <1> HIDE DEF d
  <1>2. TakesSteps(c, el, d)
    BY <1>0, <1>1 DEF TakesSteps, SameSteps
  <1>3. TakesVariables(c, el, d)
    BY <1>0, <1>1 DEF TakesVariables, ScopesGrow
  <1>4. TakesTxns(c, el, d)
    BY <1>1 DEF TakesTxns, Starts, Answers
  <1>5. Takes(c, el, d)
    BY <1>0, <1>1, <1>2, <1>3, <1>4 DEF Takes, SameRest
  <1> QED BY <1>5 DEF d

LEMMA RefersTakes ==
    ASSUME NEW c, IsCompiler(c), NEW el, el.tag = "Reference"
    PROVE  Takes(c, el, Refers(c, el))
  <1> DEFINE names == VarsIn(el, {"variables"})
             errors == When(names = {}, "missing attribute")
             b == Reads(c, names)
  <1>1. /\ IsCompiler(b) /\ SameSteps(c, b) /\ SameRest(c, b)
        /\ b.errors = c.errors /\ b.txns = c.txns
        /\ b.scope = Interned(c, names) /\ b.read = c.read \cup names
        /\ b.written = c.written
    BY ReadsDoes
  <1>2. Refers(c, el) = Reports(b, errors, {})
    BY DEF Refers
  <1> HIDE DEF b, errors, names
  <1>3. ScopesGrow(c, b)
    BY <1>1 DEF ScopesGrow, Interned
  <1>4. el.tag \notin StepTags \cup {"label", "Global", "User"} /\ c.read \subseteq b.read
    BY <1>1 DEF StepTags
  <1> QED BY <1>1, <1>2, <1>3, <1>4, IdleTakes

LEMMA ReportTakes ==
    ASSUME NEW c, IsCompiler(c), NEW el, el.tag \notin StepTags \cup {"label", "Global", "User"},
           NEW errors
    PROVE  Takes(c, el, Reports(c, errors, {}))
  <1>1. ScopesGrow(c, c) /\ SameSteps(c, c) /\ SameRest(c, c)
    BY DEF ScopesGrow, SameSteps, SameRest
  <1> QED BY <1>1, IdleTakes

LEMMA DeclaresTakes ==
    ASSUME NEW c, IsCompiler(c), NEW el, NEW scope,
           <<el.tag, scope>> \in {<<"Global", "global">>, <<"User", "user">>}
    PROVE  Takes(c, el, Declares(c, el, scope))
  <1>0. ~Acts(el) /\ ~Stepping(el) /\ ~IsLabel(el) /\ ~Refused(c, el)
    BY DEF Acts, StepTags, Stepping, IsLabel, Refused
  <1> DEFINE names == VarsIn(el, {"variables"})
             clash == {v \in names \cap DOMAIN c.scope : c.scope[v] \notin {"call", scope}}
             early == {v \in names \cap DOMAIN c.scope : c.scope[v] = "call"}
             known == Interned(c, names)
             scopes == [v \in DOMAIN known |-> IF v \in names \ clash THEN scope ELSE known[v]]
             b == [c EXCEPT !.scope = scopes]
             errors == When(~Has(el, "variables"), "missing attribute")
                           \cup When(clash # {}, "two scopes")
             warnings == When(early # {}, "used before its declaration")
             d == Reports(b, errors, warnings)
  <1>1. Declares(c, el, scope) = d
    BY DEF Declares
  <1>2. /\ DOMAIN scopes = DOMAIN c.scope \cup names
        /\ \A v \in names \ clash : scopes[v] = scope
        /\ \A v \in DOMAIN c.scope \ names : scopes[v] = c.scope[v]
        /\ \A v \in clash : scopes[v] = c.scope[v] /\ v \in DOMAIN c.scope
    <2>1. DOMAIN known = DOMAIN c.scope \cup names
          /\ \A v \in DOMAIN c.scope : known[v] = c.scope[v]
      BY DEF Interned
    <2> HIDE DEF known, names
    <2> QED BY <2>1
  <1>3. clash # {} => errors # {}
    BY DEF When
  <1>4. \A v \in names \ clash : v \in DOMAIN c.scope => c.scope[v] \in {"call", scope}
    OBVIOUS
  <1>5. clash \subseteq names
    OBVIOUS
  <1> HIDE DEF scopes, errors, warnings, clash
  <1>6. /\ IsCompiler(b) /\ SameSteps(c, b) /\ SameRest(c, b)
        /\ b.errors = c.errors /\ b.txns = c.txns
        /\ b.scope = scopes /\ b.read = c.read /\ b.written = c.written
    BY DEF IsCompiler, Fields, SameSteps, SameRest
  <1> HIDE DEF b
  <1>7. /\ IsCompiler(d) /\ SameSteps(b, d) /\ SameRest(b, d)
        /\ d.errors = b.errors \cup errors
        /\ d.scope = b.scope /\ d.read = b.read /\ d.written = b.written
        /\ d.txns = b.txns
    <2>1. IsCompiler(b)
      BY <1>6
    <2> QED BY <2>1, ReportsDoes
  <1> HIDE DEF d
  <1>8. Declared(c, el, scope, d)
    <2>1. d.scope = scopes /\ (d.errors = {} => clash = {})
      BY <1>3, <1>6, <1>7
    <2> HIDE DEF names
    <2>2. \A v \in DOMAIN d.scope :
             \/ v \in DOMAIN c.scope /\ d.scope[v] = c.scope[v]
             \/ v \in names /\ d.scope[v] = scope
      BY <1>2, <1>5, <2>1
    <2>3. d.errors = {} => \A v \in names : /\ d.scope[v] = scope
                                            /\ v \in DOMAIN c.scope => c.scope[v] \in {"call", scope}
      BY <1>2, <1>4, <2>1
    <2> QED BY <1>2, <2>1, <2>2, <2>3 DEF Declared, names
  <1>9. TakesSteps(c, el, d)
    BY <1>0, <1>6, <1>7 DEF TakesSteps, SameSteps
  <1>10. TakesVariables(c, el, d)
    BY <1>0, <1>6, <1>7, <1>8 DEF TakesVariables
  <1>11. TakesTxns(c, el, d)
    BY <1>6, <1>7 DEF TakesTxns, Starts, Answers
  <1> QED BY <1>0, <1>1, <1>6, <1>7, <1>9, <1>10, <1>11 DEF Takes, SameRest

LEMMA CompiledTakes ==
    ASSUME NEW c, IsCompiler(c), NEW el, el.tag # "directive"
    PROVE  Takes(c, el, Compiled(c, el))
  <1>1. CASE el.tag = "send"
    BY <1>1, SendTakes DEF Compiled
  <1>2. CASE el.tag = "recv"
    BY <1>2, RecvTakes DEF Compiled
  <1>3. CASE el.tag \in {"pause", "timewait"}
    <2>1. Acts(el)
      BY <1>3 DEF Acts, StepTags
    <2> DEFINE errors == When(Cardinality(Given(el, {"milliseconds", "variable", "distribution"})) > 1,
                              "one length")
               names == VarsIn(el, {"variable"})
    <2>2. Compiled(c, el) = Emit(c, el, errors, names)
      BY <1>3 DEF Compiled, CompilePause
    <2> HIDE DEF errors, names
    <2> QED BY <2>1, <2>2, EmitTakes
  <1>4. CASE el.tag = "sendCmd"
    <2>1. Acts(el)
      BY <1>4 DEF Acts, StepTags
    <2> DEFINE errors == When(el.body.text = "", "no body")
               names == el.body.vars
    <2>2. Compiled(c, el) = Emit(c, el, errors, names)
      BY <1>4 DEF Compiled, CompileSendCmd
    <2> HIDE DEF errors, names
    <2> QED BY <2>1, <2>2, EmitTakes
  <1>5. CASE el.tag \in {"nop", "recvCmd"}
    <2>1. Acts(el)
      BY <1>5 DEF Acts, StepTags
    <2>2. Compiled(c, el) = Emit(c, el, {}, {})
      BY <1>5 DEF Compiled, CompileOther
    <2> QED BY <2>1, <2>2, EmitTakes
  <1>6. CASE el.tag = "label"
    BY <1>6, LabelTakes DEF Compiled
  <1>7. CASE el.tag = "Global"
    <2>1. Compiled(c, el) = Declares(c, el, "global")
      BY <1>7 DEF Compiled
    <2> QED BY <1>7, <2>1, DeclaresTakes
  <1>8. CASE el.tag = "User"
    <2>1. Compiled(c, el) = Declares(c, el, "user")
      BY <1>8 DEF Compiled
    <2> QED BY <1>8, <2>1, DeclaresTakes
  <1>9. CASE el.tag = "Reference"
    BY <1>9, RefersTakes DEF Compiled
  <1>10. CASE el.tag \notin StepTags \cup {"label", "Global", "User", "Reference"}
    <2> DEFINE bucket == When(~Has(el, "value") \/ Malformed(el, {"value"}), "bucket")
               errors == IF el.tag \in {"ResponseTimeRepartition", "CallLengthRepartition"}
                           THEN bucket ELSE {"unknown element"}
    <2>1. Compiled(c, el) = Reports(c, errors, {})
      BY <1>10 DEF Compiled, Buckets, StepTags
    <2> HIDE DEF errors
    <2> QED BY <1>10, <2>1, ReportTakes
  <1> QED
    BY <1>1, <1>2, <1>3, <1>4, <1>5, <1>6, <1>7, <1>8, <1>9, <1>10 DEF StepTags

-----------------------------------------------------------------------------
(* A step, as it is made.                                                  *)

\* Numbers that finitely many things have are bounded.
LEMMA FinitelyManyAreBounded ==
    ASSUME NEW S, IsFiniteSet(S), NEW g \in [S -> Nat]
    PROVE  \E b \in Nat : \A x \in S : g[x] <= b
  <1> DEFINE n == Cardinality(S)
  <1>1. n \in Nat /\ ExistsBijection(1..n, S)
    BY FS_CardinalityType
  <1> HIDE DEF n
  <1>2. PICK f \in [1..n -> S] : \A x \in S : \E i \in 1..n : f[i] = x
    BY <1>1 DEF ExistsBijection, Bijection, Injection, Surjection
  <1> DEFINE Below(m, b) == \A i \in 1..m : g[f[i]] <= b
             Unbounded == {m \in 0..n : ~ \E b \in Nat : Below(m, b)}
  <1>3. Unbounded = {}
    <2> SUFFICES ASSUME Unbounded # {} PROVE FALSE
      OBVIOUS
    <2>1. PICK m \in Unbounded : \A k \in Unbounded : m <= k
      <3>1. Unbounded \in SUBSET Nat
        BY <1>1
      <3> HIDE DEF Unbounded
      <3> QED BY <3>1, Proved!LeastNatural
    <2>2. m \in 0..n /\ ~ \E b \in Nat : Below(m, b)
      OBVIOUS
    <2>3. m # 0
      <3>1. Below(0, 0)
        OBVIOUS
      <3> QED BY <2>2, <3>1
    <2>4. PICK b \in Nat : Below(m - 1, b)
      <3>1. m - 1 \in 0..n /\ ~ (m <= m - 1)
        BY <1>1, <2>2, <2>3
      <3>2. m - 1 \notin Unbounded
        BY <2>1, <3>1
      <3> QED BY <3>1, <3>2
    <2>5. g[f[m]] \in Nat
      <3>1. m \in 1..n
        BY <1>1, <2>2, <2>3
      <3> QED BY <1>2, <3>1
    <2>6. PICK most \in Nat : b <= most /\ g[f[m]] <= most
      <3>1. \A x, y \in Nat : (x <= x /\ y <= x) \/ (x <= y /\ y <= y)
        OBVIOUS
      <3> QED BY <2>5, <3>1
    <2>7. Below(m, most)
      <3> SUFFICES ASSUME NEW i \in 1..m PROVE g[f[i]] <= most
        OBVIOUS
      <3>1. CASE i = m
        BY <2>6, <3>1
      <3>2. CASE i # m
        <4>1. i \in 1..m - 1 /\ i \in 1..n
          BY <1>1, <2>2, <3>2
        <4>2. g[f[i]] <= b /\ g[f[i]] \in Nat
          BY <1>2, <2>4, <4>1
        <4>3. \A x, y, z \in Nat : x <= y /\ y <= z => x <= z
          OBVIOUS
        <4> QED BY <2>6, <4>2, <4>3
      <3> QED BY <3>1, <3>2
    <2> QED BY <2>2, <2>6, <2>7
  <1>4. PICK b \in Nat : Below(n, b)
    <2>1. n \in 0..n
      BY <1>1
    <2> QED BY <1>3, <2>1
  <1>5. \A x \in S : g[x] <= b
    BY <1>2, <1>4
  <1> QED BY <1>5

\* The greatest jump of a step's actions is one of them, or none.
Numbered(actions) == {0} \cup {n + 1 : n \in JumpsTo(actions)}

LEMMA GreatestJump ==
    ASSUME NEW el, IsElement(el)
    PROVE  /\ JumpsTo(el.actions) \subseteq Nat
           /\ Max(Numbered(el.actions)) \in Numbered(el.actions)
           /\ \A n \in Numbered(el.actions) : n <= Max(Numbered(el.actions))
  <1> DEFINE S == {a \in Jumps(el.actions) : Has(a, "value")}
             g == [a \in S |-> a.attrs["value"].num + 1]
  <1>1. IsFiniteSet(S)
    <2>1. IsFiniteSet(el.actions) /\ S \in SUBSET el.actions
      BY DEF IsElement, Jumps
    <2> HIDE DEF S
    <2> QED BY <2>1, FS_Subset
  <1>2. \A a \in S : a.attrs["value"].num \in Nat
    <2> SUFFICES ASSUME NEW a \in S PROVE a.attrs["value"].num \in Nat
      OBVIOUS
    <2>1. a \in el.actions /\ "value" \in DOMAIN a.attrs
      BY DEF Jumps, Has
    <2>2. a.attrs["value"] \in Value
      BY <2>1 DEF IsElement, HasValues
    <2> QED BY <2>2 DEF Value
  <1>3. g \in [S -> Nat]
    BY <1>2
  <1>4. Numbered(el.actions) = {0} \cup {g[a] : a \in S}
    BY DEF Numbered, JumpsTo
  <1>5. JumpsTo(el.actions) \subseteq Nat
    BY <1>2 DEF JumpsTo
  <1>6. PICK b \in Nat : \A a \in S : g[a] <= b
    <2> HIDE DEF S, g
    <2> QED BY <1>1, <1>3, FinitelyManyAreBounded
  <1> HIDE DEF S, g
  <1>7. /\ Numbered(el.actions) \in SUBSET Nat /\ Numbered(el.actions) # {}
        /\ \A y \in Numbered(el.actions) : y <= b
    BY <1>3, <1>4, <1>6
  <1>8. /\ Proved!Max(Numbered(el.actions)) \in Numbered(el.actions)
        /\ \A y \in Numbered(el.actions) : Proved!Max(Numbered(el.actions)) >= y
    BY <1>7, Proved!MaxExists
  <1>9. Proved!Max(Numbered(el.actions)) = Max(Numbered(el.actions))
    BY DEF Max, Proved!Max
  <1>10. \A y \in Numbered(el.actions) : y \in Nat /\ Max(Numbered(el.actions)) >= y
    BY <1>7, <1>8, <1>9
  <1> QED BY <1>5, <1>7, <1>8, <1>9, <1>10

LEMMA NewStepIsStep ==
    ASSUME NEW el, IsElement(el), Stepping(el)
    PROVE  NewStep(el) \in Step
  <1>1. \A attr : Text(el, attr) \in STRING
    <2> SUFFICES ASSUME NEW attr PROVE Text(el, attr) \in STRING
      OBVIOUS
    <2>1. CASE Has(el, attr)
      <3>1. \A name \in DOMAIN el.attrs : el.attrs[name] \in Value
        BY DEF IsElement, HasValues
      <3>2. el.attrs[attr] \in Value
        BY <2>1, <3>1 DEF Has
      <3> QED BY <2>1, <3>2 DEF Text, Value
    <2>2. CASE ~Has(el, attr)
      <3>1. Text(el, attr) = ""
        BY <2>2 DEF Text
      <3> QED BY <3>1, TextAssumption
    <2> QED BY <2>1, <2>2
  <1>2. el.tag \in {"send", "recv", "pause", "nop", "sendCmd", "recvCmd", "label", "timewait"}
    BY DEF Stepping, Acts, StepTags
  <1>3. Max({0} \cup {n + 1 : n \in JumpsTo(el.actions)}) \in Nat
    <2>1. JumpsTo(el.actions) \subseteq Nat /\ Max(Numbered(el.actions)) \in Numbered(el.actions)
      BY GreatestJump
    <2>2. Numbered(el.actions) \subseteq Nat
      BY <2>1 DEF Numbered
    <2>3. Max(Numbered(el.actions)) \in Nat
      BY <2>1, <2>2
    <2> QED BY <2>3 DEF Numbered
  <1>4. Has(el, "request") \in BOOLEAN /\ Has(el, "retrans") \in BOOLEAN /\ Has(el, "timeout") \in BOOLEAN
        /\ Has(el, "test") \in BOOLEAN /\ Has(el, "chance") \in BOOLEAN /\ Has(el, "condexec") \in BOOLEAN
    BY DEF Has
  <1> QED BY <1>1, <1>2, <1>3, <1>4 DEF NewStep, Step

-----------------------------------------------------------------------------
(* The inductive invariant: what the compiler gathered is what the document *)
(* says so far, and an outcome is made of what it gathered.                 *)

\* Steps are the elements that become one, in their order.
StepsFollow ==
    /\ compiler.steps \in Seq(Step) /\ Len(compiler.steps) = Cardinality(StepElements)
    /\ \A k \in StepElements : /\ PlaceOf(k) \in DOMAIN compiler.steps
                               /\ compiler.steps[PlaceOf(k)] = NewStep(document[k])
    /\ \A j, k \in StepElements : j < k => PlaceOf(j) < PlaceOf(k)
    /\ \A i \in DOMAIN compiler.steps : \E k \in StepElements : PlaceOf(k) = i

\* A branch waits for its label, with the place of its step.
BranchesWait ==
    compiler.pending = UNION {BranchesOf(document[k], PlaceOf(k) - 1) : k \in MessageElements}

\* Without an error, labels are at their places, and no two have one name.
LabelsStand ==
    compiler.errors = {} =>
        /\ \A k \in DOMAIN document : document[k].tag = "label" =>
              LET id == Text(document[k], "id") IN
              /\ Has(document[k], "id") /\ id \in DOMAIN compiler.labels
              /\ compiler.labels[id] = PlaceOf(k)
        /\ \A l \in DOMAIN compiler.labels : LabelElements(l) # {}
        /\ \A k \in DOMAIN document : document[k].tag = "timewait" =>
              Given(document[k], {"next", "ontimeout"}) = {}

DeclaredAs(tag, v) ==
    \E k \in DOMAIN document : document[k].tag = tag /\ v \in VarsIn(document[k], {"variables"})

\* What is read and written is known, and a scope is what was declared.
VariablesKnown ==
    /\ \A k \in MessageElements : ReadIn(document[k]) \subseteq compiler.read
    /\ \A v \in compiler.written : \E k \in MessageElements : v \in WrittenIn(document[k])
    /\ \A v \in DOMAIN compiler.scope :
          /\ compiler.scope[v] \in {"call", "global", "user"}
          /\ compiler.scope[v] = "global" => DeclaredAs("Global", v)
          /\ compiler.scope[v] = "user" => DeclaredAs("User", v)
    /\ compiler.errors = {} =>
          \A k \in DOMAIN document : \A v \in VarsIn(document[k], {"variables"}) :
              /\ document[k].tag = "Global" => v \in DOMAIN compiler.scope /\ compiler.scope[v] = "global"
              /\ document[k].tag = "User" => v \in DOMAIN compiler.scope /\ compiler.scope[v] = "user"

\* Transactions were started and answered by elements.
TransactionsKnown ==
    \A t \in DOMAIN compiler.txns :
        /\ Starts(compiler, t) => \E k \in StepElements :
              document[k].tag = "send" /\ Text(document[k], "start_txn") = t
        /\ Answers(compiler, t) => \E k \in StepElements :
              document[k].tag = "recv" /\ Text(document[k], "response_txn") = t

\* The lints the directives right before element k allow.
AllowedAt(k) == UNION {document[j].body.vars : j \in DirectivesBefore(k)}

\* The directives that wait are those nothing follows, and a step is allowed what
\* those right before it allow.
DirectivesWait ==
    LET next == Len(document) + 1 IN
    /\ compiler.directive = IF DirectivesBefore(next) = {} THEN NoDirective ELSE AllowedAt(next)
    /\ \A allow \in compiler.allows : allow.step \in DOMAIN compiler.steps
    /\ \A k \in StepElements :
          UNION {allow.lints : allow \in {a \in compiler.allows : a.step = PlaceOf(k)}} = AllowedAt(k)

\* An outcome is made of what was gathered.
OutcomeFollows ==
    IsCompiled =>
        /\ compiler.errors = {} /\ FinishErrors(compiler) = {}
        /\ outcome.steps = Resolved(compiler)
        /\ outcome.handler = LabelOf(compiler, "_unexp.main")
        /\ outcome.scope = compiler.scope
        /\ outcome.txns = DOMAIN compiler.txns
        /\ Lint => \A f \in Findings(outcome.steps, outcome.handler) :
                       f \in outcome.lints <=> ~Allowed(compiler, f)

DocumentRead == words \in Vocabularies /\ document \in Seq(UNION Vocabularies)

Gathered ==
    /\ StepsFollow /\ BranchesWait /\ LabelsStand
    /\ VariablesKnown /\ TransactionsKnown /\ DirectivesWait

IInv == DocumentRead /\ IsCompiler(compiler) /\ Gathered /\ OutcomeFollows

-----------------------------------------------------------------------------
(* The document, and what one more element makes of it.                    *)

LEMMA ElementsAreElements ==
    ASSUME NEW el \in UNION Vocabularies
    PROVE  IsElement(el)
  BY VocabulariesAssumption

LEMMA StepsAreFew ==
    ASSUME DocumentRead
    PROVE  /\ Len(document) \in Nat /\ DOMAIN document = 1..Len(document)
           /\ IsFiniteSet(StepElements) /\ StepElements \subseteq 1..Len(document)
           /\ Cardinality(StepElements) \in Nat
           /\ \A k \in DOMAIN document : document[k] \in UNION Vocabularies
           /\ \A k : PlaceOf(k) \in Nat /\ PlaceOf(k) <= Cardinality(StepElements)
  <1>1. /\ Len(document) \in Nat /\ DOMAIN document = 1..Len(document)
        /\ \A k \in DOMAIN document : document[k] \in UNION Vocabularies
    BY DEF DocumentRead
  <1>2. StepElements \in SUBSET (1..Len(document))
    BY <1>1 DEF StepElements
  <1>3. IsFiniteSet(1..Len(document))
    BY <1>1, FS_Interval
  <1>4. IsFiniteSet(StepElements)
    BY <1>2, <1>3, FS_Subset
  <1>5. Cardinality(StepElements) \in Nat
    BY <1>4, FS_CardinalityType
  <1>6. ASSUME NEW k PROVE PlaceOf(k) \in Nat /\ PlaceOf(k) <= Cardinality(StepElements)
    <2> DEFINE T == {j \in StepElements : j <= k}
    <2>1. T \in SUBSET StepElements
      OBVIOUS
    <2> HIDE DEF T
    <2>2. IsFiniteSet(T) /\ Cardinality(T) <= Cardinality(StepElements)
      BY <1>4, <2>1, FS_Subset
    <2>3. Cardinality(T) \in Nat
      BY <2>2, FS_CardinalityType
    <2> QED BY <2>2, <2>3 DEF T, PlaceOf
  <1> QED BY <1>1, <1>2, <1>4, <1>5, <1>6

Grows(el) == DocumentRead /\ el \in UNION Vocabularies /\ document' = Append(document, el)

LEMMA DocumentGrows ==
    ASSUME NEW el, Grows(el)
    PROVE  LET n == Len(document) IN
           /\ n \in Nat /\ DOMAIN document = 1..n /\ DOMAIN document' = 1..n + 1
           /\ Len(document') = n + 1
           /\ \A k \in 1..n : document'[k] = document[k]
           /\ document'[n + 1] = el
           /\ document' \in Seq(UNION Vocabularies)
  BY DEF Grows, DocumentRead

LEMMA StepsGrow ==
    ASSUME NEW el, Grows(el), NEW n, n = Len(document)
    PROVE  /\ StepElements' = StepElements \cup (IF Stepping(el) THEN {n + 1} ELSE {})
           /\ MessageElements' = MessageElements \cup (IF Acts(el) THEN {n + 1} ELSE {})
           /\ \A k \in 1..n : PlaceOf(k)' = PlaceOf(k)
           /\ Cardinality(StepElements') = Cardinality(StepElements) + (IF Stepping(el) THEN 1 ELSE 0)
           /\ PlaceOf(n + 1)' = Cardinality(StepElements')
  <1>1. /\ n \in Nat /\ DOMAIN document = 1..n /\ DOMAIN document' = 1..n + 1
        /\ \A k \in 1..n : document'[k] = document[k]
        /\ document'[n + 1] = el
    BY DocumentGrows
  <1>2. IsFiniteSet(StepElements) /\ StepElements \subseteq 1..n
    BY StepsAreFew DEF Grows
  <1>3. \A k \in 1..n : IsStepAt(k)' <=> IsStepAt(k)
    BY <1>1 DEF IsStepAt, Has
  <1>4. StepElements' = StepElements \cup (IF Stepping(el) THEN {n + 1} ELSE {})
    <2>1. IsStepAt(n + 1)' <=> Stepping(el)
      BY <1>1 DEF IsStepAt, Stepping, Acts, Has
    <2>2. 1..n + 1 = 1..n \cup {n + 1}
      BY <1>1
    <2> QED BY <1>1, <1>3, <2>1, <2>2 DEF StepElements
  <1>5. MessageElements' = MessageElements \cup (IF Acts(el) THEN {n + 1} ELSE {})
    <2>1. \A k \in StepElements : document'[k] = document[k] /\ k # n + 1
      BY <1>1, <1>2
    <2>2. Acts(el) <=> Stepping(el) /\ el.tag # "label"
      BY DEF Acts, Stepping, StepTags
    <2> QED BY <1>1, <1>4, <2>1, <2>2 DEF MessageElements
  <1>6. \A k \in 1..n : PlaceOf(k)' = PlaceOf(k)
    <2> SUFFICES ASSUME NEW k \in 1..n PROVE PlaceOf(k)' = PlaceOf(k)
      OBVIOUS
    <2>1. ~(n + 1 <= k)
      BY <1>1
    <2>2. {j \in StepElements' : j <= k} = {j \in StepElements : j <= k}
      BY <1>4, <2>1
    <2> QED BY <2>2 DEF PlaceOf
  <1>7. Cardinality(StepElements') = Cardinality(StepElements) + (IF Stepping(el) THEN 1 ELSE 0)
    <2>1. CASE Stepping(el)
      <3>1. n + 1 \notin StepElements
        BY <1>1, <1>2
      <3>2. Cardinality(StepElements \cup {n + 1}) = Cardinality(StepElements) + 1
        BY <1>2, <3>1, FS_AddElement
      <3> QED BY <1>4, <2>1, <3>2
    <2>2. CASE ~Stepping(el)
      <3>1. Cardinality(StepElements) \in Nat
        BY <1>2, FS_CardinalityType
      <3> QED BY <1>4, <2>2, <3>1
    <2> QED BY <2>1, <2>2
  <1>8. PlaceOf(n + 1)' = Cardinality(StepElements')
    <2>1. \A j \in StepElements' : j <= n + 1
      BY <1>1, <1>2, <1>4
    <2>2. {j \in StepElements' : j <= n + 1} = StepElements'
      BY <2>1
    <2> QED BY <2>2 DEF PlaceOf
  <1> QED BY <1>4, <1>5, <1>6, <1>7, <1>8

\* The directives right before an element stay where they are; the last element is
\* one of those that wait, or ends their wait.
LEMMA DirectivesGrow ==
    ASSUME NEW el, Grows(el), NEW n, n = Len(document)
    PROVE  /\ \A k \in 1..n + 1 : AllowedAt(k)' = AllowedAt(k)
           /\ \A k \in 1..n + 1 : AllowedAt(k) \subseteq LintNames
           /\ DirectivesBefore(n + 2)' = IF el.tag = "directive" THEN DirectivesBefore(n + 1) \cup {n + 1} ELSE {}
           /\ AllowedAt(n + 2)' = IF el.tag = "directive" THEN AllowedAt(n + 1) \cup el.body.vars ELSE {}
  <1>1. /\ n \in Nat /\ DOMAIN document = 1..n
        /\ \A k \in 1..n : document'[k] = document[k]
        /\ document'[n + 1] = el
    BY DocumentGrows
  <1>2. ASSUME NEW k \in 1..n + 1
        PROVE  /\ DirectivesBefore(k)' = DirectivesBefore(k)
               /\ DirectivesBefore(k) \subseteq 1..n
    <2>1. \A j \in 1..k - 1 : j \in 1..n /\ j..k - 1 \subseteq 1..n
      BY <1>1
    <2>2. \A j \in 1..k - 1 : (\A i \in j..k - 1 : document'[i].tag = "directive")
                                <=> (\A i \in j..k - 1 : document[i].tag = "directive")
      BY <1>1, <2>1
    <2> QED BY <2>1, <2>2 DEF DirectivesBefore
  <1>3. ASSUME NEW k \in 1..n + 1 PROVE AllowedAt(k)' = AllowedAt(k)
    <2>1. \A j \in DirectivesBefore(k) : document'[j].body.vars = document[j].body.vars
      BY <1>1, <1>2
    <2> QED BY <1>2, <2>1 DEF AllowedAt
  <1>4. ASSUME NEW k \in 1..n + 1 PROVE AllowedAt(k) \subseteq LintNames
    <2>1. ASSUME NEW j \in DirectivesBefore(k) PROVE document[j].body.vars \subseteq LintNames
      <3>1. j \in 1..n
        BY <1>2
      <3>2. IsElement(document[j])
        BY <1>1, <3>1, StepsAreFew, ElementsAreElements DEF Grows
      <3>3. document[j].tag = "directive"
        <4>1. j \in j..k - 1
          BY <1>1 DEF DirectivesBefore
        <4> QED BY <4>1 DEF DirectivesBefore
      <3> QED BY <3>2, <3>3 DEF IsElement
    <2> QED BY <2>1 DEF AllowedAt
  <1>5. DirectivesBefore(n + 2)' = IF el.tag = "directive" THEN DirectivesBefore(n + 1) \cup {n + 1} ELSE {}
    <2>1. ASSUME NEW j \in 1..n + 1
          PROVE  (\A i \in j..n + 1 : document'[i].tag = "directive")
                     <=> /\ el.tag = "directive"
                         /\ j = n + 1 \/ \A i \in j..n : document[i].tag = "directive"
      <3>1. j..n + 1 = (j..n) \cup {n + 1} /\ j..n \subseteq 1..n /\ (j = n + 1 => j..n = {})
        BY <1>1
      <3> QED BY <1>1, <3>1
    <2>2. n + 2 - 1 = n + 1 /\ n + 1 - 1 = n /\ 1..n + 1 = (1..n) \cup {n + 1}
      BY <1>1
    <2>3. DirectivesBefore(n + 2)' = {j \in 1..n + 1 : \A i \in j..n + 1 : document'[i].tag = "directive"}
      BY <2>2 DEF DirectivesBefore
    <2>4. DirectivesBefore(n + 1) = {j \in 1..n : \A i \in j..n : document[i].tag = "directive"}
      BY <2>2 DEF DirectivesBefore
    <2> QED BY <2>1, <2>2, <2>3, <2>4
  <1>6. AllowedAt(n + 2)' = IF el.tag = "directive" THEN AllowedAt(n + 1) \cup el.body.vars ELSE {}
    <2>1. n + 1 \in 1..n + 1
      BY <1>1
    <2>2. \A j \in DirectivesBefore(n + 1) : document'[j].body.vars = document[j].body.vars
      BY <1>1, <1>2, <2>1
    <2> QED BY <1>1, <1>5, <2>2 DEF AllowedAt
  <1> QED BY <1>3, <1>4, <1>5, <1>6

\* What an element makes of the directives that wait.
TakesDirective(c, el, d) ==
    IF el.tag = "directive"
      THEN d.allows = c.allows /\ d.directive = (c.directive \ NoDirective) \cup el.body.vars
      ELSE /\ d.directive = NoDirective
           /\ d.allows = c.allows \cup
                (IF Stepping(el) /\ c.directive # NoDirective
                   THEN {[step |-> Len(c.steps) + 1, lints |-> c.directive]} ELSE {})

\* One more element is read.
Reading(el) ==
    /\ Grows(el)
    /\ IsCompiler(compiler') /\ compiler.errors \subseteq compiler'.errors
    /\ Refused(compiler, el) => compiler'.errors # {}
    /\ TakesSteps(compiler, el, compiler') /\ TakesVariables(compiler, el, compiler')
    /\ TakesTxns(compiler, el, compiler') /\ TakesDirective(compiler, el, compiler')

LEMMA SettledDoes ==
    ASSUME NEW c, NEW d, IsCompiler(d), SameRest(c, d), NEW hides
    PROVE  LET s == [Settled(c, d) EXCEPT !.misplaced = @ \/ hides] IN
           /\ IsCompiler(s) /\ SameSteps(d, s) /\ s.errors = d.errors
           /\ s.scope = d.scope /\ s.read = d.read /\ s.written = d.written /\ s.txns = d.txns
           /\ s.directive = NoDirective
           /\ s.allows = c.allows \cup
                (IF c.directive # NoDirective /\ Len(d.steps) > Len(c.steps)
                   THEN {[step |-> Len(c.steps) + 1, lints |-> c.directive]} ELSE {})
  <1> DEFINE allow == {[step |-> Len(c.steps) + 1, lints |-> c.directive]}
             warn == When(Lint, "directive has no effect")
             Set(s) == [s EXCEPT !.misplaced = @ \/ hides]
             x == [d EXCEPT !.directive = NoDirective, !.allows = @ \cup allow]
             y == [d EXCEPT !.directive = NoDirective, !.warnings = @ \cup warn]
  <1> HIDE DEF allow, warn
  <1>1. CASE c.directive = NoDirective
    <2>1. Settled(c, d) = d
      BY <1>1 DEF Settled
    <2>2. IsCompiler(Set(d)) /\ SameSteps(d, Set(d)) /\ Set(d).errors = d.errors
          /\ Set(d).scope = d.scope /\ Set(d).read = d.read /\ Set(d).written = d.written
          /\ Set(d).txns = d.txns /\ Set(d).directive = d.directive /\ Set(d).allows = d.allows
      BY DEF IsCompiler, Fields, SameSteps
    <2> QED BY <1>1, <2>1, <2>2 DEF SameRest
  <1>2. CASE c.directive # NoDirective /\ Len(d.steps) > Len(c.steps)
    <2>1. Settled(c, d) = x
      BY <1>2 DEF Settled, allow
    <2>2. IsCompiler(Set(x)) /\ SameSteps(d, Set(x)) /\ Set(x).errors = d.errors
          /\ Set(x).scope = d.scope /\ Set(x).read = d.read /\ Set(x).written = d.written
          /\ Set(x).txns = d.txns /\ Set(x).directive = NoDirective /\ Set(x).allows = d.allows \cup allow
      BY DEF IsCompiler, Fields, SameSteps
    <2> QED BY <1>2, <2>1, <2>2 DEF SameRest, allow
  <1>3. CASE c.directive # NoDirective /\ ~(Len(d.steps) > Len(c.steps))
    <2>1. Settled(c, d) = y
      BY <1>3 DEF Settled, warn
    <2>2. IsCompiler(Set(y)) /\ SameSteps(d, Set(y)) /\ Set(y).errors = d.errors
          /\ Set(y).scope = d.scope /\ Set(y).read = d.read /\ Set(y).written = d.written
          /\ Set(y).txns = d.txns /\ Set(y).directive = NoDirective /\ Set(y).allows = d.allows
      BY DEF IsCompiler, Fields, SameSteps
    <2> QED BY <1>3, <2>1, <2>2 DEF SameRest
  <1> QED BY <1>1, <1>2, <1>3

LEMMA ElementIsRead ==
    ASSUME DocumentRead, IsCompiler(compiler), Len(compiler.steps) \in Nat,
           compiler.steps \in Seq(Step), ReadElement
    PROVE  \E el : Reading(el)
  <1>1. PICK el \in words :
           /\ el.tag # "directive"
           /\ compiler' = [Settled(compiler, Compiled(compiler, el)) EXCEPT !.misplaced = @ \/ el.hides]
           /\ document' = Append(document, el)
    BY DEF ReadElement, Keeps
  <1> DEFINE c == compiler
             d == Compiled(c, el)
             s == [Settled(c, d) EXCEPT !.misplaced = @ \/ el.hides]
  <1>2. Takes(c, el, d)
    BY <1>1, CompiledTakes
  <1> HIDE DEF d
  <1>3. IsCompiler(d) /\ SameRest(c, d)
    BY <1>2 DEF Takes
  <1>4. /\ IsCompiler(s) /\ SameSteps(d, s) /\ s.errors = d.errors
        /\ s.scope = d.scope /\ s.read = d.read /\ s.written = d.written /\ s.txns = d.txns
        /\ s.directive = NoDirective
        /\ s.allows = c.allows \cup
             (IF c.directive # NoDirective /\ Len(d.steps) > Len(c.steps)
                THEN {[step |-> Len(c.steps) + 1, lints |-> c.directive]} ELSE {})
    BY <1>3, SettledDoes
  <1>5. compiler' = s
    BY <1>1 DEF d
  <1> HIDE DEF s
  <1>6. Grows(el)
    BY <1>1 DEF Grows, DocumentRead
  <1>7. Len(d.steps) > Len(c.steps) <=> Stepping(el)
    <2>1. d.steps = IF Stepping(el) THEN Append(c.steps, NewStep(el)) ELSE c.steps
      BY <1>2 DEF Takes, TakesSteps
    <2>2. Len(Append(c.steps, NewStep(el))) = Len(c.steps) + 1
      OBVIOUS
    <2> QED BY <2>1, <2>2
  <1>8. TakesSteps(c, el, s)
    BY <1>2, <1>4 DEF Takes, TakesSteps, SameSteps
  <1>9. TakesVariables(c, el, s)
    BY <1>2, <1>4 DEF Takes, TakesVariables, Declared, ScopesGrow
  <1>10. TakesTxns(c, el, s)
    BY <1>2, <1>4 DEF Takes, TakesTxns, Starts, Answers
  <1>11. TakesDirective(c, el, s)
    BY <1>1, <1>4, <1>7 DEF TakesDirective
  <1> QED BY <1>2, <1>4, <1>5, <1>6, <1>8, <1>9, <1>10, <1>11 DEF Reading, Takes

LEMMA DirectiveIsRead ==
    ASSUME DocumentRead, IsCompiler(compiler), ReadDirective
    PROVE  \E el : Reading(el)
  <1> DEFINE c == compiler
             Wait(el) == [c EXCEPT !.directive = (@ \ NoDirective) \cup el.body.vars,
                                   !.warnings = @ \cup When(Lint /\ ~el.body.ok, "bad directive")]
  <1>1. PICK el \in words : /\ el.tag = "directive" /\ compiler' = Wait(el)
                            /\ document' = Append(document, el)
    BY DEF ReadDirective, Keeps
  <1> DEFINE s == Wait(el)
             waits == (c.directive \ NoDirective) \cup el.body.vars
  <1>2. /\ IsCompiler(s) /\ SameSteps(c, s) /\ s.errors = c.errors
        /\ s.scope = c.scope /\ s.read = c.read /\ s.written = c.written /\ s.txns = c.txns
        /\ s.allows = c.allows /\ s.directive = waits
    BY DEF IsCompiler, Fields, SameSteps
  <1>3. compiler' = s
    BY <1>1
  <1> HIDE DEF s, waits
  <1>4. Grows(el)
    BY <1>1 DEF Grows, DocumentRead
  <1>5. ~Stepping(el) /\ ~Acts(el) /\ ~IsLabel(el) /\ ~Refused(c, el)
    BY <1>1 DEF Stepping, Acts, IsLabel, StepTags, Refused
  <1>6. TakesSteps(c, el, s)
    BY <1>2, <1>5 DEF TakesSteps, SameSteps
  <1>7. TakesVariables(c, el, s)
    BY <1>1, <1>2, <1>5 DEF TakesVariables, ScopesGrow
  <1>8. TakesTxns(c, el, s)
    BY <1>2 DEF TakesTxns, Starts, Answers
  <1>9. TakesDirective(c, el, s)
    BY <1>1, <1>2 DEF TakesDirective, waits
  <1> QED BY <1>2, <1>3, <1>4, <1>5, <1>6, <1>7, <1>8, <1>9 DEF Reading

-----------------------------------------------------------------------------
(* What was gathered goes on being what the document says.                 *)

LEMMA StepsGoOn ==
    ASSUME StepsFollow, NEW el, Reading(el)
    PROVE  StepsFollow'
  <1> DEFINE n == Len(document)
             m == Cardinality(StepElements)
             steps == compiler.steps
  <1>1. /\ n \in Nat /\ StepElements \subseteq 1..n /\ m \in Nat
        /\ \A k : PlaceOf(k) \in Nat /\ PlaceOf(k) <= m
    BY StepsAreFew DEF Reading, Grows
  <1>2. /\ steps \in Seq(Step) /\ Len(steps) = m
        /\ \A k \in StepElements : PlaceOf(k) \in 1..m /\ steps[PlaceOf(k)] = NewStep(document[k])
        /\ \A j, k \in StepElements : j < k => PlaceOf(j) < PlaceOf(k)
        /\ \A i \in 1..m : \E k \in StepElements : PlaceOf(k) = i
    <2>1. steps \in Seq(Step) /\ Len(steps) = m /\ DOMAIN steps = 1..m
      BY DEF StepsFollow
    <2> HIDE DEF m
    <2> QED BY <2>1 DEF StepsFollow
  <1>3. PICK N : N = n
    OBVIOUS
  <1>4. /\ \A k \in 1..N : document'[k] = document[k]
        /\ document'[N + 1] = el
    BY <1>3, DocumentGrows DEF Reading
  <1>5. /\ StepElements' = StepElements \cup (IF Stepping(el) THEN {N + 1} ELSE {})
        /\ \A k \in 1..N : PlaceOf(k)' = PlaceOf(k)
        /\ Cardinality(StepElements') = m + (IF Stepping(el) THEN 1 ELSE 0)
        /\ PlaceOf(N + 1)' = Cardinality(StepElements')
    BY <1>3, StepsGrow DEF Reading
  <1>6. compiler'.steps = IF Stepping(el) THEN Append(steps, NewStep(el)) ELSE steps
    BY DEF Reading, TakesSteps
  <1>7. CASE ~Stepping(el)
    <2>1. /\ StepElements' = StepElements /\ compiler'.steps = steps
          /\ Cardinality(StepElements') = m
      BY <1>1, <1>5, <1>6, <1>7
    <2>2. \A k \in StepElements : PlaceOf(k)' = PlaceOf(k) /\ document'[k] = document[k]
      BY <1>1, <1>3, <1>4, <1>5
    <2> QED BY <1>2, <2>1, <2>2 DEF StepsFollow
  <1>8. CASE Stepping(el)
    <2> DEFINE all == Append(steps, NewStep(el))
    <2>1. NewStep(el) \in Step
      <3>1. IsElement(el)
        BY ElementsAreElements DEF Reading, Grows
      <3> QED BY <1>8, <3>1, NewStepIsStep
    <2>2. /\ all \in Seq(Step) /\ Len(all) = m + 1 /\ all[m + 1] = NewStep(el)
          /\ \A i \in 1..m : all[i] = steps[i]
      BY <1>1, <1>2, <2>1
    <2>3. /\ StepElements' = StepElements \cup {N + 1} /\ compiler'.steps = all
          /\ Cardinality(StepElements') = m + 1 /\ PlaceOf(N + 1)' = m + 1
      BY <1>5, <1>6, <1>8
    <2>4. \A k \in StepElements : PlaceOf(k)' = PlaceOf(k) /\ document'[k] = document[k] /\ k < N + 1
      BY <1>1, <1>3, <1>4, <1>5
    <2> HIDE DEF all, m, steps, n
    <2>5. /\ compiler'.steps \in Seq(Step) /\ Len(compiler'.steps) = Cardinality(StepElements')
          /\ DOMAIN compiler'.steps = 1..m + 1
      BY <1>1, <2>2, <2>3
    <2>6. ASSUME NEW k \in StepElements'
          PROVE  PlaceOf(k)' \in 1..m + 1 /\ compiler'.steps[PlaceOf(k)'] = NewStep(document'[k])
      <3>1. CASE k \in StepElements
        BY <1>1, <1>2, <2>2, <2>3, <2>4, <3>1
      <3>2. CASE k = N + 1
        BY <1>1, <1>4, <2>2, <2>3, <3>2
      <3> QED BY <2>3, <3>1, <3>2
    <2>7. ASSUME NEW j \in StepElements', NEW k \in StepElements', j < k
          PROVE  PlaceOf(j)' < PlaceOf(k)'
      <3>1. CASE j \in StepElements /\ k \in StepElements
        BY <1>2, <2>4, <2>7, <3>1
      <3>2. CASE j \in StepElements /\ k = N + 1
        BY <1>1, <1>2, <2>3, <2>4, <3>2
      <3>3. CASE j = N + 1
        <4>1. j \in Nat /\ k \in Nat /\ k <= j
          BY <1>1, <1>3, <2>3, <2>4, <3>3 DEF n
        <4> QED BY <2>7, <4>1
      <3> QED BY <2>3, <3>1, <3>2, <3>3
    <2>8. ASSUME NEW i \in 1..m + 1 PROVE \E k \in StepElements' : PlaceOf(k)' = i
      <3>1. CASE i \in 1..m
        <4>1. PICK k \in StepElements : PlaceOf(k) = i
          BY <1>2, <3>1
        <4> QED BY <2>3, <2>4, <4>1
      <3>2. CASE i = m + 1
        BY <2>3, <3>2
      <3>3. i \in 1..m \/ i = m + 1
        BY <1>1
      <3> QED BY <3>1, <3>2, <3>3
    <2> QED BY <2>5, <2>6, <2>7, <2>8 DEF StepsFollow
  <1> QED BY <1>7, <1>8

LEMMA BranchesGoOn ==
    ASSUME StepsFollow, BranchesWait, NEW el, Reading(el)
    PROVE  BranchesWait'
  <1>1. PICK N : N = Len(document)
    OBVIOUS
  <1>2. /\ N \in Nat /\ StepElements \subseteq 1..N /\ Cardinality(StepElements) \in Nat
    BY <1>1, StepsAreFew DEF Reading, Grows
  <1>3. /\ \A k \in 1..N : document'[k] = document[k]
        /\ document'[N + 1] = el
    BY <1>1, DocumentGrows DEF Reading
  <1>4. /\ MessageElements' = MessageElements \cup (IF Acts(el) THEN {N + 1} ELSE {})
        /\ \A k \in 1..N : PlaceOf(k)' = PlaceOf(k)
        /\ PlaceOf(N + 1)' = Cardinality(StepElements) + (IF Stepping(el) THEN 1 ELSE 0)
    BY <1>1, StepsGrow DEF Reading
  <1>5. compiler'.pending = IF Acts(el) THEN compiler.pending \cup BranchesOf(el, Len(compiler.steps))
                            ELSE compiler.pending
    BY DEF Reading, TakesSteps
  <1> DEFINE Now(k) == BranchesOf(document[k], PlaceOf(k) - 1)
             Then(k) == BranchesOf(document'[k], PlaceOf(k)' - 1)
  <1>6. \A k \in MessageElements : Then(k) = Now(k)
    <2>1. \A k \in MessageElements : k \in 1..N
      BY <1>2 DEF MessageElements
    <2> QED BY <1>3, <1>4, <2>1
  <1>7. Acts(el) => Then(N + 1) = BranchesOf(el, Len(compiler.steps))
    <2>1. Acts(el) => Stepping(el)
      BY DEF Stepping
    <2>2. Len(compiler.steps) = Cardinality(StepElements)
      BY DEF StepsFollow
    <2>3. Cardinality(StepElements) + 1 - 1 = Cardinality(StepElements)
      BY <1>2
    <2> QED BY <1>3, <1>4, <2>1, <2>2, <2>3
  <1>8. compiler.pending = UNION {Now(k) : k \in MessageElements}
    BY DEF BranchesWait
  <1> HIDE DEF Now, Then
  <1>9. compiler'.pending = UNION {Then(k) : k \in MessageElements'}
    BY <1>4, <1>5, <1>6, <1>7, <1>8
  <1> QED BY <1>9 DEF BranchesWait, Then

LEMMA LabelsGoOn ==
    ASSUME StepsFollow, LabelsStand, NEW el, Reading(el)
    PROVE  LabelsStand'
  <1> SUFFICES ASSUME compiler'.errors = {}
               PROVE  /\ \A k \in DOMAIN document' : document'[k].tag = "label" =>
                            LET id == Text(document'[k], "id") IN
                            /\ Has(document'[k], "id") /\ id \in DOMAIN compiler'.labels
                            /\ compiler'.labels[id] = PlaceOf(k)'
                      /\ \A l \in DOMAIN compiler'.labels : LabelElements(l)' # {}
                      /\ \A k \in DOMAIN document' : document'[k].tag = "timewait" =>
                            Given(document'[k], {"next", "ontimeout"}) = {}
    BY DEF LabelsStand
  <1>1. PICK N : N = Len(document)
    OBVIOUS
  <1>2. /\ N \in Nat /\ DOMAIN document = 1..N /\ DOMAIN document' = 1..N + 1
        /\ \A k \in 1..N : document'[k] = document[k]
        /\ document'[N + 1] = el
    BY <1>1, DocumentGrows DEF Reading
  <1>3. 1..N + 1 = 1..N \cup {N + 1}
    BY <1>2
  <1>4. /\ \A k \in 1..N : PlaceOf(k)' = PlaceOf(k)
        /\ PlaceOf(N + 1)' = Cardinality(StepElements) + (IF Stepping(el) THEN 1 ELSE 0)
    BY <1>1, StepsGrow DEF Reading
  <1>5. /\ \A k \in 1..N : document[k].tag = "label" =>
              LET id == Text(document[k], "id") IN
              /\ Has(document[k], "id") /\ id \in DOMAIN compiler.labels
              /\ compiler.labels[id] = PlaceOf(k)
        /\ \A l \in DOMAIN compiler.labels : LabelElements(l) # {}
        /\ \A k \in 1..N : document[k].tag = "timewait" =>
              Given(document[k], {"next", "ontimeout"}) = {}
    BY <1>2 DEF Reading, LabelsStand
  <1>6. ~Refused(compiler, el)
    BY DEF Reading
  <1>7. compiler'.labels = IF IsLabel(el) THEN Placed(compiler.labels, Text(el, "id"), Len(compiler.steps) + 1)
                           ELSE compiler.labels
    BY DEF Reading, TakesSteps
  <1>8. /\ DOMAIN compiler.labels \subseteq DOMAIN compiler'.labels
        /\ \A l \in DOMAIN compiler.labels : compiler'.labels[l] = compiler.labels[l]
        /\ \A l \in DOMAIN compiler'.labels : l \in DOMAIN compiler.labels \/ (IsLabel(el) /\ l = Text(el, "id"))
    <2>1. IsLabel(el) => Text(el, "id") \notin DOMAIN compiler.labels
      BY <1>6 DEF Refused, IsLabel
    <2> QED BY <1>7, <2>1 DEF Placed
  <1>9. ASSUME NEW k \in DOMAIN document', document'[k].tag = "label"
        PROVE  LET id == Text(document'[k], "id") IN
               /\ Has(document'[k], "id") /\ id \in DOMAIN compiler'.labels
               /\ compiler'.labels[id] = PlaceOf(k)'
    <2>1. CASE k \in 1..N
      BY <1>2, <1>4, <1>5, <1>8, <1>9, <2>1
    <2>2. CASE k = N + 1
      <3>1. el.tag = "label" /\ Has(el, "id") /\ Stepping(el) /\ IsLabel(el)
        BY <1>2, <1>6, <1>9, <2>2 DEF Refused, Stepping, IsLabel
      <3>2. compiler'.labels = Placed(compiler.labels, Text(el, "id"), Len(compiler.steps) + 1)
        BY <1>7, <3>1
      <3>3. Len(compiler.steps) = Cardinality(StepElements)
        BY DEF StepsFollow
      <3> QED BY <1>2, <1>4, <2>2, <3>1, <3>2, <3>3 DEF Placed
    <2> QED BY <1>2, <1>3, <2>1, <2>2
  <1>10. ASSUME NEW l \in DOMAIN compiler'.labels PROVE LabelElements(l)' # {}
    <2>1. CASE l \in DOMAIN compiler.labels
      <3>1. PICK k \in 1..N : document[k].tag = "label" /\ Text(document[k], "id") = l
        BY <1>2, <1>5, <2>1 DEF LabelElements
      <3>2. k \in DOMAIN document' /\ document'[k].tag = "label" /\ Text(document'[k], "id") = l
        BY <1>2, <1>3, <3>1
      <3> QED BY <3>2 DEF LabelElements
    <2>2. CASE IsLabel(el) /\ l = Text(el, "id")
      <3>1. N + 1 \in DOMAIN document' /\ document'[N + 1].tag = "label" /\ Text(document'[N + 1], "id") = l
        BY <1>2, <1>3, <2>2 DEF IsLabel
      <3> QED BY <3>1 DEF LabelElements
    <2> QED BY <1>8, <2>1, <2>2
  <1>11. ASSUME NEW k \in DOMAIN document', document'[k].tag = "timewait"
         PROVE  Given(document'[k], {"next", "ontimeout"}) = {}
    <2>1. CASE k \in 1..N
      BY <1>2, <1>5, <1>11, <2>1
    <2>2. CASE k = N + 1
      BY <1>2, <1>6, <1>11, <2>2 DEF Refused
    <2> QED BY <1>2, <1>3, <2>1, <2>2
  <1> QED BY <1>9, <1>10, <1>11

LEMMA VariablesGoOn ==
    ASSUME VariablesKnown, NEW el, Reading(el)
    PROVE  VariablesKnown'
  <1>1. PICK N : N = Len(document)
    OBVIOUS
  <1>2. /\ N \in Nat /\ DOMAIN document = 1..N /\ DOMAIN document' = 1..N + 1
        /\ 1..N + 1 = 1..N \cup {N + 1}
        /\ \A k \in 1..N : document'[k] = document[k]
        /\ document'[N + 1] = el
    BY <1>1, DocumentGrows DEF Reading
  <1>3. /\ MessageElements' = MessageElements \cup (IF Acts(el) THEN {N + 1} ELSE {})
        /\ MessageElements \subseteq 1..N
    BY <1>1, <1>2, StepsGrow DEF Reading, MessageElements, StepElements
  <1>4. TakesVariables(compiler, el, compiler')
    BY DEF Reading
  <1> DEFINE Names(k) == VarsIn(document[k], {"variables"})
             Scopes(v) == /\ compiler'.scope[v] \in {"call", "global", "user"}
                          /\ compiler'.scope[v] = "global" => DeclaredAs("Global", v)'
                          /\ compiler'.scope[v] = "user" => DeclaredAs("User", v)'
  <1>5. ASSUME NEW k \in MessageElements' PROVE ReadIn(document'[k]) \subseteq compiler'.read
    <2>1. CASE k \in MessageElements
      BY <1>2, <1>3, <1>4, <2>1 DEF VariablesKnown, TakesVariables
    <2>2. CASE Acts(el) /\ k = N + 1
      BY <1>2, <1>4, <2>2 DEF TakesVariables
    <2> QED BY <1>3, <2>1, <2>2
  <1>6. ASSUME NEW v \in compiler'.written PROVE \E k \in MessageElements' : v \in WrittenIn(document'[k])
    <2>1. CASE v \in compiler.written
      <3>1. PICK k \in MessageElements : v \in WrittenIn(document[k])
        BY <2>1 DEF VariablesKnown
      <3> QED BY <1>2, <1>3, <3>1
    <2>2. CASE Acts(el) /\ v \in WrittenIn(el)
      BY <1>2, <1>3, <2>2
    <2> QED BY <1>4, <2>1, <2>2 DEF TakesVariables
  <1>7. ASSUME NEW tag, NEW v, DeclaredAs(tag, v) PROVE DeclaredAs(tag, v)'
    <2>1. PICK k \in 1..N : document[k].tag = tag /\ v \in VarsIn(document[k], {"variables"})
      BY <1>2, <1>7 DEF DeclaredAs
    <2> QED BY <1>2, <2>1 DEF DeclaredAs
  <1>8. ASSUME NEW v \in VarsIn(el, {"variables"}) PROVE DeclaredAs(el.tag, v)'
    BY <1>2, <1>8 DEF DeclaredAs
  <1>9. ASSUME NEW v \in DOMAIN compiler.scope, compiler'.scope[v] = compiler.scope[v] PROVE Scopes(v)
    BY <1>7, <1>9 DEF VariablesKnown
  <1>10. ASSUME NEW v \in DOMAIN compiler'.scope PROVE Scopes(v)
    <2>1. CASE el.tag \notin {"Global", "User"}
      <3>1. compiler'.scope[v] = IF v \in DOMAIN compiler.scope THEN compiler.scope[v] ELSE "call"
        BY <1>4, <1>10, <2>1 DEF TakesVariables, ScopesGrow
      <3>2. CASE v \in DOMAIN compiler.scope
        BY <1>9, <3>1, <3>2
      <3>3. CASE v \notin DOMAIN compiler.scope
        BY <3>1, <3>3
      <3> QED BY <3>2, <3>3
    <2>2. CASE el.tag = "Global"
      <3>1. \/ v \in DOMAIN compiler.scope /\ compiler'.scope[v] = compiler.scope[v]
            \/ v \in VarsIn(el, {"variables"}) /\ compiler'.scope[v] = "global"
        BY <1>4, <1>10, <2>2 DEF TakesVariables, Declared
      <3>2. CASE v \in DOMAIN compiler.scope /\ compiler'.scope[v] = compiler.scope[v]
        BY <1>9, <3>2
      <3>3. CASE v \in VarsIn(el, {"variables"}) /\ compiler'.scope[v] = "global"
        BY <1>8, <2>2, <3>3
      <3> QED BY <3>1, <3>2, <3>3
    <2>3. CASE el.tag = "User"
      <3>1. \/ v \in DOMAIN compiler.scope /\ compiler'.scope[v] = compiler.scope[v]
            \/ v \in VarsIn(el, {"variables"}) /\ compiler'.scope[v] = "user"
        BY <1>4, <1>10, <2>3 DEF TakesVariables, Declared
      <3>2. CASE v \in DOMAIN compiler.scope /\ compiler'.scope[v] = compiler.scope[v]
        BY <1>9, <3>2
      <3>3. CASE v \in VarsIn(el, {"variables"}) /\ compiler'.scope[v] = "user"
        BY <1>8, <2>3, <3>3
      <3> QED BY <3>1, <3>2, <3>3
    <2> QED BY <2>1, <2>2, <2>3
  <1>11. ASSUME compiler'.errors = {}, NEW k \in DOMAIN document',
                NEW v \in VarsIn(document'[k], {"variables"})
         PROVE  /\ document'[k].tag = "Global" => v \in DOMAIN compiler'.scope /\ compiler'.scope[v] = "global"
                /\ document'[k].tag = "User" => v \in DOMAIN compiler'.scope /\ compiler'.scope[v] = "user"
    <2> DEFINE Declares2(e, tag, scope) == e.tag = tag => v \in DOMAIN compiler'.scope /\ compiler'.scope[v] = scope
    <2>1. CASE k = N + 1
      <3>1. v \in VarsIn(el, {"variables"}) /\ document'[k] = el
        BY <1>2, <1>11, <2>1
      <3>2. Declares2(el, "Global", "global") /\ Declares2(el, "User", "user")
        BY <1>4, <1>11, <3>1 DEF TakesVariables, Declared
      <3> QED BY <3>1, <3>2
    <2>2. CASE k \in 1..N
      <3>1. document'[k] = document[k] /\ k \in DOMAIN document /\ compiler.errors = {}
        BY <1>2, <1>11, <2>2 DEF Reading
      <3>2. /\ document[k].tag = "Global" => v \in DOMAIN compiler.scope /\ compiler.scope[v] = "global"
            /\ document[k].tag = "User" => v \in DOMAIN compiler.scope /\ compiler.scope[v] = "user"
        BY <1>11, <3>1 DEF VariablesKnown
      <3>3. v \in DOMAIN compiler.scope /\ compiler.scope[v] \in {"global", "user"} =>
                v \in DOMAIN compiler'.scope /\ compiler'.scope[v] = compiler.scope[v]
        <4>1. CASE el.tag \notin {"Global", "User"}
          BY <1>4, <4>1 DEF TakesVariables, ScopesGrow
        <4>2. CASE el.tag = "Global"
          <5>1. Declared(compiler, el, "global", compiler')
            BY <1>4, <4>2 DEF TakesVariables
          <5> QED BY <1>11, <5>1 DEF Declared
        <4>3. CASE el.tag = "User"
          <5>1. Declared(compiler, el, "user", compiler')
            BY <1>4, <4>3 DEF TakesVariables
          <5> QED BY <1>11, <5>1 DEF Declared
        <4> QED BY <4>1, <4>2, <4>3
      <3> QED BY <3>1, <3>2, <3>3
    <2> QED BY <1>2, <2>1, <2>2
  <1> QED BY <1>5, <1>6, <1>10, <1>11 DEF VariablesKnown

LEMMA TransactionsGoOn ==
    ASSUME TransactionsKnown, NEW el, Reading(el)
    PROVE  TransactionsKnown'
  <1>1. PICK N : N = Len(document)
    OBVIOUS
  <1>2. /\ N \in Nat /\ DOMAIN document = 1..N
        /\ \A k \in 1..N : document'[k] = document[k]
        /\ document'[N + 1] = el
    BY <1>1, DocumentGrows DEF Reading
  <1>3. /\ StepElements' = StepElements \cup (IF Stepping(el) THEN {N + 1} ELSE {})
        /\ StepElements \subseteq 1..N
    BY <1>1, <1>2, StepsGrow DEF Reading, StepElements
  <1> DEFINE Says(k, tag, attr, t) == document[k].tag = tag /\ Text(document[k], attr) = t
  <1>4. ASSUME NEW tag, NEW attr, NEW t, \E k \in StepElements : Says(k, tag, attr, t)
        PROVE  \E k \in StepElements' : document'[k].tag = tag /\ Text(document'[k], attr) = t
    <2>1. PICK k \in StepElements : Says(k, tag, attr, t)
      BY <1>4
    <2>2. document'[k] = document[k] /\ k \in StepElements'
      BY <1>2, <1>3, <2>1
    <2> QED BY <2>1, <2>2
  <1>5. ASSUME NEW tag \in {"send", "recv"}, NEW attr, NEW t, el.tag = tag /\ Text(el, attr) = t
        PROVE  \E k \in StepElements' : document'[k].tag = tag /\ Text(document'[k], attr) = t
    <2>1. N + 1 \in StepElements'
      BY <1>3, <1>5 DEF Stepping, Acts, StepTags
    <2> QED BY <1>2, <1>5, <2>1
  <1> SUFFICES ASSUME NEW t \in DOMAIN compiler'.txns
               PROVE  /\ Starts(compiler', t) => \E k \in StepElements' :
                            document'[k].tag = "send" /\ Text(document'[k], "start_txn") = t
                      /\ Answers(compiler', t) => \E k \in StepElements' :
                            document'[k].tag = "recv" /\ Text(document'[k], "response_txn") = t
    BY DEF TransactionsKnown, Starts, Answers
  <1>6. ASSUME Starts(compiler', t)
        PROVE  \E k \in StepElements' : document'[k].tag = "send" /\ Text(document'[k], "start_txn") = t
    <2>1. CASE Starts(compiler, t)
      <3>1. \E k \in StepElements : Says(k, "send", "start_txn", t)
        BY <2>1 DEF TransactionsKnown, Starts
      <3> HIDE DEF Says
      <3> QED BY <1>4, <3>1
    <2>2. CASE el.tag = "send" /\ Text(el, "start_txn") = t
      BY <1>5, <2>2
    <2> QED BY <1>6, <2>1, <2>2 DEF Reading, TakesTxns
  <1>7. ASSUME Answers(compiler', t)
        PROVE  \E k \in StepElements' : document'[k].tag = "recv" /\ Text(document'[k], "response_txn") = t
    <2>1. CASE Answers(compiler, t)
      <3>1. \E k \in StepElements : Says(k, "recv", "response_txn", t)
        BY <2>1 DEF TransactionsKnown, Answers
      <3> HIDE DEF Says
      <3> QED BY <1>4, <3>1
    <2>2. CASE el.tag = "recv" /\ Text(el, "response_txn") = t
      BY <1>5, <2>2
    <2> QED BY <1>7, <2>1, <2>2 DEF Reading, TakesTxns
  <1> QED BY <1>6, <1>7

LEMMA DirectivesGoOn ==
    ASSUME StepsFollow, DirectivesWait, NEW el, Reading(el)
    PROVE  DirectivesWait'
  <1>1. PICK N : N = Len(document)
    OBVIOUS
  <1>2. /\ N \in Nat /\ Len(document') = N + 1 /\ StepElements \subseteq 1..N
        /\ Cardinality(StepElements) \in Nat
    BY <1>1, DocumentGrows, StepsAreFew DEF Reading, Grows
  <1>3. /\ StepElements' = StepElements \cup (IF Stepping(el) THEN {N + 1} ELSE {})
        /\ \A k \in 1..N : PlaceOf(k)' = PlaceOf(k)
        /\ PlaceOf(N + 1)' = Cardinality(StepElements) + (IF Stepping(el) THEN 1 ELSE 0)
    BY <1>1, StepsGrow DEF Reading
  <1>4. /\ \A k \in 1..N + 1 : AllowedAt(k)' = AllowedAt(k)
        /\ \A k \in 1..N + 1 : AllowedAt(k) \subseteq LintNames
        /\ DirectivesBefore(N + 2)' = IF el.tag = "directive" THEN DirectivesBefore(N + 1) \cup {N + 1} ELSE {}
        /\ AllowedAt(N + 2)' = IF el.tag = "directive" THEN AllowedAt(N + 1) \cup el.body.vars ELSE {}
    BY <1>1, DirectivesGrow DEF Reading
  <1>5. compiler.directive = IF DirectivesBefore(N + 1) = {} THEN NoDirective ELSE AllowedAt(N + 1)
    BY <1>1 DEF DirectivesWait
  <1>6. TakesDirective(compiler, el, compiler')
    BY DEF Reading
  <1>7. N + 1 \in 1..N + 1 /\ 1..N \subseteq 1..N + 1
    BY <1>2
  <1>8. AllowedAt(N + 1) \cap NoDirective = {}
    BY <1>4, <1>7 DEF LintNames, NoDirective
  <1>9. DirectivesBefore(N + 1) = {} => AllowedAt(N + 1) = {}
    BY DEF AllowedAt
  <1>10. compiler'.directive = IF DirectivesBefore(N + 2)' = {} THEN NoDirective ELSE AllowedAt(N + 2)'
    BY <1>4, <1>5, <1>6, <1>8, <1>9 DEF TakesDirective
  <1>11. Len(document') + 1 = N + 2
    BY <1>2
  <1>12. /\ Len(compiler.steps) = Cardinality(StepElements)
         /\ DOMAIN compiler.steps = 1..Cardinality(StepElements)
         /\ DOMAIN compiler'.steps = IF Stepping(el) THEN 1..Cardinality(StepElements) + 1
                                     ELSE 1..Cardinality(StepElements)
    <2>1. compiler.steps \in Seq(Step) /\ Len(compiler.steps) = Cardinality(StepElements)
      BY DEF StepsFollow
    <2>2. compiler'.steps = IF Stepping(el) THEN Append(compiler.steps, NewStep(el)) ELSE compiler.steps
      BY DEF Reading, TakesSteps
    <2> QED BY <2>1, <2>2
  <1> DEFINE m == Cardinality(StepElements)
             last == [step |-> m + 1, lints |-> compiler.directive]
             adds == IF Stepping(el) /\ compiler.directive # NoDirective THEN {last} ELSE {}
             Lints_(allows, i) == UNION {allow.lints : allow \in {a \in allows : a.step = i}}
  <1>13. compiler'.allows = compiler.allows \cup adds
    <2>1. el.tag = "directive" => ~Stepping(el)
      BY DEF Stepping, Acts, StepTags
    <2> QED BY <1>6, <1>12, <2>1 DEF TakesDirective
  <1>14. \A allow \in compiler.allows : allow.step \in 1..m
    BY <1>12 DEF DirectivesWait
  <1>15. \A allow \in compiler'.allows : allow.step \in DOMAIN compiler'.steps
    <2>1. 1..m \subseteq DOMAIN compiler'.steps
      BY <1>2, <1>12
    <2>2. \A allow \in adds : allow.step = m + 1 /\ Stepping(el)
      OBVIOUS
    <2>3. Stepping(el) => m + 1 \in DOMAIN compiler'.steps
      BY <1>2, <1>12
    <2> HIDE DEF adds, m
    <2> QED BY <1>13, <1>14, <2>1, <2>2, <2>3
  <1>16. ASSUME NEW k \in StepElements' PROVE Lints_(compiler'.allows, PlaceOf(k)') = AllowedAt(k)'
    <2>1. CASE k \in StepElements
      <3>1. PlaceOf(k)' = PlaceOf(k) /\ AllowedAt(k)' = AllowedAt(k)
        BY <1>2, <1>3, <1>4, <1>7, <2>1
      <3>2. PlaceOf(k) \in 1..m
        BY <1>12, <2>1 DEF StepsFollow
      <3>3. \A allow \in adds : allow.step # PlaceOf(k)
        BY <1>2, <3>2
      <3>4. {a \in compiler'.allows : a.step = PlaceOf(k)} = {a \in compiler.allows : a.step = PlaceOf(k)}
        <4> HIDE DEF adds
        <4> QED BY <1>13, <3>3
      <3> QED BY <2>1, <3>1, <3>4 DEF DirectivesWait
    <2>2. CASE Stepping(el) /\ k = N + 1
      <3>1. PlaceOf(k)' = m + 1 /\ AllowedAt(k)' = AllowedAt(N + 1)
        BY <1>3, <1>4, <1>7, <2>2
      <3>2. {a \in compiler.allows : a.step = m + 1} = {}
        <4>1. m + 1 \notin 1..m
          BY <1>2
        <4> HIDE DEF m
        <4> QED BY <1>14, <4>1
      <3>3. {a \in compiler'.allows : a.step = m + 1} = adds
        <4>1. \A allow \in adds : allow.step = m + 1
          OBVIOUS
        <4> HIDE DEF adds, m
        <4> QED BY <1>13, <3>2, <4>1
      <3>4. Lints_(compiler'.allows, m + 1) = UNION {allow.lints : allow \in adds}
        BY <3>3
      <3>5. UNION {allow.lints : allow \in adds} = AllowedAt(N + 1)
        <4>1. CASE compiler.directive # NoDirective
          <5>1. adds = {last} /\ last.lints = compiler.directive
            BY <2>2, <4>1
          <5>2. UNION {allow.lints : allow \in adds} = compiler.directive
            <6> HIDE DEF adds, last
            <6> QED BY <5>1
          <5>3. compiler.directive = AllowedAt(N + 1)
            BY <1>5, <4>1
          <5> QED BY <5>2, <5>3
        <4>2. CASE compiler.directive = NoDirective
          <5>1. adds = {}
            BY <4>2
          <5>2. AllowedAt(N + 1) = {}
            BY <1>5, <1>8, <1>9, <4>2 DEF NoDirective
          <5> HIDE DEF adds
          <5> QED BY <5>1, <5>2
        <4> QED BY <4>1, <4>2
      <3> QED BY <3>1, <3>4, <3>5
    <2> QED BY <1>3, <2>1, <2>2
  <1> QED BY <1>10, <1>11, <1>15, <1>16 DEF DirectivesWait

-----------------------------------------------------------------------------
(* The invariant holds.                                                    *)

LEMMA NothingIsRead ==
    ASSUME Init
    PROVE  IInv
  <1>1. document = <<>> /\ compiler = Fresh /\ outcome = Pending /\ words \in Vocabularies
    BY DEF Init
  <1>2. DOMAIN document = {} /\ Len(document) = 0 /\ document \in Seq(UNION Vocabularies)
    BY <1>1
  <1>3. StepElements = {} /\ MessageElements = {} /\ Cardinality(StepElements) = 0
    BY <1>2, FS_EmptySet DEF StepElements, MessageElements
  <1>4. IsCompiler(compiler)
    <2>1. Fresh = [field \in Fields |-> Fresh[field]]
      BY DEF Fresh, Fields
    <2>2. DOMAIN Fresh.txns = {}
      BY DEF Fresh
    <2> QED BY <1>1, <2>1, <2>2 DEF IsCompiler
  <1>5. /\ compiler.steps = <<>> /\ compiler.pending = {} /\ DOMAIN compiler.labels = {}
        /\ DOMAIN compiler.scope = {} /\ compiler.written = {} /\ DOMAIN compiler.txns = {}
        /\ compiler.directive = NoDirective /\ compiler.allows = {}
    BY <1>1 DEF Fresh
  <1>6. StepsFollow
    <2>1. compiler.steps \in Seq(Step) /\ Len(compiler.steps) = 0 /\ DOMAIN compiler.steps = {}
      BY <1>5
    <2> QED BY <1>3, <2>1 DEF StepsFollow
  <1>7. BranchesWait
    BY <1>3, <1>5 DEF BranchesWait
  <1>8. LabelsStand
    BY <1>2, <1>5 DEF LabelsStand
  <1>9. VariablesKnown
    BY <1>2, <1>3, <1>5 DEF VariablesKnown
  <1>10. TransactionsKnown
    BY <1>5 DEF TransactionsKnown
  <1>11. DirectivesWait
    <2>1. DirectivesBefore(Len(document) + 1) = {}
      BY <1>2 DEF DirectivesBefore
    <2> QED BY <1>3, <1>5, <2>1 DEF DirectivesWait
  <1>12. OutcomeFollows
    BY <1>1 DEF OutcomeFollows, IsCompiled, Pending
  <1> QED
    BY <1>1, <1>2, <1>4, <1>6, <1>7, <1>8, <1>9, <1>10, <1>11, <1>12 DEF IInv, DocumentRead, Gathered

LEMMA ReadingKeeps ==
    ASSUME IInv, outcome = Pending, UNCHANGED <<words, outcome>>, NEW el, Reading(el)
    PROVE  IInv'
  <1>1. DocumentRead'
    BY DocumentGrows DEF IInv, DocumentRead, Reading
  <1>2. IsCompiler(compiler')
    BY DEF Reading
  <1>3. StepsFollow' /\ BranchesWait' /\ LabelsStand'
    BY StepsGoOn, BranchesGoOn, LabelsGoOn DEF IInv, Gathered
  <1>4. VariablesKnown' /\ TransactionsKnown' /\ DirectivesWait'
    BY VariablesGoOn, TransactionsGoOn, DirectivesGoOn DEF IInv, Gathered
  <1>5. OutcomeFollows'
    BY DEF OutcomeFollows, IsCompiled, Pending
  <1>6. IsCompiler(compiler)'
    BY <1>2 DEF IsCompiler
  <1> QED BY <1>1, <1>3, <1>4, <1>5, <1>6 DEF IInv, Gathered

\* What was gathered is a matter of the document and the compiler alone.
LEMMA NothingElseCounts ==
    ASSUME IInv, UNCHANGED <<words, document, compiler>>
    PROVE  DocumentRead' /\ IsCompiler(compiler)' /\ Gathered'
  <1>1. words' = words /\ document' = document /\ compiler' = compiler
    OBVIOUS
  <1>2. StepElements' = StepElements /\ MessageElements' = MessageElements
    BY <1>1 DEF StepElements, MessageElements, IsStepAt
  <1>3. \A k : PlaceOf(k)' = PlaceOf(k)
    BY <1>2 DEF PlaceOf
  <1>4. \A k : DirectivesBefore(k)' = DirectivesBefore(k) /\ AllowedAt(k)' = AllowedAt(k)
    BY <1>1 DEF DirectivesBefore, AllowedAt
  <1>5. StepsFollow' /\ BranchesWait'
    <2>1. StepsFollow /\ BranchesWait
      BY DEF IInv, Gathered
    <2> QED BY <1>1, <1>2, <1>3, <2>1 DEF StepsFollow, BranchesWait
  <1>6. LabelsStand'
    <2>1. LabelsStand
      BY DEF IInv, Gathered
    <2> QED BY <1>1, <1>3, <2>1 DEF LabelsStand, LabelElements
  <1>7. VariablesKnown'
    <2>1. VariablesKnown
      BY DEF IInv, Gathered
    <2>2. \A tag, v : DeclaredAs(tag, v)' <=> DeclaredAs(tag, v)
      BY <1>1 DEF DeclaredAs
    <2> QED BY <1>1, <1>2, <2>1, <2>2 DEF VariablesKnown
  <1>8. TransactionsKnown'
    <2>1. TransactionsKnown
      BY DEF IInv, Gathered
    <2> QED BY <1>1, <1>2, <2>1 DEF TransactionsKnown, Starts, Answers
  <1>9. DirectivesWait'
    <2>1. DirectivesWait
      BY DEF IInv, Gathered
    <2>2. PICK N : N = Len(document) + 1
      OBVIOUS
    <2>3. (Len(document') + 1) = N
      BY <1>1, <2>2
    <2> QED BY <1>1, <1>2, <1>3, <1>4, <2>1, <2>2, <2>3 DEF DirectivesWait
  <1>10. DocumentRead' /\ IsCompiler(compiler)'
    BY <1>1 DEF IInv, DocumentRead, IsCompiler
  <1> QED BY <1>5, <1>6, <1>7, <1>8, <1>9, <1>10 DEF Gathered

LEMMA FinishFollows ==
    ASSUME Finish
    PROVE  OutcomeFollows'
  <1> DEFINE errors == compiler.errors \cup FinishErrors(compiler)
             steps == Resolved(compiler)
             handler == LabelOf(compiler, "_unexp.main")
             found == IF Lint THEN Findings(steps, handler) ELSE {}
  <1>1. /\ outcome' = IF errors # {} THEN [status |-> "refused", errors |-> errors]
                      ELSE [status   |-> "compiled",
                            steps    |-> steps,
                            handler  |-> handler,
                            scope    |-> compiler.scope,
                            txns     |-> DOMAIN compiler.txns,
                            warnings |-> compiler.warnings \cup FinishWarnings(compiler),
                            lints    |-> {f \in found : ~Allowed(compiler, f)}]
        /\ compiler' = compiler
    BY DEF Finish
  <1> SUFFICES ASSUME outcome'.status = "compiled"
               PROVE  OutcomeFollows'
    BY DEF OutcomeFollows, IsCompiled
  <1> HIDE DEF errors, steps, handler, found
  <1>2. errors = {}
    BY <1>1
  <1>3. /\ outcome'.steps = steps /\ outcome'.handler = handler
        /\ outcome'.scope = compiler.scope /\ outcome'.txns = DOMAIN compiler.txns
        /\ outcome'.lints = {f \in found : ~Allowed(compiler, f)}
    BY <1>1, <1>2
  <1>4. compiler.errors = {} /\ FinishErrors(compiler) = {}
    BY <1>2 DEF errors
  <1>5. Lint => \A f \in Findings(outcome'.steps, outcome'.handler) :
                    f \in outcome'.lints <=> ~Allowed(compiler', f)
    BY <1>1, <1>3 DEF found
  <1> QED BY <1>1, <1>3, <1>4, <1>5 DEF OutcomeFollows, steps, handler

\* What the compiler gathered is at every moment what the document says so far, and
\* the scenario it hands over is made of just that (compile_root, finish): for every
\* document, of any length, in any vocabulary.
THEOREM GatheredIsRead == Spec => []IInv
  <1>1. Init => IInv
    BY NothingIsRead
  <1>2. IInv /\ [Next]_vars => IInv'
    <2> SUFFICES ASSUME IInv, [Next]_vars PROVE IInv'
      OBVIOUS
    <2>1. CASE ReadElement
      <3>1. DocumentRead /\ IsCompiler(compiler) /\ compiler.steps \in Seq(Step)
        BY DEF IInv, Gathered, StepsFollow
      <3>2. Len(compiler.steps) \in Nat
        BY <3>1
      <3>3. PICK el : Reading(el)
        BY <2>1, <3>1, <3>2, ElementIsRead
      <3>4. outcome = Pending /\ UNCHANGED <<words, outcome>>
        BY <2>1 DEF ReadElement, Writable, Keeps
      <3> QED BY <3>3, <3>4, ReadingKeeps
    <2>2. CASE ReadDirective
      <3>1. DocumentRead /\ IsCompiler(compiler)
        BY DEF IInv
      <3>2. PICK el : Reading(el)
        BY <2>2, <3>1, DirectiveIsRead
      <3>3. outcome = Pending /\ UNCHANGED <<words, outcome>>
        BY <2>2 DEF ReadDirective, Writable, Keeps
      <3> QED BY <3>2, <3>3, ReadingKeeps
    <2>3. CASE Finish
      <3>1. UNCHANGED <<words, document, compiler>>
        BY <2>3 DEF Finish
      <3> QED BY <2>3, <3>1, NothingElseCounts, FinishFollows DEF IInv
    <2>4. CASE RejectDocument
      <3>1. UNCHANGED <<words, document, compiler>> /\ outcome'.status = "refused"
        BY <2>4 DEF RejectDocument
      <3>2. OutcomeFollows'
        BY <3>1 DEF OutcomeFollows, IsCompiled
      <3> QED BY <3>1, <3>2, NothingElseCounts DEF IInv
    <2>5. CASE UNCHANGED vars
      <3>1. UNCHANGED <<words, document, compiler, outcome>>
        BY <2>5 DEF vars
      <3>2. OutcomeFollows'
        BY <3>1 DEF IInv, OutcomeFollows, IsCompiled
      <3> QED BY <3>1, <3>2, NothingElseCounts DEF IInv
    <2> QED BY <2>1, <2>2, <2>3, <2>4, <2>5 DEF Next
  <1> QED BY <1>1, <1>2, PTL DEF Spec

-----------------------------------------------------------------------------
(* Where branches and jumps lead.                                          *)

\* What a compiled scenario is made of.
LEMMA CompiledFrom ==
    ASSUME IInv, IsCompiled
    PROVE  /\ DocumentRead /\ IsCompiler(compiler)
           /\ StepsFollow /\ BranchesWait /\ LabelsStand
           /\ VariablesKnown /\ TransactionsKnown /\ DirectivesWait
           /\ compiler.errors = {}
           /\ outcome.steps = Resolved(compiler) /\ outcome.handler = LabelOf(compiler, "_unexp.main")
           /\ outcome.scope = compiler.scope /\ outcome.txns = DOMAIN compiler.txns
           /\ \A p \in compiler.pending : LabelOf(compiler, p.label) # 0
           /\ OutOfRange(compiler) = {} /\ HasRole(compiler)
           /\ \A t \in DOMAIN compiler.txns : TxnFaults(compiler.txns[t]) = {}
           /\ \A v \in compiler.read : IsSet(compiler, v)
  <1>1. /\ DocumentRead /\ IsCompiler(compiler)
        /\ StepsFollow /\ BranchesWait /\ LabelsStand
        /\ VariablesKnown /\ TransactionsKnown /\ DirectivesWait
    BY DEF IInv, Gathered
  <1>2. /\ compiler.errors = {} /\ FinishErrors(compiler) = {}
        /\ outcome.steps = Resolved(compiler) /\ outcome.handler = LabelOf(compiler, "_unexp.main")
        /\ outcome.scope = compiler.scope /\ outcome.txns = DOMAIN compiler.txns
    BY DEF IInv, OutcomeFollows
  <1>3. /\ \A p \in compiler.pending : LabelOf(compiler, p.label) # 0
        /\ OutOfRange(compiler) = {} /\ HasRole(compiler)
        /\ UNION {TxnFaults(compiler.txns[t]) : t \in DOMAIN compiler.txns} = {}
        /\ \A v \in compiler.read : IsSet(compiler, v)
    BY <1>2 DEF FinishErrors, When
  <1>4. \A t \in DOMAIN compiler.txns : TxnFaults(compiler.txns[t]) = {}
    BY <1>3
  <1> QED BY <1>1, <1>2, <1>3, <1>4

\* No two steps have one place.
LEMMA PlacesDiffer ==
    ASSUME DocumentRead, StepsFollow, NEW j \in StepElements, NEW k \in StepElements
    PROVE  /\ PlaceOf(j) = PlaceOf(k) => j = k
           /\ PlaceOf(j) < PlaceOf(k) <=> j < k
           /\ PlaceOf(k) \in 1..Len(compiler.steps)
  <1>1. j \in Nat /\ k \in Nat /\ PlaceOf(j) \in Nat /\ PlaceOf(k) \in Nat
    BY StepsAreFew
  <1>2. (j < k => PlaceOf(j) < PlaceOf(k)) /\ (k < j => PlaceOf(k) < PlaceOf(j))
    BY DEF StepsFollow
  <1>3. PlaceOf(k) \in 1..Len(compiler.steps)
    <2>1. compiler.steps \in Seq(Step) /\ PlaceOf(k) \in DOMAIN compiler.steps
      BY DEF StepsFollow
    <2> QED BY <2>1
  <1> QED BY <1>1, <1>2, <1>3

LEMMA LabelPlaces ==
    ASSUME IInv, IsCompiled, NEW l \in DOMAIN compiler.labels
    PROVE  /\ \E k \in LabelElements(l) : compiler.labels[l] = PlaceOf(k)
           /\ \A k \in LabelElements(l) : k \in StepElements /\ compiler.labels[l] = PlaceOf(k)
           /\ \A j, k \in LabelElements(l) : j = k
           /\ compiler.labels[l] \in 1..Len(compiler.steps)
  <1>1. DocumentRead /\ StepsFollow /\ LabelsStand /\ compiler.errors = {}
    BY CompiledFrom
  <1>2. ASSUME NEW k \in LabelElements(l) PROVE k \in StepElements /\ compiler.labels[l] = PlaceOf(k)
    BY <1>1 DEF LabelElements, LabelsStand, StepElements, IsStepAt
  <1>3. LabelElements(l) # {}
    BY <1>1 DEF LabelsStand
  <1>4. ASSUME NEW j \in LabelElements(l), NEW k \in LabelElements(l) PROVE j = k
    BY <1>1, <1>2, PlacesDiffer
  <1>5. \A k \in LabelElements(l) : PlaceOf(k) \in 1..Len(compiler.steps)
    BY <1>1, <1>2, PlacesDiffer
  <1> QED BY <1>2, <1>3, <1>4, <1>5

\* A step branches to its label.
LEMMA BranchIs ==
    ASSUME IInv, IsCompiled, NEW k \in MessageElements, NEW slot \in {"next", "ontimeout"}
    PROVE  LET label == Text(document[k], slot)
               to == Branch(compiler, PlaceOf(k), slot)
           IN  IF slot \in Given(document[k], {"next", "ontimeout"})
                 THEN label \in DOMAIN compiler.labels /\ to = compiler.labels[label]
                 ELSE to = 0
  <1> DEFINE label == Text(document[k], slot)
             i == PlaceOf(k)
             here == {q \in compiler.pending : q.step = i /\ q.slot = slot}
             given == slot \in Given(document[k], {"next", "ontimeout"})
             mine == [step |-> i, slot |-> slot, label |-> label]
  <1>1. /\ DocumentRead /\ StepsFollow /\ BranchesWait /\ LabelsStand /\ compiler.errors = {}
        /\ \A p \in compiler.pending : LabelOf(compiler, p.label) # 0
    BY CompiledFrom
  <1>2. k \in StepElements /\ MessageElements \subseteq StepElements /\ k \in DOMAIN document
    BY DEF MessageElements, StepElements
  <1>3. \A j \in StepElements : PlaceOf(j) \in Nat /\ PlaceOf(j) - 1 + 1 = PlaceOf(j)
    BY <1>1, StepsAreFew
  <1>4. given => document[k].tag # "timewait"
    BY <1>1, <1>2 DEF LabelsStand
  <1>5. here = IF given THEN {mine} ELSE {}
    <2>1. ASSUME NEW q \in here PROVE given /\ q = mine
      <3>1. PICK j \in MessageElements : q \in BranchesOf(document[j], PlaceOf(j) - 1)
        BY <1>1 DEF BranchesWait
      <3>2. PICK s \in Given(document[j], {"next", "ontimeout"}) :
               q = [step |-> PlaceOf(j) - 1 + 1, slot |-> s, label |-> Text(document[j], s)]
        BY <3>1 DEF BranchesOf
      <3>3. PlaceOf(j) = i /\ s = slot
        BY <1>2, <1>3, <3>2
      <3>4. j = k
        BY <1>1, <1>2, <3>3, PlacesDiffer
      <3> QED BY <1>2, <1>3, <3>2, <3>3, <3>4
    <2>2. ASSUME given PROVE mine \in here
      <3>1. mine \in BranchesOf(document[k], i - 1)
        BY <1>2, <1>3, <1>4, <2>2 DEF BranchesOf
      <3> QED BY <1>1, <3>1 DEF BranchesWait
    <2> QED BY <2>1, <2>2
  <1>6. Branch(compiler, i, slot) = IF {p.label : p \in here} = {} THEN 0
                                    ELSE LabelOf(compiler, CHOOSE l \in {p.label : p \in here} : TRUE)
    BY DEF Branch
  <1>7. ASSUME given PROVE label \in DOMAIN compiler.labels /\ Branch(compiler, i, slot) = compiler.labels[label]
    <2>1. {p.label : p \in here} = {label}
      <3>1. here = {mine} /\ mine.label = label
        BY <1>5, <1>7
      <3> HIDE DEF here, mine, label
      <3> QED BY <3>1
    <2>2. LabelOf(compiler, label) # 0
      <3>1. mine \in compiler.pending /\ mine.label = label
        BY <1>5, <1>7
      <3> HIDE DEF mine, label
      <3> QED BY <1>1, <3>1
    <2>3. (CHOOSE l \in {label} : TRUE) = label
      OBVIOUS
    <2> HIDE DEF here, label
    <2> QED BY <1>6, <2>1, <2>2, <2>3 DEF LabelOf
  <1>8. ASSUME ~given PROVE Branch(compiler, i, slot) = 0
    <2>1. here = {}
      BY <1>5, <1>8
    <2> HIDE DEF here
    <2> QED BY <1>6, <2>1
  <1> QED BY <1>7, <1>8

\* The steps before a place that are messages.
BeforeIn(steps, i) == {j \in 1..i - 1 : steps[j].kind # "label"}
IsPlaceOfMessage(steps, n, i) ==
    Cardinality(BeforeIn(steps, i)) = n /\ (i > Len(steps) \/ steps[i].kind # "label")

LEMMA BeforeGrows ==
    ASSUME NEW steps \in Seq(Step), NEW i \in 1..Len(steps) + 1
    PROVE  /\ IsFiniteSet(BeforeIn(steps, i)) /\ Cardinality(BeforeIn(steps, i)) \in Nat
           /\ i <= Len(steps) => Cardinality(BeforeIn(steps, i + 1))
                  = Cardinality(BeforeIn(steps, i)) + (IF steps[i].kind # "label" THEN 1 ELSE 0)
  <1>1. BeforeIn(steps, i) \in SUBSET (1..i - 1) /\ i \notin BeforeIn(steps, i)
    BY DEF BeforeIn
  <1>2. IsFiniteSet(BeforeIn(steps, i))
    <2>1. 1 \in Int /\ i - 1 \in Int
      OBVIOUS
    <2>2. IsFiniteSet(1..i - 1)
      BY <2>1, FS_Interval
    <2> QED BY <1>1, <2>2, FS_Subset
  <1>3. Cardinality(BeforeIn(steps, i)) \in Nat
    BY <1>2, FS_CardinalityType
  <1>4. ASSUME i <= Len(steps)
        PROVE  BeforeIn(steps, i + 1) = BeforeIn(steps, i) \cup (IF steps[i].kind # "label" THEN {i} ELSE {})
    <2>1. 1..i + 1 - 1 = (1..i - 1) \cup {i}
      OBVIOUS
    <2> QED BY <2>1 DEF BeforeIn
  <1>5. Cardinality(BeforeIn(steps, i) \cup {i}) = Cardinality(BeforeIn(steps, i)) + 1
    BY <1>1, <1>2, FS_AddElement
  <1>6. BeforeIn(steps, i) \cup {} = BeforeIn(steps, i)
    OBVIOUS
  <1>7. Cardinality(BeforeIn(steps, i)) + 0 = Cardinality(BeforeIn(steps, i))
    BY <1>3
  <1>8. ASSUME i <= Len(steps)
        PROVE  Cardinality(BeforeIn(steps, i + 1))
                   = Cardinality(BeforeIn(steps, i)) + (IF steps[i].kind # "label" THEN 1 ELSE 0)
    <2>1. CASE steps[i].kind # "label"
      BY <1>4, <1>5, <1>8, <2>1
    <2>2. CASE steps[i].kind = "label"
      BY <1>4, <1>6, <1>7, <1>8, <2>2
    <2> QED BY <2>1, <2>2
  <1> QED BY <1>2, <1>3, <1>8

\* Every message up to one past the last has a place, and one place.
LEMMA StepOfIs ==
    ASSUME NEW steps \in Seq(Step), NEW n \in Nat, n <= Messages(steps)
    PROVE  /\ StepOf(steps, n) \in 1..Len(steps) + 1 /\ IsPlaceOfMessage(steps, n, StepOf(steps, n))
           /\ \A i \in 1..Len(steps) + 1 : IsPlaceOfMessage(steps, n, i) => i = StepOf(steps, n)
  <1> DEFINE end == Len(steps) + 1
             Count(i) == Cardinality(BeforeIn(steps, i))
             T == {i \in 1..end : Count(i) > n}
  <1>1. /\ end \in Nat /\ 1 \in 1..end /\ end \in 1..end
        /\ \A i \in 1..end : Count(i) \in Nat
        /\ \A i \in 1..end : i <= Len(steps) => Count(i + 1) = Count(i) + (IF steps[i].kind # "label" THEN 1 ELSE 0)
    BY BeforeGrows
  <1>2. Count(end) = Messages(steps)
    <2>1. DOMAIN steps = 1..end - 1
      OBVIOUS
    <2> QED BY <2>1 DEF BeforeIn, Messages
  <1>3. Count(1) = 0
    <2>1. BeforeIn(steps, 1) = {}
      BY DEF BeforeIn
    <2> QED BY <2>1, FS_EmptySet
  <1>4. \E i \in 1..end : IsPlaceOfMessage(steps, n, i)
    <2>1. CASE T = {}
      <3>1. ~(Count(end) > n)
        <4> HIDE DEF Count, end
        <4> QED BY <1>1, <2>1
      <3>2. Count(end) = n
        BY <1>1, <1>2, <3>1
      <3> QED BY <1>1, <3>2 DEF IsPlaceOfMessage
    <2>2. CASE T # {}
      <3>1. T \in SUBSET Nat
        BY <1>1
      <3>2. PICK t \in T : \A i \in T : t <= i
        <4> HIDE DEF T
        <4> QED BY <2>2, <3>1, Proved!LeastNatural
      <3>3. t \in 1..end /\ Count(t) > n /\ t # 1
        BY <1>3, <3>2
      <3>4. t - 1 \in 1..end /\ t - 1 <= Len(steps) /\ t - 1 + 1 = t /\ ~(t <= t - 1)
        BY <1>1, <3>3
      <3>5. ~(Count(t - 1) > n)
        BY <3>2, <3>4
      <3>6. Count(t) = Count(t - 1) + (IF steps[t - 1].kind # "label" THEN 1 ELSE 0)
        <4> HIDE DEF Count, end
        <4> QED BY <1>1, <3>4
      <3>7. Count(t - 1) = n /\ steps[t - 1].kind # "label"
        <4>1. Count(t) \in Nat /\ Count(t - 1) \in Nat
          BY <1>1, <3>3, <3>4
        <4> HIDE DEF Count, end
        <4> QED BY <3>3, <3>5, <3>6, <4>1
      <3> QED BY <3>4, <3>7 DEF IsPlaceOfMessage
    <2> QED BY <2>1, <2>2
  <1>5. StepOf(steps, n) = CHOOSE i \in 1..end : IsPlaceOfMessage(steps, n, i)
    BY DEF StepOf, IsPlaceOfMessage, BeforeIn
  <1>6. StepOf(steps, n) \in 1..end /\ IsPlaceOfMessage(steps, n, StepOf(steps, n))
    BY <1>4, <1>5
  <1>7. ASSUME NEW i \in 1..end, NEW h \in 1..end, i < h,
               IsPlaceOfMessage(steps, n, i), IsPlaceOfMessage(steps, n, h)
        PROVE  FALSE
    <2>1. i <= Len(steps) /\ steps[i].kind # "label"
      BY <1>7 DEF IsPlaceOfMessage
    <2>2. BeforeIn(steps, i) \in SUBSET BeforeIn(steps, h) /\ i \in BeforeIn(steps, h) /\ i \notin BeforeIn(steps, i)
      BY <1>7, <2>1 DEF BeforeIn
    <2>3. IsFiniteSet(BeforeIn(steps, h))
      BY BeforeGrows
    <2>4. Count(i) = Count(h)
      BY <1>7 DEF IsPlaceOfMessage
    <2> QED BY <2>2, <2>3, <2>4, FS_Subset
  <1>8. ASSUME NEW i \in 1..end, IsPlaceOfMessage(steps, n, i) PROVE i = StepOf(steps, n)
    <2>1. ~(i < StepOf(steps, n)) /\ ~(StepOf(steps, n) < i)
      BY <1>6, <1>7, <1>8
    <2> QED BY <1>6, <2>1
  <1> QED BY <1>6, <1>8

\* Messages before a step are the elements before it that are messages.
MessagesTo(k) == {j \in MessageElements : j < k}

LEMMA PlacesCount ==
    ASSUME DocumentRead, StepsFollow, NEW U \in SUBSET StepElements
    PROVE  Cardinality({PlaceOf(j) : j \in U}) = Cardinality(U)
  <1> DEFINE V == {PlaceOf(j) : j \in U}
             f == [j \in U |-> PlaceOf(j)]
  <1>1. IsFiniteSet(U)
    <2>1. IsFiniteSet(StepElements)
      BY StepsAreFew
    <2> QED BY <2>1, FS_Subset
  <1>2. \A j, k \in U : PlaceOf(j) = PlaceOf(k) => j = k
    BY PlacesDiffer
  <1>3. f \in Bijection(U, V)
    BY <1>2 DEF Bijection, Injection, Surjection, IsInjective
  <1>4. ExistsBijection(U, V)
    BY <1>3 DEF ExistsBijection
  <1> HIDE DEF V
  <1> QED BY <1>1, <1>4, FS_Bijection DEF V

LEMMA KindsAreTags ==
    ASSUME StepsFollow, NEW k \in StepElements
    PROVE  compiler.steps[PlaceOf(k)].kind # "label" <=> k \in MessageElements
  <1>1. compiler.steps[PlaceOf(k)] = NewStep(document[k])
    BY DEF StepsFollow
  <1>2. NewStep(document[k]).kind = document[k].tag
    BY DEF NewStep
  <1> QED BY <1>1, <1>2 DEF MessageElements

LEMMA MessagesAreElements ==
    ASSUME DocumentRead, StepsFollow
    PROVE  /\ Messages(compiler.steps) = Cardinality(MessageElements)
           /\ \A k \in StepElements : BeforeIn(compiler.steps, PlaceOf(k)) = {PlaceOf(j) : j \in MessagesTo(k)}
           /\ \A k \in StepElements : Cardinality(BeforeIn(compiler.steps, PlaceOf(k))) = Cardinality(MessagesTo(k))
  <1>1. MessageElements \in SUBSET StepElements
    BY DEF MessageElements
  <1>2. compiler.steps \in Seq(Step) /\ DOMAIN compiler.steps = 1..Len(compiler.steps)
        /\ \A i \in DOMAIN compiler.steps : \E k \in StepElements : PlaceOf(k) = i
    BY DEF StepsFollow
  <1>3. \A k \in StepElements : PlaceOf(k) \in DOMAIN compiler.steps
    BY <1>2, PlacesDiffer
  <1>4. {i \in DOMAIN compiler.steps : compiler.steps[i].kind # "label"} = {PlaceOf(j) : j \in MessageElements}
    <2>1. ASSUME NEW i \in DOMAIN compiler.steps, compiler.steps[i].kind # "label"
          PROVE  \E j \in MessageElements : i = PlaceOf(j)
      <3>1. PICK k \in StepElements : PlaceOf(k) = i
        BY <1>2
      <3>2. k \in MessageElements
        BY <2>1, <3>1, KindsAreTags
      <3> QED BY <3>1, <3>2
    <2>2. ASSUME NEW j \in MessageElements
          PROVE  PlaceOf(j) \in DOMAIN compiler.steps /\ compiler.steps[PlaceOf(j)].kind # "label"
      BY <1>1, <1>3, KindsAreTags
    <2> QED BY <2>1, <2>2
  <1>5. Messages(compiler.steps) = Cardinality(MessageElements)
    BY <1>1, <1>4, PlacesCount DEF Messages
  <1>6. ASSUME NEW k \in StepElements
        PROVE  BeforeIn(compiler.steps, PlaceOf(k)) = {PlaceOf(j) : j \in MessagesTo(k)}
    <2> DEFINE i == PlaceOf(k)
    <2>1. i \in 1..Len(compiler.steps) /\ 1..i - 1 \subseteq DOMAIN compiler.steps
          /\ \A h \in 1..i - 1 : h < i
      BY <1>2, <1>3
    <2>2. ASSUME NEW h \in 1..i - 1, compiler.steps[h].kind # "label" PROVE \E j \in MessagesTo(k) : h = PlaceOf(j)
      <3>1. h \in DOMAIN compiler.steps /\ h < i
        BY <2>1
      <3>2. PICK j \in StepElements : PlaceOf(j) = h
        BY <1>2, <3>1
      <3>3. j \in MessageElements /\ j < k
        BY <2>2, <3>1, <3>2, KindsAreTags, PlacesDiffer
      <3> QED BY <3>2, <3>3 DEF MessagesTo
    <2>3. ASSUME NEW j \in MessagesTo(k) PROVE PlaceOf(j) \in 1..i - 1 /\ compiler.steps[PlaceOf(j)].kind # "label"
      <3>1. j \in StepElements /\ j \in MessageElements /\ j < k
        BY <1>1 DEF MessagesTo
      <3>2. PlaceOf(j) < i /\ PlaceOf(j) \in 1..Len(compiler.steps)
        BY <3>1, PlacesDiffer
      <3>3. PlaceOf(j) \in 1..i - 1
        BY <2>1, <3>2
      <3> QED BY <3>1, <3>3, KindsAreTags
    <2> QED BY <2>2, <2>3 DEF BeforeIn
  <1>7. ASSUME NEW k \in StepElements
        PROVE  Cardinality(BeforeIn(compiler.steps, PlaceOf(k))) = Cardinality(MessagesTo(k))
    <2>1. MessagesTo(k) \in SUBSET StepElements
      BY <1>1 DEF MessagesTo
    <2> QED BY <1>6, <2>1, PlacesCount
  <1> QED BY <1>5, <1>6, <1>7

\* The step of a message's number is the place of the element of that number.
LEMMA StepOfIsPlace ==
    ASSUME DocumentRead, StepsFollow, NEW n \in Nat, n <= Messages(compiler.steps)
    PROVE  StepOf(compiler.steps, n) = MessagePlace(n)
  <1> DEFINE steps == compiler.steps
             i == StepOf(steps, n)
  <1>1. steps \in Seq(Step) /\ Len(steps) = Cardinality(StepElements) /\ DOMAIN steps = 1..Len(steps)
        /\ Len(steps) \in Nat
    BY DEF StepsFollow
  <1>2. /\ i \in 1..Len(steps) + 1 /\ IsPlaceOfMessage(steps, n, i)
        /\ \A h \in 1..Len(steps) + 1 : IsPlaceOfMessage(steps, n, h) => h = i
    BY <1>1, StepOfIs
  <1>3. Messages(steps) = Cardinality(BeforeIn(steps, Len(steps) + 1))
    <2>1. 1..(Len(steps) + 1) - 1 = DOMAIN steps
      BY <1>1
    <2> HIDE DEF steps
    <2> QED BY <2>1 DEF Messages, BeforeIn
  <1>4. Messages(steps) = Cardinality(MessageElements)
        /\ \A k \in StepElements : Cardinality(BeforeIn(steps, PlaceOf(k))) = Cardinality(MessagesTo(k))
    BY MessagesAreElements
  <1>5. CASE n = Cardinality(MessageElements)
    <2>1. IsPlaceOfMessage(steps, n, Len(steps) + 1) /\ Len(steps) + 1 \in 1..Len(steps) + 1
      BY <1>1, <1>3, <1>4, <1>5 DEF IsPlaceOfMessage
    <2>2. i = Len(steps) + 1
      BY <1>2, <2>1
    <2> QED BY <1>1, <1>5, <2>2 DEF MessagePlace
  <1>6. CASE n # Cardinality(MessageElements)
    <2>1. i # Len(steps) + 1
      BY <1>2, <1>3, <1>4, <1>6 DEF IsPlaceOfMessage
    <2>2. i \in DOMAIN steps /\ ~(i > Len(steps))
      BY <1>1, <1>2, <2>1
    <2>3. steps[i].kind # "label" /\ Cardinality(BeforeIn(steps, i)) = n
      BY <1>2, <2>2 DEF IsPlaceOfMessage
    <2>4. PICK k0 \in StepElements : PlaceOf(k0) = i
      BY <2>2 DEF StepsFollow
    <2>5. k0 \in MessageElements /\ Cardinality(MessagesTo(k0)) = n
      BY <1>4, <2>3, <2>4, KindsAreTags
    <2> DEFINE k == CHOOSE x \in MessageElements : Cardinality(MessagesTo(x)) = n
    <2>6. k \in MessageElements /\ Cardinality(MessagesTo(k)) = n
      BY <2>5
    <2> HIDE DEF k
    <2>7. k \in StepElements
      BY <2>6 DEF MessageElements
    <2>8. PlaceOf(k) \in 1..Len(steps) + 1 /\ IsPlaceOfMessage(steps, n, PlaceOf(k))
      <3>1. PlaceOf(k) \in 1..Len(steps)
        BY <2>7, PlacesDiffer
      <3>2. steps[PlaceOf(k)].kind # "label"
        BY <2>6, <2>7, KindsAreTags
      <3> QED BY <1>1, <1>4, <2>6, <2>7, <3>1, <3>2 DEF IsPlaceOfMessage
    <2>9. PlaceOf(k) = i
      BY <1>2, <2>8
    <2>10. MessagePlace(n) = PlaceOf(k)
      BY <1>6 DEF MessagePlace, MessagesTo, k
    <2> QED BY <2>9, <2>10
  <1> QED BY <1>5, <1>6

\* An element that jumps to one message jumps to it.
LEMMA OneJump ==
    ASSUME NEW el, IsElement(el), Cardinality(JumpsTo(el.actions)) = 1, NEW n \in JumpsTo(el.actions)
    PROVE  n \in Nat /\ NewStep(el).jump = n + 1
  <1> DEFINE J == JumpsTo(el.actions)
             most == Max(Numbered(el.actions))
  <1>1. /\ J \subseteq Nat /\ most \in Numbered(el.actions)
        /\ \A x \in Numbered(el.actions) : x <= most
    BY GreatestJump
  <1>2. Numbered(el.actions) = {0} \cup {x + 1 : x \in J}
    BY DEF Numbered
  <1>3. most \in Nat /\ \A x \in J : x <= most
    <2>1. most \in Nat
      BY <1>1, <1>2
    <2>2. ASSUME NEW x \in J PROVE x <= most
      <3>1. x + 1 \in Numbered(el.actions) /\ x \in Nat
        BY <1>1, <1>2
      <3>2. x + 1 <= most
        BY <1>1, <3>1
      <3> HIDE DEF most
      <3> QED BY <2>1, <3>1, <3>2
    <2> QED BY <2>1, <2>2
  <1>4. IsFiniteSet(J)
    <2> HIDE DEF J, most
    <2>1. J \in SUBSET Nat
      BY <1>1
    <2> QED BY <1>3, <2>1, FS_BoundedSetOfNaturals
  <1>5. J = {n}
    <2>1. PICK x : J = {x}
      BY <1>4, FS_Singleton
    <2> QED BY <2>1
  <1>6. n \in Nat /\ Numbered(el.actions) = {0, n + 1}
    BY <1>1, <1>2, <1>5
  <1>7. n + 1 \in Numbered(el.actions) /\ n + 1 <= most
    BY <1>1, <1>6
  <1>8. most = n + 1
    <2> HIDE DEF most
    <2> QED BY <1>1, <1>6, <1>7
  <1>9. NewStep(el).jump = Max({0} \cup {x + 1 : x \in JumpsTo(el.actions)})
    BY DEF NewStep
  <1> QED BY <1>6, <1>8, <1>9 DEF Numbered

-----------------------------------------------------------------------------
(* What a compiled scenario is for its author and for the engine.          *)

LEMMA StepsOfOutcome ==
    ASSUME IInv, IsCompiled, NEW k \in StepElements
    PROVE  /\ PlaceOf(k) \in DOMAIN compiler.steps
           /\ outcome.steps[PlaceOf(k)].next = Branch(compiler, PlaceOf(k), "next")
           /\ outcome.steps[PlaceOf(k)].ontimeout = Branch(compiler, PlaceOf(k), "ontimeout")
           /\ outcome.steps[PlaceOf(k)].jump =
                IF NewStep(document[k]).jump = 0 THEN 0
                ELSE StepOf(compiler.steps, NewStep(document[k]).jump - 1)
           /\ NewStep(document[k]).jump <= Messages(compiler.steps) + 1
  <1> DEFINE i == PlaceOf(k)
             c == compiler
             old == c.steps[i]
  <1>1. /\ outcome.steps = Resolved(c) /\ OutOfRange(c) = {} /\ StepsFollow
    BY CompiledFrom
  <1>2. i \in DOMAIN c.steps /\ old = NewStep(document[k]) /\ old \in Step
    BY <1>1 DEF StepsFollow
  <1>3. outcome.steps[i] = [old EXCEPT !.next = Branch(c, i, "next"),
                                       !.ontimeout = Branch(c, i, "ontimeout"),
                                       !.jump = IF @ = 0 \/ i \in OutOfRange(c) THEN 0 ELSE StepOf(c.steps, @ - 1)]
    BY <1>1, <1>2 DEF Resolved
  <1>4. i \notin OutOfRange(c) /\ ~(old.jump > Messages(c.steps) + 1)
    BY <1>1, <1>2 DEF OutOfRange
  <1>5. old.jump \in Nat
    BY <1>2 DEF Step
  <1>6. Messages(c.steps) \in Nat
    <2>1. {j \in DOMAIN c.steps : c.steps[j].kind # "label"} \in SUBSET (1..Len(c.steps)) /\ Len(c.steps) \in Nat
      BY <1>1 DEF StepsFollow
    <2>2. IsFiniteSet({j \in DOMAIN c.steps : c.steps[j].kind # "label"})
      <3>1. IsFiniteSet(1..Len(c.steps))
        BY <2>1, FS_Interval
      <3> QED BY <2>1, <3>1, FS_Subset
    <2> QED BY <2>2, FS_CardinalityType DEF Messages
  <1>7. old.jump <= Messages(c.steps) + 1
    BY <1>4, <1>5, <1>6
  <1>8. /\ outcome.steps[i].next = Branch(c, i, "next")
        /\ outcome.steps[i].ontimeout = Branch(c, i, "ontimeout")
        /\ outcome.steps[i].jump = IF old.jump = 0 THEN 0 ELSE StepOf(c.steps, old.jump - 1)
    <2> HIDE DEF old, i, c
    <2> QED BY <1>2, <1>3, <1>4 DEF Step
  <1> QED BY <1>2, <1>7, <1>8

LEMMA BranchesFind ==
    ASSUME IInv
    PROVE  BranchesFindTheirPlace
  <1> SUFFICES ASSUME IsCompiled, NEW k \in MessageElements
               PROVE  LET el == document[k]
                          step == outcome.steps[PlaceOf(k)]
                      IN  /\ \A slot \in Given(el, {"next", "ontimeout"}) :
                                 \A l \in LabelElements(Text(el, slot)) :
                                     PlaceOf(l) = IF slot = "next" THEN step.next ELSE step.ontimeout
                          /\ \A n \in JumpsTo(el.actions) :
                                 Cardinality(JumpsTo(el.actions)) = 1 => step.jump = MessagePlace(n)
    BY DEF BranchesFindTheirPlace
  <1> DEFINE el == document[k]
             step == outcome.steps[PlaceOf(k)]
  <1>1. k \in StepElements /\ k \in DOMAIN document
    BY DEF MessageElements, StepElements
  <1>2. DocumentRead /\ StepsFollow
    BY CompiledFrom
  <1>3. IsElement(el)
    BY <1>1, <1>2, StepsAreFew, ElementsAreElements
  <1>4. /\ step.next = Branch(compiler, PlaceOf(k), "next")
        /\ step.ontimeout = Branch(compiler, PlaceOf(k), "ontimeout")
        /\ step.jump = IF NewStep(el).jump = 0 THEN 0 ELSE StepOf(compiler.steps, NewStep(el).jump - 1)
        /\ NewStep(el).jump <= Messages(compiler.steps) + 1
    BY <1>1, StepsOfOutcome
  <1>5. ASSUME NEW slot \in Given(el, {"next", "ontimeout"}), NEW l \in LabelElements(Text(el, slot))
        PROVE  PlaceOf(l) = IF slot = "next" THEN step.next ELSE step.ontimeout
    <2>1. slot \in {"next", "ontimeout"}
      BY DEF Given
    <2>2. Text(el, slot) \in DOMAIN compiler.labels
          /\ Branch(compiler, PlaceOf(k), slot) = compiler.labels[Text(el, slot)]
      BY <2>1, BranchIs
    <2>3. compiler.labels[Text(el, slot)] = PlaceOf(l)
      BY <2>2, LabelPlaces
    <2> QED BY <1>4, <2>1, <2>2, <2>3
  <1>6. ASSUME NEW n \in JumpsTo(el.actions), Cardinality(JumpsTo(el.actions)) = 1
        PROVE  step.jump = MessagePlace(n)
    <2>1. n \in Nat /\ NewStep(el).jump = n + 1
      BY <1>3, <1>6, OneJump
    <2>2. step.jump = StepOf(compiler.steps, n)
      <3>1. n + 1 # 0 /\ n + 1 - 1 = n
        BY <2>1
      <3> QED BY <1>4, <2>1, <3>1
    <2>3. Messages(compiler.steps) \in Nat
      <3>1. Messages(compiler.steps) = Cardinality(MessageElements)
        BY <1>2, MessagesAreElements
      <3>2. MessageElements \in SUBSET StepElements /\ IsFiniteSet(StepElements)
        BY <1>2, StepsAreFew DEF MessageElements
      <3>3. IsFiniteSet(MessageElements)
        BY <3>2, FS_Subset
      <3> QED BY <3>1, <3>3, FS_CardinalityType
    <2>4. n <= Messages(compiler.steps)
      BY <1>4, <2>1, <2>3
    <2> QED BY <1>2, <2>1, <2>2, <2>4, StepOfIsPlace
  <1> QED BY <1>5, <1>6

LEMMA CompiledSound ==
    ASSUME IInv
    PROVE  CompiledIsSound
  <1> SUFFICES ASSUME IsCompiled, NEW k \in MessageElements
               PROVE  /\ \A slot \in Given(document[k], {"next", "ontimeout"}) :
                            Cardinality(LabelElements(Text(document[k], slot))) = 1
                      /\ \A v \in ReadIn(document[k]) :
                            \/ v \in EngineVars
                            \/ \E j \in MessageElements : \E b \in document[j].actions : v \in WrittenBy(b)
                            \/ \E j \in DOMAIN document :
                                  document[j].tag = "Global" /\ v \in VarsIn(document[j], {"variables"})
    BY DEF CompiledIsSound, Sound
  <1>1. VariablesKnown /\ \A v \in compiler.read : IsSet(compiler, v)
    BY CompiledFrom
  <1>2. ASSUME NEW slot \in Given(document[k], {"next", "ontimeout"})
        PROVE  Cardinality(LabelElements(Text(document[k], slot))) = 1
    <2> DEFINE id == Text(document[k], slot)
    <2>1. id \in DOMAIN compiler.labels
      <3>1. slot \in {"next", "ontimeout"}
        BY DEF Given
      <3> QED BY <3>1, BranchIs
    <2>2. PICK l : l \in LabelElements(id)
      BY <2>1, LabelPlaces
    <2>3. LabelElements(id) = {l}
      <3>1. \A j, h \in LabelElements(id) : j = h
        BY <2>1, LabelPlaces
      <3> HIDE DEF id
      <3> QED BY <2>2, <3>1
    <2> QED BY <2>3, FS_Singleton
  <1>3. ASSUME NEW v \in ReadIn(document[k])
        PROVE  \/ v \in EngineVars
               \/ \E j \in MessageElements : \E b \in document[j].actions : v \in WrittenBy(b)
               \/ \E j \in DOMAIN document :
                     document[j].tag = "Global" /\ v \in VarsIn(document[j], {"variables"})
    <2>1. v \in compiler.read
      BY <1>1 DEF VariablesKnown
    <2>2. v \in compiler.written \/ v \in EngineVars
          \/ (v \in DOMAIN compiler.scope /\ compiler.scope[v] = "global")
      BY <1>1, <2>1 DEF IsSet, SetElsewhere
    <2>3. CASE v \in compiler.written
      BY <1>1, <2>3 DEF VariablesKnown, WrittenIn
    <2>4. CASE v \in DOMAIN compiler.scope /\ compiler.scope[v] = "global"
      BY <1>1, <2>4 DEF VariablesKnown, DeclaredAs
    <2> QED BY <2>2, <2>3, <2>4
  <1> QED BY <1>2, <1>3

\* Every branch and every jump of the outcome leads to a step, or past the last one.
LEMMA OutcomeResolved ==
    ASSUME IInv, IsCompiled
    PROVE  /\ outcome.steps \in Seq(Step) /\ outcome.steps # <<>>
           /\ Len(outcome.steps) = Len(compiler.steps)
           /\ \A i \in DOMAIN outcome.steps :
                 {outcome.steps[i].next, outcome.steps[i].ontimeout, outcome.steps[i].jump}
                     \subseteq 0..Len(outcome.steps) + 1
           /\ outcome.handler \in 0..Len(outcome.steps)
  <1> DEFINE c == compiler
             m == Len(c.steps)
             to(i, slot) == Branch(c, i, slot)
  <1>1. /\ DocumentRead /\ StepsFollow /\ HasRole(c)
        /\ outcome.steps = Resolved(c) /\ outcome.handler = LabelOf(c, "_unexp.main")
    BY CompiledFrom
  <1>2. /\ c.steps \in Seq(Step) /\ m \in Nat /\ DOMAIN c.steps = 1..m
        /\ \A i \in 1..m : c.steps[i] \in Step
    BY <1>1 DEF StepsFollow
  <1>3. ASSUME NEW l PROVE LabelOf(c, l) \in 0..m
    <2>1. l \in DOMAIN c.labels => c.labels[l] \in 1..m
      BY LabelPlaces
    <2> QED BY <1>2, <2>1 DEF LabelOf
  <1>4. ASSUME NEW i, NEW slot PROVE to(i, slot) \in 0..m
    BY <1>2, <1>3 DEF Branch
  <1>5. DOMAIN outcome.steps = 1..m
    BY <1>1, <1>2 DEF Resolved
  <1>6. ASSUME NEW i \in 1..m
        PROVE  /\ outcome.steps[i] \in Step
               /\ outcome.steps[i].next \in 0..m + 1 /\ outcome.steps[i].ontimeout \in 0..m + 1
               /\ outcome.steps[i].jump \in 0..m + 1
    <2>1. PICK k \in StepElements : PlaceOf(k) = i
      BY <1>1, <1>2 DEF StepsFollow
    <2> DEFINE jump == IF c.steps[i].jump = 0 \/ i \in OutOfRange(c) THEN 0
                       ELSE StepOf(c.steps, c.steps[i].jump - 1)
    <2>2. outcome.steps[i] = [c.steps[i] EXCEPT !.next = to(i, "next"), !.ontimeout = to(i, "ontimeout"),
                                                !.jump = jump]
      BY <1>1, <1>2 DEF Resolved
    <2>3. c.steps[i] \in Step
      BY <1>2
    <2>4. to(i, "next") \in 0..m + 1 /\ to(i, "ontimeout") \in 0..m + 1
          /\ to(i, "next") \in Nat /\ to(i, "ontimeout") \in Nat
      <3>1. to(i, "next") \in 0..m /\ to(i, "ontimeout") \in 0..m
        BY <1>4
      <3> HIDE DEF to, m
      <3> QED BY <1>2, <3>1
    <2>5. jump \in 0..m + 1
      <3>1. CASE c.steps[i].jump = 0 \/ i \in OutOfRange(c)
        BY <1>2, <3>1
      <3>2. CASE c.steps[i].jump # 0 /\ i \notin OutOfRange(c)
        <4>1. c.steps[i].jump \in Nat /\ ~(c.steps[i].jump > Messages(c.steps) + 1)
          BY <1>2, <2>3, <3>2 DEF OutOfRange, Step
        <4>2. Messages(c.steps) \in Nat
          <5>1. Messages(c.steps) = Cardinality(MessageElements)
            BY <1>1, MessagesAreElements
          <5>2. MessageElements \in SUBSET StepElements /\ IsFiniteSet(StepElements)
            BY <1>1, StepsAreFew DEF MessageElements
          <5>3. IsFiniteSet(MessageElements)
            BY <5>2, FS_Subset
          <5> QED BY <5>1, <5>3, FS_CardinalityType
        <4>3. PICK n \in Nat : n = c.steps[i].jump - 1 /\ n <= Messages(c.steps)
          BY <3>2, <4>1, <4>2
        <4>4. StepOf(c.steps, n) \in 1..m + 1
          BY <1>2, <4>3, StepOfIs
        <4> QED BY <1>2, <3>2, <4>3, <4>4
      <3> QED BY <3>1, <3>2
    <2>6. jump \in Nat
      <3> HIDE DEF jump, m
      <3> QED BY <1>2, <2>5
    <2>7. /\ outcome.steps[i] \in Step /\ outcome.steps[i].next = to(i, "next")
          /\ outcome.steps[i].ontimeout = to(i, "ontimeout") /\ outcome.steps[i].jump = jump
      <3> HIDE DEF jump, to, c, m
      <3>1. PICK s \in Step, a \in Nat, b \in Nat, j \in Nat :
               s = c.steps[i] /\ a = to(i, "next") /\ b = to(i, "ontimeout") /\ j = jump
        BY <2>3, <2>4, <2>6
      <3>2. outcome.steps[i] = [s EXCEPT !.next = a, !.ontimeout = b, !.jump = j]
        BY <2>2, <3>1
      <3>3. LET d == [s EXCEPT !.next = a, !.ontimeout = b, !.jump = j] IN
            d \in Step /\ d.next = a /\ d.ontimeout = b /\ d.jump = j
        BY DEF Step
      <3> QED BY <3>1, <3>2, <3>3
    <2> HIDE DEF jump, to, c, m
    <2> QED BY <2>4, <2>5, <2>7
  <1>7. outcome.steps \in Seq(Step) /\ Len(outcome.steps) = m
    <2>1. outcome.steps = [i \in 1..m |-> outcome.steps[i]]
      BY <1>1, <1>2, <1>5 DEF Resolved
    <2>2. outcome.steps \in [1..m -> Step]
      <3> HIDE DEF m
      <3> QED BY <1>6, <2>1
    <2> HIDE DEF m
    <2> QED BY <1>2, <2>2
  <1>8. m # 0
    BY <1>1, <1>2 DEF HasRole
  <1>9. outcome.steps # <<>>
    BY <1>7, <1>8
  <1>10. outcome.handler \in 0..m
    BY <1>1, <1>3
  <1> HIDE DEF m
  <1> QED BY <1>2, <1>5, <1>6, <1>7, <1>9, <1>10 DEF m

\* The scenario a call is given branches and jumps nowhere but to a step or past the
\* last one (finish, resolve_jump_values): what the proofs about a call assume of its
\* scenario (CallMachine's StepsAssumption) is so of all the compiler hands over.
LEMMA CompiledResolved ==
    ASSUME IInv
    PROVE  CompiledIsResolved
  BY OutcomeResolved DEF CompiledIsResolved, Engine!Resolved, Engine!End, Engine!Step, Step

\* Of every document that compiles: a branch finds the one label it names, also when
\* the label comes later, a jump finds the message of its number, labels are there
\* once and no variable is read that nothing sets (compile_root, finish).
THEOREM CompiledFaithfully == Spec => []CompiledIsFaithful
  <1>1. IInv => CompiledIsFaithful
    BY BranchesFind, CompiledSound, CompiledResolved DEF CompiledIsFaithful
  <1> QED BY <1>1, GatheredIsRead, PTL

-----------------------------------------------------------------------------
(* What a document declares.                                               *)

LEMMA ScopesMeet ==
    ASSUME IInv
    PROVE  ScopesMeetDeclarations
  <1> SUFFICES ASSUME IsCompiled, NEW v \in DOMAIN outcome.scope
               PROVE  /\ DeclaredAs("Global", v) => outcome.scope[v] = "global"
                      /\ DeclaredAs("User", v) => outcome.scope[v] = "user"
                      /\ ~DeclaredAs("Global", v) /\ ~DeclaredAs("User", v) => outcome.scope[v] = "call"
    BY DEF ScopesMeetDeclarations, DeclaredAs
  <1>1. VariablesKnown /\ compiler.errors = {} /\ outcome.scope = compiler.scope
    BY CompiledFrom
  <1>2. ASSUME NEW k \in DOMAIN document, v \in VarsIn(document[k], {"variables"})
        PROVE  /\ document[k].tag = "Global" => outcome.scope[v] = "global"
               /\ document[k].tag = "User" => outcome.scope[v] = "user"
    BY <1>1, <1>2 DEF VariablesKnown
  <1>3. /\ outcome.scope[v] \in {"call", "global", "user"}
        /\ outcome.scope[v] = "global" => DeclaredAs("Global", v)
        /\ outcome.scope[v] = "user" => DeclaredAs("User", v)
    BY <1>1 DEF VariablesKnown
  <1> QED BY <1>2, <1>3 DEF DeclaredAs

LEMMA TransactionsOpened ==
    ASSUME IInv
    PROVE  TransactionsAreOpened
  <1> SUFFICES ASSUME IsCompiled, NEW t \in outcome.txns
               PROVE  /\ \E k \in StepElements : document[k].tag = "send" /\ Text(document[k], "start_txn") = t
                      /\ \E k \in StepElements : document[k].tag = "recv" /\ Text(document[k], "response_txn") = t
    BY DEF TransactionsAreOpened
  <1>1. /\ TransactionsKnown /\ IsCompiler(compiler) /\ t \in DOMAIN compiler.txns
        /\ TxnFaults(compiler.txns[t]) = {}
    BY CompiledFrom
  <1>2. compiler.txns[t].started # 0 /\ ~(compiler.txns[t].started > 0 /\ compiler.txns[t].responses = 0)
    BY <1>1 DEF TxnFaults, When
  <1>3. compiler.txns[t].started \in Nat
    BY <1>1 DEF IsCompiler
  <1>4. compiler.txns[t].responses # 0
    BY <1>2, <1>3
  <1> QED BY <1>1, <1>2, <1>4 DEF TransactionsKnown, Starts, Answers

\* A finding is about a step.
LEMMA FindingsAreSteps ==
    ASSUME NEW steps, NEW handler, NEW f \in Findings(steps, handler)
    PROVE  f.step \in DOMAIN steps
  BY DEF Findings, ModelOf!OptionalWindows, ModelOf!RunStarts, ModelOf!UnreachableSteps, ModelOf!Dead

LEMMA DirectivesSilence ==
    ASSUME IInv
    PROVE  DirectivesSilenceTheirStep
  <1> SUFFICES ASSUME IsCompiled, Lint, NEW f \in Findings(outcome.steps, outcome.handler)
               PROVE  f \notin outcome.lints <=>
                          \E j \in DirectivesBefore(ElementOf(f.step)) : f.lint \in document[j].body.vars
    BY DEF DirectivesSilenceTheirStep
  <1>1. /\ DocumentRead /\ StepsFollow /\ DirectivesWait /\ outcome.steps = Resolved(compiler)
    BY CompiledFrom
  <1>2. f \in outcome.lints <=> ~Allowed(compiler, f)
    BY DEF IInv, OutcomeFollows
  <1>3. f.step \in DOMAIN compiler.steps
    <2>1. f.step \in DOMAIN outcome.steps
      BY FindingsAreSteps
    <2> QED BY <1>1, <2>1 DEF Resolved
  <1> DEFINE k == ElementOf(f.step)
  <1>4. k \in StepElements /\ PlaceOf(k) = f.step
    <2>1. \E x \in StepElements : PlaceOf(x) = f.step
      BY <1>1, <1>3 DEF StepsFollow
    <2> QED BY <2>1 DEF ElementOf
  <1> HIDE DEF k
  <1>5. UNION {allow.lints : allow \in {a \in compiler.allows : a.step = f.step}} = AllowedAt(k)
    BY <1>1, <1>4 DEF DirectivesWait
  <1>6. Allowed(compiler, f) <=> f.lint \in AllowedAt(k)
    BY <1>5 DEF Allowed
  <1> QED BY <1>2, <1>6 DEF AllowedAt, k

\* Of every document that compiles: a variable has the scope it is declared with
\* wherever the declaration stands (compile_scope_declaration), a named transaction
\* is opened by some send and answered at some recv (validate_txn_usage), and a
\* sipr-lint directive silences its lints for the step right after it and for no
\* other (lint_directive, run_lints).
THEOREM DeclarationsKept == Spec => []DeclarationsAreKept
  <1>1. IInv => DeclarationsAreKept
    BY ScopesMeet, TransactionsOpened, DirectivesSilence DEF DeclarationsAreKept
  <1> QED BY <1>1, GatheredIsRead, PTL

-----------------------------------------------------------------------------
(* The lints.  The lints of the outcome are those of StepFlowProofs: two   *)
(* instances of one module, definition by definition.                      *)

LEMMA SameReach == Lints!Within = Proved!Within
  BY DEF Lints!End, Proved!End, Lints!Branches, Proved!Branches, Lints!Conditional,
         Proved!Conditional, Lints!NextSteps, Proved!NextSteps, Lints!IsMessage,
         Proved!IsMessage, Lints!MessagesBefore, Proved!MessagesBefore,
         Lints!MessageIndex, Proved!MessageIndex, Lints!StepOfMessage,
         Proved!StepOfMessage, Lints!MessageBefore, Proved!MessageBefore, Lints!AfterJump,
         Proved!AfterJump, Lints!Jumps, Proved!Jumps, Lints!Targets, Proved!Targets,
         Lints!Destinations, Proved!Destinations, Lints!Unset, Proved!Unset,
         Lints!MovesOn, Proved!MovesOn, Lints!WaitAfterJump, Proved!WaitAfterJump,
         Lints!CmdSkips, Proved!CmdSkips, Lints!TakesCmd, Proved!TakesCmd, Lints!Answers,
         Proved!Answers, Lints!Onto, Proved!Onto, Lints!WaitsOn, Proved!WaitsOn,
         Lints!PassesOver, Proved!PassesOver, Lints!Rests, Proved!Rests, Lints!Anywhere,
         Proved!Anywhere, Lints!TimeoutLabels, Proved!TimeoutLabels, Lints!Leads,
         Proved!Leads, Lints!Marks, Proved!Marks, Lints!Within, Proved!Within,
         Lints!Window, Proved!Window, Lints!Skippable, Proved!Skippable, Lints!Max,
         Proved!Max, Lints!Cardinality, Proved!Cardinality

LEMMA SameNear == Lints!Near = Proved!Near
  BY DEF Lints!Near, Proved!Near, Lints!Successors, Proved!Successors, Lints!Timeouts,
         Proved!Timeouts, Lints!FallsThrough, Proved!FallsThrough, Lints!JumpLanding,
         Proved!JumpLanding, Lints!Before, Proved!Before, Lints!Max, Proved!Max,
         Lints!JumpTakesEffect, Proved!JumpTakesEffect, Lints!AlwaysJumps,
         Proved!AlwaysJumps, Lints!IsOptional, Proved!IsOptional, Lints!IsReceive,
         Proved!IsReceive

LEMMA SameDead == Lints!Dead = Proved!Dead
  BY SameNear DEF Lints!Dead, Proved!Dead, Lints!Found, Proved!Found, Lints!Unknowable,
                  Proved!Unknowable, Lints!JumpTakesEffect, Proved!JumpTakesEffect

LEMMA SameForesight == Lints!Foreseen <=> Proved!Foreseen
  BY SameDead DEF Lints!Foreseen, Proved!Foreseen, Lints!TakesCmd, Proved!TakesCmd,
                  Lints!CmdSkips, Proved!CmdSkips, Lints!AlwaysJumps, Proved!AlwaysJumps

LEMMA SameWindows == Lints!OptionalsHaveAWindow <=> Proved!OptionalsHaveAWindow
  BY DEF Lints!OptionalsHaveAWindow, Proved!OptionalsHaveAWindow, Lints!RunStarts,
         Proved!RunStarts, Lints!IsOptional, Proved!IsOptional, Lints!IsReceive,
         Proved!IsReceive, Lints!InRun, Proved!InRun, Lints!AfterRun, Proved!AfterRun,
         Lints!AllTimed, Proved!AllTimed, Lints!HoldsTheCall, Proved!HoldsTheCall,
         Lints!End, Proved!End, Lints!Window, Proved!Window, Lints!Skippable,
         Proved!Skippable, Lints!Min, Proved!Min

LEMMA SameTruth == Lints!TellTheTruth <=> Proved!TellTheTruth
  <1>1. Lints!DeadStepsNeverRun <=> Proved!DeadStepsNeverRun
    BY SameReach, SameDead DEF Lints!DeadStepsNeverRun, Proved!DeadStepsNeverRun,
                              Lints!Reached, Proved!Reached, Lints!End, Proved!End
  <1> QED BY <1>1, SameWindows DEF Lints!TellTheTruth, Proved!TellTheTruth

\* Without the pauses it restores a scenario branches and jumps as before.
LEMMA UnrestoredResolved ==
    ASSUME IInv, IsCompiled
    PROVE  Proved!Resolved
  <1> DEFINE old == outcome.steps
             new == Unrestored(old)
             m == Len(old)
  <1>1. /\ old \in Seq(Step) /\ old # <<>>
        /\ \A i \in DOMAIN old : {old[i].next, old[i].ontimeout, old[i].jump} \subseteq 0..m + 1
        /\ outcome.handler \in 0..m
    BY OutcomeResolved
  <1>2. m \in Nat /\ DOMAIN old = 1..m
    BY <1>1
  <1>3. ASSUME NEW i \in 1..m
        PROVE  /\ new[i] \in Step /\ new[i].next = old[i].next
               /\ new[i].ontimeout = old[i].ontimeout /\ new[i].jump = old[i].jump
    <2>1. old[i] \in Step /\ new[i] = [old[i] EXCEPT !.restores = FALSE]
      BY <1>1, <1>2 DEF Unrestored
    <2> HIDE DEF old, new
    <2> QED BY <2>1 DEF Step
  <1>4. new \in Seq(Step) /\ Len(new) = m /\ DOMAIN new = 1..m
    <2>1. new = [i \in 1..m |-> new[i]]
      BY <1>2 DEF Unrestored
    <2>2. new \in [1..m -> Step]
      <3> HIDE DEF new, m
      <3> QED BY <1>3, <2>1
    <2> HIDE DEF new, m
    <2> QED BY <1>2, <2>2
  <1>5. m # 0
    BY <1>1
  <1>6. new # <<>>
    <2> HIDE DEF new, m
    <2> QED BY <1>4, <1>5
  <1>7. \A i \in DOMAIN new : {new[i].next, new[i].ontimeout, new[i].jump} \subseteq 0..m + 1
    <2> HIDE DEF new, old, m
    <2> QED BY <1>1, <1>2, <1>3, <1>4
  <1> HIDE DEF m, old
  <1>8. new \in Seq(Proved!Step) /\ Proved!End = m + 1 /\ Len(new) = m
    BY <1>4 DEF Step, Proved!Step, Proved!End, old
  <1> QED BY <1>1, <1>6, <1>7, <1>8 DEF Proved!Resolved, old

\* Of every document that compiles, what the lints of lint.rs say is so: just the
\* optional receives are named whose window no message the call waits for closes;
\* and, where the lint foresees what the engine does, no call comes to a step that
\* is called dead.
THEOREM LintsHoldTrue ==
    Spec => [](/\ IsCompiled => Lints!OptionalsHaveAWindow
               /\ (IsCompiled => Lints!Foreseen) => LintsAreTrue)
  <1>1. ASSUME IInv, IsCompiled
        PROVE  Lints!OptionalsHaveAWindow /\ (Lints!Foreseen => Lints!TellTheTruth)
    <2>1. Proved!Resolved
      BY <1>1, UnrestoredResolved
    <2>2. Proved!OptionalsHaveAWindow /\ (Proved!Foreseen => Proved!TellTheTruth)
      BY <2>1, Proved!LintsTellTheTruth
    <2> QED BY <2>2, SameForesight, SameWindows, SameTruth
  <1>2. IInv => /\ IsCompiled => Lints!OptionalsHaveAWindow
                /\ (IsCompiled => Lints!Foreseen) => LintsAreTrue
    BY <1>1 DEF LintsAreTrue
  <1> QED BY <1>2, GatheredIsRead, PTL
=============================================================================
