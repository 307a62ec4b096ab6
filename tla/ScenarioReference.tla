------------------------- MODULE ScenarioReference --------------------------
(***************************************************************************)
(* What a compiled scenario is for its author and for the engine, stated   *)
(* of the whole document at once; the compiler meets it element by element.*)
(***************************************************************************)
EXTENDS ScenarioCompiler

StepTags == {"send", "recv", "pause", "nop", "timewait", "sendCmd", "recvCmd"}

IsStepAt(k) == LET el == document[k] IN
    el.tag \in StepTags \/ (el.tag = "label" /\ Has(el, "id"))

\* The elements that are steps, in order, and the place of each.
StepElements == {k \in DOMAIN document : IsStepAt(k)}
PlaceOf(k) == Cardinality({j \in StepElements : j <= k})
ElementOf(i) == CHOOSE k \in StepElements : PlaceOf(k) = i

LabelElements(id) == {k \in DOMAIN document : document[k].tag = "label" /\ Text(document[k], "id") = id}

\* The place of the n-th message, counted from 0, or one past the last step.
MessageElements == {k \in StepElements : document[k].tag # "label"}
MessagePlace(n) ==
    IF n = Cardinality(MessageElements) THEN Cardinality(StepElements) + 1
    ELSE PlaceOf(CHOOSE k \in MessageElements :
                     Cardinality({j \in MessageElements : j < k}) = n)

IsCompiled == outcome.status = "compiled"

\* What the engine makes of the steps it is given.
Engine == INSTANCE StepFlow WITH Steps <- outcome.steps, Handler <- outcome.handler

\* Every branch of a compiled scenario leads to the one label it names, also
\* when the label comes later, and every jump to the message of its number,
\* labels not counted: an engine that trusts them (advance, on_recv_timeout,
\* checked_jump) can follow any of them.
BranchesFindTheirPlace ==
    IsCompiled =>
        \A k \in MessageElements :
            LET el == document[k]
                step == outcome.steps[PlaceOf(k)]
            IN  /\ \A slot \in Given(el, {"next", "ontimeout"}) :
                       \A l \in LabelElements(Text(el, slot)) :
                           PlaceOf(l) = IF slot = "next" THEN step.next ELSE step.ontimeout
                /\ \A n \in JumpsTo(el.actions) :
                       Cardinality(JumpsTo(el.actions)) = 1 => step.jump = MessagePlace(n)

\* The variables a step branches on, skips on, or gives its actions.
ReadIn(el) == VarsIn(el, {"test", "condexec"}) \cup UNION {ReadBy(a) : a \in el.actions}

\* What a scenario that compiled may rely on: labels are there, once; each
\* variable that is read is set by some action, by the engine, or elsewhere.
Sound ==
    \A k \in MessageElements :
        /\ \A slot \in Given(document[k], {"next", "ontimeout"}) :
              Cardinality(LabelElements(Text(document[k], slot))) = 1
        /\ \A v \in ReadIn(document[k]) :
              \/ v \in EngineVars
              \/ \E j \in MessageElements : \E b \in document[j].actions : v \in WrittenBy(b)
              \/ \E j \in DOMAIN document :
                    document[j].tag = "Global" /\ v \in VarsIn(document[j], {"variables"})

CompiledIsSound == IsCompiled => Sound

\* No branch and no jump leads anywhere but to a step, or past the last one: what
\* a call's proofs assume of its scenario (CallMachine's StepsAssumption).
CompiledIsResolved == IsCompiled => Engine!Resolved

\* What the engine is given is the document, and nothing it cannot follow.
CompiledIsFaithful == BranchesFindTheirPlace /\ CompiledIsSound /\ CompiledIsResolved

\* "SIPp ... silently splits one name into two variables; sipr applies the scope
\* to the whole scenario": a variable has the scope it is declared with, wherever
\* the declaration stands.
ScopesMeetDeclarations ==
    IsCompiled =>
        \A v \in DOMAIN outcome.scope :
            LET declared(tag) == \E k \in DOMAIN document :
                    document[k].tag = tag /\ v \in VarsIn(document[k], {"variables"})
            IN  /\ declared("Global") => outcome.scope[v] = "global"
                /\ declared("User") => outcome.scope[v] = "user"
                /\ ~declared("Global") /\ ~declared("User") => outcome.scope[v] = "call"

\* A named transaction of a compiled scenario is opened by a request some
\* response is expected for: no response is waited for under a branch that no
\* send ever draws (recv_matches asks for it).
TransactionsAreOpened ==
    IsCompiled =>
        \A t \in outcome.txns :
            /\ \E k \in StepElements : document[k].tag = "send" /\ Text(document[k], "start_txn") = t
            /\ \E k \in StepElements : document[k].tag = "recv" /\ Text(document[k], "response_txn") = t

-----------------------------------------------------------------------------
(* Lints.                                                                  *)

\* The directives right before an element, with nothing but directives between.
DirectivesBefore(k) ==
    {j \in 1..k - 1 : \A i \in j..k - 1 : document[i].tag = "directive"}

\* A directive silences its lints for the step right after it, and for no other:
\* a finding is reported unless one of them allows it.
DirectivesSilenceTheirStep ==
    IsCompiled /\ Lint =>
        \A f \in Findings(outcome.steps, outcome.handler) :
            f \notin outcome.lints <=>
                \E j \in DirectivesBefore(ElementOf(f.step)) : f.lint \in document[j].body.vars

\* Without the pauses it restores, of which the lint knows nothing.
Unrestored(steps) == [i \in DOMAIN steps |-> [steps[i] EXCEPT !.restores = FALSE]]

Lints == INSTANCE ScenarioLint
             WITH Steps <- Unrestored(outcome.steps), Handler <- outcome.handler

\* What a document declares, of variables, transactions and lints, holds where it
\* says and nowhere else.
DeclarationsAreKept == ScopesMeetDeclarations /\ TransactionsAreOpened /\ DirectivesSilenceTheirStep

\* What the lints say of a compiled scenario is so: no call comes to a step that is
\* called dead, and only optional receives that may hold a call for good are named.
\* Restored pauses are left out of the steps.
LintsAreTrue == IsCompiled => Lints!TellTheTruth
=============================================================================
