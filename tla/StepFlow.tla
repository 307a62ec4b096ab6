------------------------------ MODULE StepFlow ------------------------------
(***************************************************************************)
(* Where the steps of a compiled scenario lead: next_step, step_after_jump *)
(* and what the message, command and timer handlers of                     *)
(* crates/sipr-engine/src/engine.rs make of a step's branches.  Shared by  *)
(* the execution of a call (CallMachine) and the scenario compiler's lints *)
(* (ScenarioLint), which predict it.                                       *)
(***************************************************************************)
EXTENDS RecvWindow

CONSTANTS
    Steps,      \* the scenario
    Handler     \* the label _unexp.main; 0: none

End == Len(Steps) + 1

\* What the compiler leaves of labels and message indexes: a branch leads to a
\* step, or past the last one.
Resolved ==
    /\ Steps \in Seq(Step) /\ Steps # <<>>
    /\ \A i \in DOMAIN Steps : {Steps[i].next, Steps[i].ontimeout, Steps[i].jump} \subseteq 0..End
    /\ Handler \in 0..Len(Steps)

Branches(i) == Steps[i].next # 0
Conditional(i) == Steps[i].test \/ Steps[i].chance

\* next_step: the step's `next`, or the following step when it has none or its
\* condition may fail.
NextSteps(i) ==
    (IF Branches(i) THEN {Steps[i].next} ELSE {i + 1})
        \cup (IF Branches(i) /\ Conditional(i) THEN {i + 1} ELSE {})

IsMessage(i) == Steps[i].kind # "label"
MessagesBefore(i) == {j \in 1..i - 1 : j <= Len(Steps) /\ IsMessage(j)}
MessageIndex(i) == Cardinality(MessagesBefore(i))

\* step_of_message, and one past the last step for one past the last message.
StepOfMessage(n) ==
    CHOOSE i \in 1..End : MessageIndex(i) = n /\ (i = End \/ IsMessage(i))

\* message_before: the step a jump leaves `msg_index` at (0: none).
MessageBefore(i) == IF MessagesBefore(i) = {} THEN 0 ELSE Max(MessagesBefore(i))

\* step_after_jump: the `next` of the message before the target comes first.
AfterJump(target) ==
    LET b == MessageBefore(target) IN
    IF b = 0 \/ ~Branches(b) THEN {target}
    ELSE {Steps[b].next} \cup (IF Conditional(b) THEN {target} ELSE {})

\* A label past the last message: SIPp ends the call there as failed.
PastLast(dest) == MessageIndex(dest) = MessageIndex(End)

\* Where the actions of step i jump: to a message of the scenario, or back to the
\* one _unexp.retaddr holds.
Jumps(i) == Steps[i].jump # 0 \/ Steps[i].returns

Targets(i, back) ==
    ({Steps[i].jump} \ {0}) \cup (IF Steps[i].returns THEN {StepOfMessage(back)} ELSE {})

\* checked_jump: not to the message the call is at.
Loops(i, at, back) == \E target \in Targets(i, back) : MessageIndex(target) = MessageIndex(at)

\* run_step_actions: an action may fail the call.
MayFail(i, at, back) == Steps[i].fails \/ Loops(i, at, back)

\* The last jump of a step's actions takes it away from where it leads.
Destinations(i, back) ==
    IF Jumps(i) THEN UNION {AfterJump(target) : target \in Targets(i, back)} ELSE NextSteps(i)

\* Where a matched recv leaves the call: it waits on when it is optional and
\* its test is unset, and moves on otherwise.
Unset(si) == Steps[si].optional /\ Branches(si) /\ Steps[si].test

MovesOn(si) ==
    IF Unset(si)
      THEN {Steps[si].next} \cup (IF Steps[si].chance THEN {si + 1} ELSE {})
      ELSE NextSteps(si)

\* Where an optional recv whose actions jump waits on.
WaitAfterJump(target) == Max({1, MessageBefore(target)})

\* What a command may pass over on its way to a recvCmd.
CmdSkips(step) ==
    \/ step.kind \in {"nop", "label"}
    \/ step.kind = "recv" /\ step.optional

\* process_twin_cmd: the recvCmd that takes a command, if any.
TakesCmd(from) ==
    {i \in from..Len(Steps) : /\ Steps[i].kind = "recvCmd"
                              /\ \A j \in from..i - 1 : CmdSkips(Steps[j])}

-----------------------------------------------------------------------------
(* The steps a call can come to.                                           *)

\* The receives a message or a command may match while the call waits at i.
Answers(i) ==
    {j \in Window(Steps, i) : Steps[j].kind = "recv"} \cup TakesCmd(i)

\* Where step i leaves a call that goes on, when _unexp.retaddr may hold any of
\* `backs`.  Only a jump goes on after a timewait.
Onto(i, backs) ==
    CASE Steps[i].kind = "label"    -> {i + 1}
      [] Steps[i].kind = "recv"     -> MovesOn(i)
      [] Steps[i].kind = "recvCmd"  -> NextSteps(i)
      [] Steps[i].kind = "timewait" /\ ~Jumps(i) -> {}
      [] OTHER -> UNION {Destinations(i, back) : back \in backs}

\* Where an optional recv that takes nothing may wait on.
WaitsOn(i, backs) ==
    IF Steps[i].kind = "recv" /\ Unset(i)
      THEN {WaitAfterJump(target) : target \in UNION {Targets(i, back) : back \in backs}}
      ELSE {}

\* A <pauserestore> has the pause it restores pass over the step that is next;
\* a pause and a timewait take it themselves.
PassesOver(i, backs) ==
    IF Steps[i].restores /\ Steps[i].kind \notin {"pause", "timewait"}
      THEN Onto(i, backs) \cap DOMAIN Steps ELSE {}

\* Where a call may rest after step i, other than at a receive.
Rests(i, backs) ==
    WaitsOn(i, backs) \cup {j + 1 : j \in PassesOver(i, backs)}
        \cup (IF Steps[i].kind \in {"pause", "timewait"} THEN Onto(i, backs) ELSE {})

\* Nothing is known of a jump to where another variable says, or of a restored
\* pause while the call waits on.
Anywhere(i) ==
    CASE Steps[i].kind = "recv" -> Unset(i) /\ (Steps[i].computed \/ Steps[i].restores)
      [] Steps[i].kind \in {"recvCmd", "label"} -> FALSE
      [] OTHER -> Steps[i].computed

TimeoutLabels(i) ==
    IF Steps[i].kind \in {"send", "recv", "recvCmd"} THEN {Steps[i].ontimeout} \ {0} ELSE {}

\* Where the call may be after step i, taken for what the handlers make of it: a
\* timeout's label included, and for a send that of its retransmissions.
Leads(i, backs) ==
    Onto(i, backs) \cup Rests(i, backs) \cup (UNION {TakesCmd(j) : j \in Rests(i, backs)})
        \cup (IF Steps[i].cond THEN {i + 1} ELSE {})
        \cup (IF Steps[i].kind \in {"recv", "recvCmd"} THEN Answers(i) ELSE {})
        \cup (IF Steps[i].kind = "timewait" THEN TakesCmd(i + 1) ELSE {})
        \cup TimeoutLabels(i)
        \cup (IF Anywhere(i) THEN 1..End ELSE {})

\* The messages an unexpected one may interrupt a call at, once it came to step i.
Marks(i, backs) ==
    {MessageIndex(j) :
        j \in (IF Steps[i].kind \in {"recv", "recvCmd", "pause"} THEN {i} ELSE {})
                 \cup WaitsOn(i, backs) \cup PassesOver(i, backs)
                 \cup (IF Steps[i].kind = "timewait" THEN Onto(i, backs) ELSE {})
                 \cup (IF Anywhere(i) THEN 1..End ELSE {})}

\* The steps within n moves of the first one, and of the handler of unexpected
\* messages, and what _unexp.retaddr may hold by then.
Within[n \in Nat] ==
    IF n = 0 THEN [at |-> {1} \cup ({Handler} \ {0}), backs |-> {0}]
    ELSE LET near == Within[n - 1]
             here == near.at \cap DOMAIN Steps
         IN  [at    |-> near.at \cup UNION {Leads(i, near.backs) : i \in here},
              backs |-> near.backs \cup UNION {Marks(i, near.backs) : i \in here}]

\* Each move that finds something finds a step or a message.
Reached == Within[2 * End].at
=============================================================================
