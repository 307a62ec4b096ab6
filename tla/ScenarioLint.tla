---------------------------- MODULE ScenarioLint ----------------------------
(***************************************************************************)
(* The lints of crates/sipr-scenario/src/lint.rs that look at the flow of  *)
(* a compiled scenario: optional-window and unreachable.  What they claim  *)
(* of the engine is in no shared code: they have their own idea of where a *)
(* step leads.  StepFlow and RecvWindow say where it does, and the         *)
(* properties here compare the two.                                        *)
(***************************************************************************)
EXTENDS StepFlow

\* is_optional_recv, is_recv.
IsReceive(i) == Steps[i].kind \in {"recv", "recvCmd"}
IsOptional(i) == IsReceive(i) /\ Steps[i].optional

-----------------------------------------------------------------------------
(* optional-window.                                                        *)

\* What does not end a run of optional receives.
InRun(i) == IsOptional(i) \/ Steps[i].kind = "label"

\* The first of each run.
RunStarts ==
    {i \in DOMAIN Steps : /\ IsOptional(i)
                          /\ \A j \in 1..i - 1 :
                                IsOptional(j) => \E k \in j..i : ~InRun(k)}

AfterRun(i) == Min({j \in i..Len(Steps) : ~InRun(j)} \cup {End})

AllTimed(i) ==
    \A j \in i..AfterRun(i) - 1 : IsOptional(j) => Steps[j].kind = "recv" /\ Steps[j].timed

\* No mandatory receive ends the run: it holds the call as one would.
HoldsTheCall(i) ==
    IF AfterRun(i) = End THEN ~AllTimed(i) ELSE ~IsReceive(AfterRun(i))

OptionalWindows == {i \in RunStarts : HoldsTheCall(i)}

-----------------------------------------------------------------------------
(* unreachable.                                                            *)

\* A `next` with nothing that can make the step skip it.
AlwaysJumps(step) == step.next # 0 /\ ~step.test /\ ~step.chance /\ ~step.cond

\* A recv's jump is overwritten unless the recv may stay where the call waited.
JumpTakesEffect(step) ==
    CASE step.kind = "recv"    -> step.optional /\ step.next # 0 /\ step.test
      [] step.kind = "recvCmd" -> FALSE
      [] OTHER                 -> TRUE

\* The message before `dest` (0: none).
Before(dest) == LET before == {j \in 1..dest - 1 : Steps[j].kind # "label"}
                IN  IF before = {} THEN 0 ELSE Max(before)

\* A mutant of JumpLanding: a jump lands where it says.
JumpLandingDirect(step, dest) == {dest}

JumpLanding(step, dest) ==
    LET b == Before(dest) IN
    IF step.kind = "recv" THEN {Max({1, b})}
    ELSE IF b = 0 THEN {dest}
    ELSE ({Steps[b].next} \ {0})
             \cup (IF Steps[b].next = 0 \/ Steps[b].test \/ Steps[b].chance THEN {dest} ELSE {})

\* A step falls through unless it always jumps; past an optional receive a
\* later one may match.
FallsThrough(i) == IF AlwaysJumps(Steps[i]) /\ ~IsOptional(i) THEN {} ELSE {i + 1}

Timeouts(step) ==
    IF step.kind \in {"send", "recv", "recvCmd"} THEN {step.ontimeout} \ {0} ELSE {}

Successors(i) ==
    LET step == Steps[i] IN
    CASE step.kind = "label"    -> {i + 1}
      [] step.kind = "timewait" -> IF step.jump = 0 THEN {} ELSE JumpLanding(step, step.jump)
      [] OTHER -> FallsThrough(i) \cup ({step.next} \ {0}) \cup Timeouts(step)
                  \cup (IF step.jump # 0 /\ JumpTakesEffect(step)
                          THEN JumpLanding(step, step.jump) ELSE {})

\* The steps within n moves of the first one and of the handler.
Near[n \in Nat] ==
    IF n = 0 THEN {1} \cup ({Handler} \ {0})
    ELSE LET nearer == Near[n - 1]
         IN  nearer \cup UNION {Successors(i) : i \in nearer \cap DOMAIN Steps}

Found == Near[Len(Steps)]

\* A computed jump that takes effect could land anywhere.
Unknowable == \E i \in Found \cap DOMAIN Steps : Steps[i].computed /\ JumpTakesEffect(Steps[i])

\* The steps no path reaches, and the first of each run of them.
Dead == IF Unknowable THEN {} ELSE DOMAIN Steps \ Found

UnreachableSteps == {i \in Dead : i - 1 \notin Dead}

-----------------------------------------------------------------------------
(* What the lints claim of the engine.                                     *)

\* "Steps that no path through the scenario reaches": no call comes to a step
\* the lint calls dead, by any message, command, timeout, jump or return.
DeadStepsNeverRun == Dead \cap Reached = {}

\* The lint and the engine's scan agree on what a window is: an optional receive
\* is named, with the first of its run, unless a message the call waits for can
\* end the wait in the window, or nothing follows and every wait is timed.
OptionalsHaveAWindow ==
    \A i \in RunStarts :
        LET window == Window(Steps, i)
            waits == {j \in window : IsReceive(j)}
            ends == {j \in waits : ~Steps[j].optional}
            open == Len(Steps) \in window /\ Skippable(Steps[Len(Steps)])
        IN  ~HoldsTheCall(i) <=>
                ends # {} \/ (open /\ \A j \in waits : Steps[j].timed /\ Steps[j].kind = "recv")

\* What the lints say of a scenario is so.
TellTheTruth == DeadStepsNeverRun /\ OptionalsHaveAWindow

\* It is where the lint knows what the engine does, for it does not that a restored
\* pause passes over a step whatever its `next` is; that a timewait may be skipped, or
\* be left by a command; that a command passes over a nop that always jumps; and that
\* who returns from the handler of unexpected messages takes the `next` of the message
\* before the one it returns to.
Foreseen ==
    /\ \A i \in DOMAIN Steps :
          /\ ~Steps[i].restores
          /\ Steps[i].kind = "timewait" => ~Steps[i].cond /\ TakesCmd(i + 1) = {}
          /\ Steps[i].kind = "nop" /\ AlwaysJumps(Steps[i]) => TakesCmd(i) = {}
          /\ Steps[i].returns => Steps[i].kind # "recv"
    /\ (\E i \in DOMAIN Steps : Steps[i].returns) => \A i \in DOMAIN Steps : Steps[i].next \notin Dead
=============================================================================
