------------------------------ MODULE CallPool ------------------------------
(***************************************************************************)
(* Which calls the engine of crates/sipr-engine/src/engine.rs opens, and   *)
(* how its run ends: the pacer, the closed loop of -users and its pools of *)
(* user ids, the -l and -m caps, the -tdmmap circuits, the user's requests *)
(* and the main loop that serves them.                                     *)
(*                                                                         *)
(* A call is an entry of the engine's table and nothing more: what it does *)
(* is CallMachine's.  The loop is a sequence of phases; within one, calls  *)
(* are opened or failed one action at a time, and nothing else happens.    *)
(***************************************************************************)
EXTENDS Integers, Sequences, FiniteSets

CONSTANTS
    CallIds,      \* slots of the call table
    Modes,        \* what may open calls: "rate", "users", "server", "commands"
    InitUsers,    \* -users
    UserTargets,  \* what `set users` may ask for
    Limits,       \* what -l and `set limit` may be
    MaxCalls,     \* -m; 0: none
    Circuits,     \* the -tdmmap circuits, {} without the option
    Secondary,    \* there is a secondary scenario
    Ramp,         \* -rate_quit
    HardTwin,     \* the twin's end is the run's
    Outcomes,     \* what a call may come to while it is opened
    Stops,        \* what may stop the run
    Resets,       \* `reset stats` may be asked for
    MaxCredit,    \* bound: calls one pacer tick places
    MaxUserId,    \* bound: user ids created
    MaxSecondary, \* bound: secondary calls live at one time
    Wrap          \* bound: the counters are counted modulo Wrap

ModesAssumption == Modes \subseteq {"rate", "users", "server", "commands"}
ASSUME ModesAssumption
UsersAssumption == InitUsers \in Nat /\ UserTargets \subseteq Nat /\ MaxUserId \in Nat
ASSUME UsersAssumption
CountersAssumption ==
    MaxCalls \in Nat /\ Wrap \in Nat /\ Wrap > MaxCalls /\ MaxCredit \in Nat
ASSUME CountersAssumption
TableAssumption ==
    /\ IsFiniteSet(CallIds)
    /\ Limits \subseteq Nat /\ Limits # {}
    /\ Circuits \subseteq Nat \ {0}
    /\ Outcomes \subseteq {"lives", "ends", "quits", "stops"}
    /\ Stops \subseteq {"stop", "abort", "key", "timeout", "socket", "twin", "exec"}
    /\ {Secondary, Ramp, HardTwin, Resets} \subseteq BOOLEAN
ASSUME TableAssumption

VARIABLES
    mode,         \* the run's, once and for all
    calls,        \* Engine.calls: the live calls
    free,         \* free_users
    retired,      \* retired_users
    nextUserId,   \* next_user_id
    users,        \* config.users
    limit,        \* config.limit
    busy,         \* tdm_in_use
    paused,
    soft,         \* soft_stopping
    hard,         \* hard_stop
    created,      \* main calls opened, as the statistics count them
    ended,        \* main calls successful or failed, as they count them
    aside,        \* history: by how much the two counts are off the live calls,
                  \* for the reasons that the code has
    phase,        \* where run_loop is
    credit,       \* the calls a pacer tick may still place
    doomed,       \* the calls a handler is failing
    resume,       \* the phase that follows
    asked         \* the user's requests in the channel

pools == <<free, retired, nextUserId>>
load  == <<users, limit, paused>>
table == <<calls, free, retired, busy, ended>>
started == <<created, aside>>
vars  == <<mode, calls, pools, load, busy, soft, hard, started, ended, phase, credit,
           doomed, resume, asked>>

Closed == mode = "users"

Call == [uid : Nat, circuit : Nat, secondary : BOOLEAN]   \* 0: none

MainOf(table_) == {id \in DOMAIN table_ : ~table_[id].secondary}

\* live_main.
LiveMain == Cardinality(MainOf(calls))

\* A mutant of DoneCreating: only -m ends the opening of calls.
DoneAtMaxCalls == MaxCalls # 0 /\ created >= MaxCalls

DoneCreating == soft \/ (MaxCalls # 0 /\ created >= MaxCalls)

Init ==
    /\ mode \in Modes
    /\ calls = <<>>
    /\ free = [i \in 1..(IF Closed THEN InitUsers ELSE 0) |-> i]
    /\ retired = <<>>
    /\ nextUserId = (IF Closed THEN InitUsers ELSE 0) + 1
    /\ users = IF Closed THEN InitUsers ELSE 0
    /\ limit \in Limits
    /\ busy = {}
    /\ paused = FALSE /\ soft = FALSE /\ hard = FALSE
    /\ created = 0 /\ ended = 0 /\ aside = 0
    /\ phase = "refill"
    /\ credit = 0
    /\ doomed = {} /\ resume = "refill"
    /\ asked = {}

-----------------------------------------------------------------------------
(* The call table.                                                         *)

Unused == CallIds \ DOMAIN calls
Slot == CHOOSE id \in Unused : TRUE

Drop(id) == [other \in DOMAIN calls \ {id} |-> calls[other]]
Add(id, call) == [other \in DOMAIN calls \cup {id} |-> IF other = id THEN call ELSE calls[other]]

\* Mutants of ReturnUser: a surplus id is dropped; an id that comes back is the
\* next to go.
ReturnUserOrDrop(uid, left) ==
    /\ free' = IF uid = 0 \/ left > users THEN free ELSE <<uid>> \o free
    /\ UNCHANGED retired

ReturnUserAtBack(uid, left) ==
    IF uid = 0 THEN UNCHANGED <<free, retired>>
    ELSE IF left > users
           THEN retired' = <<uid>> \o retired /\ UNCHANGED free
           ELSE free' = Append(free, uid) /\ UNCHANGED retired

\* return_user, once the call has left the table and `left` are live.
ReturnUser(uid, left) ==
    IF uid = 0 THEN UNCHANGED <<free, retired>>
    ELSE IF left > users
           THEN retired' = <<uid>> \o retired /\ UNCHANGED free
           ELSE free' = <<uid>> \o free /\ UNCHANGED retired

\* What complete_call, remove_call and on_unexpected_ping have in common.
LeavesTable(id) ==
    /\ calls' = Drop(id)
    /\ busy' = busy \ {calls[id].circuit}
    /\ ReturnUser(calls[id].uid, Cardinality(MainOf(Drop(id))))

\* complete_call, and the failures that are counted before remove_call.
EndCall(id) ==
    /\ LeavesTable(id)
    /\ ended' = IF calls[id].secondary THEN ended ELSE (ended + 1) % Wrap

\* Fail some calls one by one, then go on.
Fail(ids, next) ==
    /\ phase' = "failing"
    /\ doomed' = ids
    /\ resume' = next
    /\ UNCHANGED <<table, nextUserId, started>>

GoTo(next) ==
    /\ phase' = next
    /\ UNCHANGED <<doomed, resume>>

-----------------------------------------------------------------------------
(* Opening a call.                                                         *)

\* A mutant of FreeCircuits: the table is not looked at.
AllCircuits == Circuits

FreeCircuits == Circuits \ busy

Least(S) == CHOOSE x \in S : \A y \in S : x <= y

\* A mutant of OpensAndEnds: such a call is not counted as ended.
OpensAndVanishes(uid, pool) ==
    /\ free' = IF uid = 0 THEN pool ELSE <<uid>> \o pool
    /\ UNCHANGED <<calls, retired, busy, ended>>

\* A call that ends while it is opened gives back what it took.
OpensAndEnds(uid, pool) ==
    /\ IF uid # 0 /\ LiveMain > users
         THEN retired' = <<uid>> \o retired /\ free' = pool
         ELSE retired' = retired /\ free' = IF uid = 0 THEN pool ELSE <<uid>> \o pool
    /\ ended' = (ended + 1) % Wrap
    /\ UNCHANGED <<calls, busy>>

\* outgoing_created or incoming_created.
CountsOne ==
    /\ created' = (created + 1) % Wrap
    /\ UNCHANGED aside

Opens(uid, circuit, pool) ==
    /\ calls' = Add(Slot, [uid |-> uid, circuit |-> circuit, secondary |-> FALSE])
    /\ busy' = busy \cup ({circuit} \ {0})
    /\ free' = pool
    /\ UNCHANGED <<retired, ended>>

\* No circuit is free: a failure (failed_other) of a call that is never created.
\* A user id that was taken for it is gone.
Refused(pool) ==
    /\ free' = pool
    /\ ended' = (ended + 1) % Wrap
    /\ aside' = (aside + 1) % Wrap
    /\ UNCHANGED <<calls, retired, busy, created, soft, hard>>

\* start_call and start_commanded_call, for a user id taken out of the free pool
\* (0: none).  `next` is where the handler then is.
StartCall(uid, pool, next) ==
    IF Circuits # {} /\ FreeCircuits = {}
      THEN Refused(pool) /\ GoTo(next)
      ELSE LET circuit == IF Circuits = {} THEN 0 ELSE Least(FreeCircuits) IN
           /\ Unused # {}
           /\ CountsOne
           /\ \/ /\ "lives" \in Outcomes
                 /\ Opens(uid, circuit, pool)
                 /\ GoTo(next) /\ UNCHANGED <<soft, hard>>
              \/ /\ "ends" \in Outcomes
                 /\ OpensAndEnds(uid, pool)
                 /\ GoTo(next) /\ UNCHANGED <<soft, hard>>
              \/ /\ "quits" \in Outcomes             \* exec stop_gracefully
                 /\ Opens(uid, circuit, pool)
                 /\ soft' = TRUE
                 /\ GoTo(next) /\ UNCHANGED hard
              \/ /\ "stops" \in Outcomes             \* exec stop_now, or no
                 /\ Opens(uid, circuit, pool)        \* reconnection is left
                 /\ hard' = TRUE
                 /\ phase' = "failing"
                 /\ doomed' = DOMAIN calls \cup {Slot}
                 /\ resume' = next
                 /\ UNCHANGED soft

-----------------------------------------------------------------------------
(* The loop's own steps.                                                   *)

Still == UNCHANGED <<mode, nextUserId, load, asked>>

Short == Closed /\ LiveMain < users /\ ~DoneCreating /\ free # <<>>

\* refill_users: a replacement for each call the closed loop is short of.
Refill ==
    /\ phase = "refill"
    /\ Short
    /\ StartCall(free[Len(free)], SubSeq(free, 1, Len(free) - 1), "refill")
    /\ Still /\ UNCHANGED credit

\* run_rate_ramp follows: past its cap it may quit.
RefillOver ==
    /\ phase = "refill"
    /\ ~Short
    /\ phase' = "top"
    /\ soft' \in {soft} \cup (IF Ramp /\ ~Closed THEN {TRUE} ELSE {})
    /\ UNCHANGED <<table, hard, started, credit, doomed, resume>>
    /\ Still

\* A mutant of Top: the run ends before its calls do.
TopAtOnce ==
    /\ phase = "top"
    /\ phase' = IF hard \/ DoneCreating THEN "done" ELSE "event"
    /\ UNCHANGED <<table, soft, hard, started, credit, doomed, resume>>
    /\ Still

\* The head of run_loop's loop.
Top ==
    /\ phase = "top"
    /\ phase' = IF hard \/ (DoneCreating /\ LiveMain = 0) THEN "done" ELSE "event"
    /\ UNCHANGED <<table, soft, hard, started, credit, doomed, resume>>
    /\ Still

FailOne ==
    /\ phase = "failing"
    /\ \E id \in doomed :
          /\ EndCall(id)
          /\ doomed' = doomed \ {id}
    /\ UNCHANGED <<soft, hard, started, credit, phase, resume>>
    /\ Still

FailingOver ==
    /\ phase = "failing"
    /\ doomed = {}
    /\ phase' = resume
    /\ UNCHANGED <<table, soft, hard, started, credit, doomed, resume>>
    /\ Still

\* A mutant of AtLimit: off by one.
PastLimit == LiveMain > limit

AtLimit == LiveMain >= limit

\* The calls a pacer tick earned, until the run has all its calls or the -l cap
\* is reached: what could not start is forgotten.
PlaceCall ==
    /\ phase = "place"
    /\ credit > 0 /\ ~DoneCreating /\ ~AtLimit
    /\ StartCall(0, free, "place")
    /\ credit' = credit - 1
    /\ Still

PlacingOver ==
    /\ phase = "place"
    /\ credit = 0 \/ DoneCreating \/ AtLimit
    /\ phase' = "refill"
    /\ credit' = 0
    /\ UNCHANGED <<table, soft, hard, started, doomed, resume>>
    /\ Still

LoopStep ==
    \/ Refill \/ RefillOver \/ Top \/ FailOne \/ FailingOver \/ PlaceCall \/ PlacingOver

-----------------------------------------------------------------------------
(* The events.                                                             *)

Handled == phase' = "refill" /\ UNCHANGED <<doomed, resume>>

PacerTick ==
    /\ phase = "event"
    /\ mode = "rate" /\ ~paused /\ ~DoneCreating
    /\ credit' \in 0..MaxCredit
    /\ GoTo("place")
    /\ UNCHANGED <<table, soft, hard, started>>
    /\ Still

\* A message, a timer or the twin ends a call.
CallEnds(id) ==
    /\ phase = "event"
    /\ id \in DOMAIN calls
    /\ EndCall(id)
    /\ Handled
    /\ UNCHANGED <<soft, hard, started, credit>>
    /\ Still

\* on_unexpected_ping, with pingreply: the call leaves neither successful nor failed.
CallIsPinged(id) ==
    /\ phase = "event"
    /\ id \in DOMAIN calls
    /\ LeavesTable(id)
    /\ aside' = IF calls[id].secondary THEN aside ELSE (aside - 1) % Wrap
    /\ Handled
    /\ UNCHANGED <<soft, hard, created, ended, credit>>
    /\ Still

\* close_calls: a connection takes its calls with it.
CallsClose ==
    /\ phase = "event"
    /\ \E ids \in SUBSET DOMAIN calls : Fail(ids, "refill")
    /\ UNCHANGED <<soft, hard, credit>>
    /\ Still

\* A server opens a call for an initial request, whatever its run is up to.
Incoming ==
    /\ phase = "event"
    /\ mode = "server"
    /\ Unused # {}
    /\ MaxCalls # 0 => created < Wrap - 1
    /\ CountsOne
    /\ \/ "lives" \in Outcomes /\ Opens(0, 0, free)
       \/ "ends" \in Outcomes /\ OpensAndEnds(0, free)
    /\ Handled
    /\ UNCHANGED <<soft, hard, credit>>
    /\ Still

\* spawn_secondary_call: it counts toward nothing.
SpawnSecondary ==
    /\ phase = "event"
    /\ Secondary
    /\ Cardinality(DOMAIN calls \ MainOf(calls)) < MaxSecondary
    /\ Unused # {}
    /\ calls' = Add(Slot, [uid |-> 0, circuit |-> 0, secondary |-> TRUE])
    /\ Handled
    /\ UNCHANGED <<free, retired, busy, ended, soft, hard, started, credit>>
    /\ Still

\* A twin's command opens the call it names.
Commanded ==
    /\ phase = "event"
    /\ mode = "commands" /\ ~DoneCreating
    /\ StartCall(0, free, "refill")
    /\ UNCHANGED credit
    /\ Still

Quits == soft' = TRUE /\ UNCHANGED <<table, nextUserId, hard, started>> /\ Handled

HardQuits ==
    /\ Fail(DOMAIN calls, "refill")
    /\ soft' = TRUE /\ hard' = TRUE

\* The user's requests: Stop and Abort, and the key whose second press aborts.
Serve(request) ==
    /\ phase = "event"
    /\ request \in asked
    /\ asked' = asked \ {request}
    /\ IF request = "abort" \/ (request = "key" /\ soft) THEN HardQuits ELSE Quits
    /\ UNCHANGED <<mode, load, credit>>

\* Pause, Resume, `p`, `set limit`.
SetLoad ==
    /\ phase = "event"
    /\ \/ paused' \in BOOLEAN /\ UNCHANGED limit
       \/ mode = "rate" /\ limit' \in Limits /\ UNCHANGED paused
    /\ Handled
    /\ UNCHANGED <<mode, table, nextUserId, users, soft, hard, started, credit, asked>>

\* A mutant of FreshUserId: the id after the count, as SIPp has it.
UsersPlusOne == users + 1

\* The next never-used id.
FreshUserId == nextUserId

\* A mutant of Regrown: no new ids are made.
RegrownFromRetired(target) ==
    LET short == IF target > users THEN target - users ELSE 0
        back  == IF short < Len(retired) THEN short ELSE Len(retired)
    IN  [retired |-> SubSeq(retired, 1, Len(retired) - back),
         next    |-> FreshUserId,
         free    |-> SubSeq(retired, Len(retired) - back + 1, Len(retired)) \o free]

\* set_users: a growth takes the oldest retired ids first.
Regrown(target) ==
    LET short == IF target > users THEN target - users ELSE 0
        back  == IF short < Len(retired) THEN short ELSE Len(retired)
        fresh == short - back
    IN  [retired |-> SubSeq(retired, 1, Len(retired) - back),
         next    |-> FreshUserId + fresh,
         free    |-> [i \in 1..fresh |-> FreshUserId + fresh - i]
                     \o SubSeq(retired, Len(retired) - back + 1, Len(retired))
                     \o free]

SetUsers ==
    /\ phase = "event"
    /\ Closed
    /\ \E target \in UserTargets :
          /\ Regrown(target).next <= MaxUserId + 1
          /\ users' = target
          /\ free' = Regrown(target).free
          /\ retired' = Regrown(target).retired
          /\ nextUserId' = Regrown(target).next
    /\ paused' = FALSE
    /\ Handled
    /\ UNCHANGED <<mode, calls, limit, busy, ended, soft, hard, started, credit, asked>>

\* `reset stats`: the counts start over, the calls go on.
ResetStats ==
    /\ phase = "event"
    /\ Resets
    /\ created' = 0 /\ ended' = 0
    /\ aside' = LiveMain % Wrap
    /\ Handled
    /\ UNCHANGED <<mode, calls, pools, load, busy, soft, hard, credit, asked>>

GlobalTimeout ==
    /\ phase = "event"
    /\ "timeout" \in Stops
    /\ Fail(DOMAIN calls, "refill")
    /\ soft' = TRUE
    /\ UNCHANGED <<mode, load, hard, credit, asked>>

SocketError ==
    /\ phase = "event"
    /\ "socket" \in Stops
    /\ Fail(DOMAIN calls, "done")
    /\ UNCHANGED <<mode, load, soft, hard, credit, asked>>

\* on_twin_closed.
TwinEnds ==
    /\ phase = "event"
    /\ "twin" \in Stops
    /\ IF HardTwin
         THEN Fail(DOMAIN calls, "refill") /\ hard' = TRUE /\ UNCHANGED soft
         ELSE Quits
    /\ UNCHANGED <<mode, load, credit, asked>>

\* An action of a live call: exec stop_now, or stop_gracefully.
ExecStops ==
    /\ phase = "event"
    /\ "exec" \in Stops /\ calls # <<>>
    /\ \/ Fail(DOMAIN calls, "refill") /\ hard' = TRUE /\ UNCHANGED soft
       \/ Quits
    /\ UNCHANGED <<mode, load, credit, asked>>

Event ==
    \/ PacerTick \/ CallsClose \/ Incoming \/ SpawnSecondary \/ Commanded
    \/ SetLoad \/ SetUsers \/ ResetStats \/ GlobalTimeout \/ SocketError \/ TwinEnds \/ ExecStops
    \/ \E id \in CallIds : CallEnds(id) \/ CallIsPinged(id)
    \/ \E request \in Stops : Serve(request)

Asks ==
    /\ phase # "done"
    /\ \E request \in Stops \cap {"stop", "abort", "key"} :
          /\ request \notin asked
          /\ asked' = asked \cup {request}
    /\ UNCHANGED <<mode, calls, pools, load, busy, soft, hard, started, ended, phase, credit,
                   doomed, resume>>

Over == phase = "done" /\ UNCHANGED vars

Next == LoopStep \/ Event \/ Asks \/ Over

Spec == Init /\ [][Next]_vars

\* The loop runs on, takes each request of the channel in its turn, and a call
\* ends some time.
Fairness ==
    /\ WF_vars(LoopStep)
    /\ \A request \in Stops : SF_vars(Serve(request))
    /\ \A id \in CallIds : SF_vars(CallEnds(id))

FairSpec == Spec /\ Fairness

-----------------------------------------------------------------------------
(* Properties.                                                             *)

Members(s) == {s[i] : i \in DOMAIN s}
Distinct(s) == \A i, j \in DOMAIN s : s[i] = s[j] => i = j

\* Every variable has its type.
TypeOK ==
    /\ DOMAIN calls \subseteq CallIds
    /\ \A id \in DOMAIN calls : calls[id] \in Call
    /\ free \in Seq(Nat) /\ retired \in Seq(Nat)
    /\ nextUserId \in Nat /\ users \in Nat /\ limit \in Limits
    /\ busy \subseteq Circuits
    /\ {paused, soft, hard} \subseteq BOOLEAN
    /\ created \in 0..Wrap - 1 /\ ended \in 0..Wrap - 1 /\ aside \in 0..Wrap - 1
    /\ mode \in Modes
    /\ phase \in {"refill", "top", "event", "place", "failing", "done"}
    /\ credit \in 0..MaxCredit
    /\ doomed \subseteq DOMAIN calls
    /\ resume \in {"refill", "place", "done"}
    /\ asked \subseteq Stops

Held == {calls[id].uid : id \in DOMAIN calls} \ {0}

\* A user id is at one place: free, retired or with one live call, however the
\* count is changed and the calls end (return_user, set_users).
UserIdsAreUnique ==
    /\ Distinct(free) /\ Distinct(retired)
    /\ Members(free) \cap Members(retired) = {}
    /\ Held \cap (Members(free) \cup Members(retired)) = {}
    /\ \A a, b \in DOMAIN calls :
          calls[a].uid = calls[b].uid /\ calls[a].uid # 0 => a = b

\* And none is lost: every id ever created is at one of them.
NoUserIdIsLost ==
    Closed => Members(free) \cup Members(retired) \cup Held = 1..nextUserId - 1

\* "A finished call returns its id and a replacement opens immediately ..., so
\* the population stays constant until -m total is reached" (SIPP_COMPAT): at
\* every event at least as many calls are live as `users` asks for.
PopulationIsKept ==
    Closed /\ phase = "event" /\ ~DoneCreating => LiveMain >= users

\* No handler opens a call past -m, -l or the closed loop's count, nor once the
\* run drains ("no new calls, the live ones finish", EngineControl::stop) or,
\* by the pacer, while it is paused ("Stop placing new calls",
\* EngineControl::pause).  A server takes its calls as they come.
CallsStartWithinCaps ==
    [][LiveMain' > LiveMain /\ mode # "server" =>
          /\ ~DoneCreating
          /\ mode = "rate" => LiveMain < limit /\ ~paused
          /\ Closed => LiveMain < users]_vars

\* The report's counts: a call that was created has been counted successful or
\* failed, or is live, whichever path took it out of the table (fail_call, close_calls,
\* fail_all, a start that ends at once).  What the code leaves out of account is all
\* that is: calls live at a reset (to be counted, never created), calls refused a
\* circuit (failed, never created), calls a PING removes (created, never counted).
\* A call whose own failure ends the run may be counted twice: see Connections.
CountsAgree == (created + aside - ended) % Wrap = LiveMain % Wrap

\* A circuit is in use exactly while one live call holds it.
CircuitsFollowCalls ==
    /\ busy = {calls[id].circuit : id \in DOMAIN calls} \ {0}
    /\ \A a, b \in DOMAIN calls :
          calls[a].circuit = calls[b].circuit /\ calls[a].circuit # 0 => a = b

\* The run does not end with a call of the main scenario neither successful nor
\* failed: "the calls in flight are aborted at once and the process exits"
\* (on_twin_closed), "every live call fails and the loop exits on its next
\* turn" (EngineControl::abort).
NoCallIsAbandoned == phase = "done" => LiveMain = 0

\* "no new calls, the live ones finish, then the report comes"
\* (EngineControl::stop): a request to end is honoured, in the end.  A server
\* drains only when its peers let it; an abort ends it all the same.
StopEndsTheRun ==
    \A request \in Stops :
        request \in asked /\ (mode = "server" => request = "abort") ~> phase = "done"

\* A free user id has its turn, however the others come and go: those that the next
\* calls take before it run out (return_user, refill_users).
UsersTakeTurns ==
    LET Behind == Members(SubSeq(free, 1, Len(free) - 1)) IN
    \A uid \in 1..MaxUserId :
        uid \in Behind ~> uid \notin Behind \/ DoneCreating \/ phase = "done"
=============================================================================
