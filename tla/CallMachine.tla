---------------------------- MODULE CallMachine -----------------------------
(***************************************************************************)
(* The life of one call of crates/sipr-engine/src/engine.rs: how its       *)
(* scenario is executed between the messages, the twin's commands and the  *)
(* timers that reach the engine's one event channel.                       *)
(*                                                                         *)
(* The engine handles one event at a time; what the handler then executes  *)
(* (advance) is one action per step, between which the timer thread and    *)
(* the sockets may add to the channel.  A timer may fire at any time after *)
(* it is armed: durations are the scenario's, so every order of fires is   *)
(* some scenario's.  A fire sits in the channel until it is handled, and   *)
(* cancelling its timer no longer removes it.                              *)
(*                                                                         *)
(* One Call-ID is followed.  Once its call has ended, a message may open   *)
(* another call under the same Call-ID.                                    *)
(***************************************************************************)
EXTENDS StepFlow, FiniteSets

CONSTANTS
    Uas,           \* its role: a server opens calls for initial requests
    Peer,          \* the messages the peer may send
    AutoAnswered,  \* the methods -aa answers when they are unexpected
    MaxRetrans,    \* the schedule's cap
    PauseMsgIgn,   \* -pause_msg_ign
    AbortUnexp,    \* the `abortunexp` behavior
    PingReply,     \* the `pingreply` behavior
    DeadcallWait,  \* -deadcall_wait is not zero
    Lossy,         \* lost= on receive, and sends that fail
    Retaddr,       \* the scenario mentions _unexp.retaddr
    Pausedaddr,    \* the scenario mentions _unexp.pausedaddr
    TimerIds,      \* bound: handles of timers in use at one time
    MaxInst,       \* bound: calls opened under the Call-ID
    MaxPackets,    \* bound: messages the peer sends
    MaxFires,      \* bound: fires in the channel at one time
    MaxCmds,       \* bound: commands the twin sends
    MaxCloses      \* bound: times the connection is closed

ASSUME StepsAssumption ==
    Resolved /\ \A i \in DOMAIN Steps : ~Steps[i].computed
ASSUME PeerAssumption == Peer \subseteq Message
ASSUME BoundsAssumption ==
    /\ {MaxRetrans, MaxInst, MaxFires, MaxPackets, MaxCmds, MaxCloses} \subseteq Nat
    /\ 0 \notin TimerIds /\ MaxInst # 0
    /\ {Uas, PauseMsgIgn, AbortUnexp, PingReply, DeadcallWait, Lossy, Retaddr, Pausedaddr}
          \subseteq BOOLEAN

VARIABLES
    call,       \* the entry of Engine.calls, or NoCall
    running,    \* the engine is inside advance
    events,     \* the channel
    armed,      \* the timers the timer service holds
    inst,       \* the calls opened so far under the Call-ID
    dead,       \* the Call-ID is remembered in dead_calls
    stats,      \* how the calls ended
    budget      \* what the environment may still do

vars == <<call, running, events, armed, inst, dead, stats, budget>>

NoCall == [index |-> 0]
NoMsg == [name |-> ""]
None == [id |-> 0]

Live == call # NoCall

-----------------------------------------------------------------------------
(* Timers.  A handle that is in use nowhere may be handed out again.       *)

Handles == IF call = NoCall THEN {} ELSE {call.timer.id, call.retrans.id}

InUse == {t.id : t \in armed} \cup {events[i].id : i \in DOMAIN events} \cup Handles

Spare == TimerIds \ InUse
FreshId == CHOOSE id \in Spare : TRUE

Timer(kind, gen) == [type |-> "timer", id |-> FreshId, kind |-> kind, gen |-> gen]

Cancelled == {t \in armed : t.id \notin Handles}
Disarmed(handle) == {t \in armed : t.id # handle.id}

-----------------------------------------------------------------------------
(* The call's table entry.                                                 *)

\* new_call: the generation starts over.
NewCall ==
    [index |-> 1, waiting |-> FALSE, awaitingCmd |-> FALSE, completing |-> FALSE,
     gen |-> 0, timer |-> None, retrans |-> None,
     deadline |-> FALSE,      \* recv_deadline is set
     pause |-> 0,             \* the step of pause_deadline; 0: none
     retaddr |-> 0,           \* _unexp.retaddr
     pausedaddr |-> FALSE,    \* _unexp.pausedaddr is not zero
     restored |-> FALSE,      \* paused_until is set
     lastKey |-> NoMsg,       \* last_recv_key
     inviteNum |-> NoGuard,   \* last_recv_invite_cseq
     branched |-> {}, acked |-> {}, finals |-> {}]   \* txns

\* complete_call, remove_call and the removal for a PING: the call's timers are
\* cancelled, and the Call-ID may live on as a dead call's.
Ends(outcome) ==
    /\ call' = NoCall
    /\ running' = FALSE
    /\ armed' = Cancelled
    /\ stats' = [stats EXCEPT ![outcome] = @ + 1]
    /\ dead' = (DeadcallWait /\ outcome # "pinged")

Continues(c) ==
    /\ call' = c
    /\ UNCHANGED <<stats, dead>>

Init ==
    /\ call = IF Uas THEN NoCall ELSE NewCall
    /\ running = ~Uas
    /\ events = <<>>
    /\ armed = {}
    /\ inst = IF Uas THEN 0 ELSE 1
    /\ dead = FALSE
    /\ stats = [successful |-> 0, failed |-> 0, pinged |-> 0]
    /\ budget = [packets |-> MaxPackets, cmds |-> MaxCmds, closes |-> MaxCloses]

-----------------------------------------------------------------------------
(* advance: one action per step.                                           *)

At(kind) ==
    /\ running /\ ~call.restored
    /\ call.index < End
    /\ Steps[call.index].kind = kind
    /\ Spare # {}

Here == Steps[call.index]

\* The step's actions let the call go on: none of them jumps to where it is.
Proceeds == ~Loops(call.index, call.index, call.retaddr)

Onward == Destinations(call.index, call.retaddr)

\* <pauserestore> sets paused_until, unless no pause was interrupted.
Restores(i) == Steps[i].restores /\ call.pausedaddr

Quiet == UNCHANGED <<events, inst, budget>>

RunEnd ==
    /\ running
    /\ call.index >= End
    /\ Ends("successful")
    /\ Quiet

\* condexec skips the step.
RunSkipped ==
    /\ running /\ ~call.restored
    /\ call.index < End
    /\ Here.cond
    /\ Continues([call EXCEPT !.index = @ + 1])
    /\ UNCHANGED <<running, armed>>
    /\ Quiet

\* An action of the step fails the call.
RunFailing ==
    /\ running /\ ~call.restored
    /\ call.index < End
    /\ Here.kind \in {"send", "pause", "nop", "sendCmd", "timewait"}
    /\ MayFail(call.index, call.index, call.retaddr)
    /\ Ends("failed")
    /\ Quiet

\* A restored pause is served before the step, which is then passed over.
RunRestored ==
    /\ running /\ call.restored
    /\ call.index < End
    /\ Spare # {}
    /\ LET t == Timer("pause", call.gen + 1)
           c == [call EXCEPT !.restored = FALSE, !.index = @ + 1]
       IN  \/ Continues(c) /\ UNCHANGED <<running, armed>>
           \/ /\ Continues([c EXCEPT !.gen = t.gen, !.pause = call.index,
                                     !.timer = [id |-> t.id, kind |-> t.kind]])
              /\ armed' = armed \cup {t}
              /\ running' = FALSE
    /\ Quiet

\* The named transaction a send opens or acknowledges.
Sent(c) ==
    [c EXCEPT
        !.branched = IF Here.acks THEN @ ELSE @ \cup ({Here.txn} \ {0}),
        !.acked    = IF Here.acks THEN @ \cup {Here.txn} ELSE @]

\* A send replaces the pending retransmission by its own.
RunSend ==
    /\ At("send") /\ Proceeds
    /\ \E dest \in Onward :
          LET c == [Sent(call) EXCEPT !.index = dest, !.restored = Restores(call.index)]
              r == Timer("retrans", call.gen + 1)
              pending == Disarmed(call.retrans)
          IN  IF Here.retrans
                THEN /\ Continues([c EXCEPT !.gen = r.gen,
                            !.retrans = [id |-> r.id, step |-> call.index, attempt |-> 1]])
                     /\ armed' = pending \cup {r}
                ELSE /\ Continues([c EXCEPT !.retrans = None])
                     /\ armed' = pending
    /\ UNCHANGED running
    /\ Quiet

\* The dial, the rendering or the send itself fails; so may a sendCmd.
RunSendFails ==
    /\ At("send") \/ At("sendCmd")
    /\ Lossy
    /\ Ends("failed")
    /\ Quiet

\* A mutant of ArmRecv: the wait begins without its timeout.
ArmRecvForGood(c, timed) ==
    /\ Continues([c EXCEPT !.deadline = FALSE])
    /\ UNCHANGED armed

\* A mutant of ArmRecv: the generation is bumped once the timer is armed.
ArmRecvEarly(c, timed) ==
    LET t == Timer("recvTimeout", c.gen) IN
    IF timed
      THEN /\ Continues([c EXCEPT !.deadline = TRUE, !.gen = @ + 1,
                                  !.timer = [id |-> t.id, kind |-> t.kind]])
           /\ armed' = armed \cup {t}
      ELSE /\ Continues([c EXCEPT !.deadline = FALSE])
           /\ UNCHANGED armed

\* arm_recv_deadline.
ArmRecv(c, timed) ==
    LET t == Timer("recvTimeout", c.gen + 1) IN
    IF timed
      THEN /\ Continues([c EXCEPT !.deadline = TRUE, !.gen = t.gen,
                                  !.timer = [id |-> t.id, kind |-> t.kind]])
           /\ armed' = armed \cup {t}
      ELSE /\ Continues([c EXCEPT !.deadline = FALSE])
           /\ UNCHANGED armed

RunRecv ==
    /\ At("recv")
    /\ ArmRecv([call EXCEPT !.waiting = TRUE], Here.timed)
    /\ running' = FALSE
    /\ Quiet

RunRecvCmd ==
    /\ At("recvCmd")
    /\ ArmRecv([call EXCEPT !.awaitingCmd = TRUE, !.waiting = @ \/ Here.optional], Here.timed)
    /\ running' = FALSE
    /\ Quiet

\* Arm the timer that ends a pause or a timewait.
Lingers(c, kind) ==
    LET t == Timer(kind, call.gen + 1) IN
    /\ Continues([c EXCEPT !.gen = t.gen, !.timer = [id |-> t.id, kind |-> kind]])
    /\ armed' = armed \cup {t}
    /\ running' = FALSE

\* `index` already points past the pause while it runs.
RunPause ==
    /\ At("pause") /\ Proceeds
    /\ \E dest \in Onward :
          Lingers([call EXCEPT !.index = dest, !.pause = call.index], "pause")
    /\ Quiet

\* A mutant of RunTimewait: the call is not over after it.
RunTimewaitAsPause ==
    /\ At("timewait")
    /\ Lingers([call EXCEPT !.index = @ + 1], "pause")
    /\ Quiet

RunTimewait ==
    /\ At("timewait") /\ Proceeds
    /\ IF Jumps(call.index)
         THEN \E dest \in Onward : Lingers([call EXCEPT !.index = dest], "pause")
         ELSE Lingers([call EXCEPT !.completing = TRUE, !.index = @ + 1], "timewait")
    /\ Quiet

\* Nothing to wait for: a nop, a command to the twin, a label.
RunOn ==
    /\ At("nop") \/ At("sendCmd") \/ At("label")
    /\ Proceeds
    /\ \E dest \in IF At("label") THEN {call.index + 1} ELSE Onward :
          Continues([call EXCEPT !.index = dest, !.restored = Restores(call.index)])
    /\ UNCHANGED <<running, armed>>
    /\ Quiet

Advance ==
    \/ RunEnd \/ RunRestored \/ RunSkipped \/ RunFailing
    \/ RunSend \/ RunSendFails \/ RunRecv \/ RunRecvCmd
    \/ RunPause \/ RunTimewait \/ RunOn

-----------------------------------------------------------------------------
(* The event loop: each handler takes the channel's first event.           *)

Receives(type) ==
    /\ ~running
    /\ events # <<>>
    /\ Head(events).type = type
    /\ Spare # {}

Consume == events' = Tail(events) /\ UNCHANGED budget

\* Nothing is left of the event.
Ignore == Consume /\ UNCHANGED <<call, running, armed, inst, dead, stats>>

(* on_packet.                                                              *)

ScanCall(c, m) ==
    Scan(Steps, c.branched, c.index, c.waiting \/ c.index = 1, m, c.inviteNum)

\* A restored pause may be pending when the call goes on.
StillRestored(c, si) == IF Steps[si].restores THEN c.pausedaddr ELSE c.restored

Matched(c, si, m) ==
    [c EXCEPT !.retrans = None, !.timer = None, !.gen = @ + 1,
              !.waiting = FALSE, !.awaitingCmd = FALSE, !.index = si + 1,
              !.lastKey = m,
              !.restored = StillRestored(c, si),
              !.inviteNum = IF m.request /\ m.name = "INVITE" THEN m.num ELSE @,
              !.finals = IF Steps[si].txn # 0 THEN @ \cup {m} ELSE @]

\* Where an optional recv that takes nothing leaves the wait: where it was, or
\* at the message before the one its actions jumped to.
Moved(at) ==
    [index       |-> at,
     waiting     |-> Steps[at].kind # "recvCmd" \/ Steps[at].optional,
     awaitingCmd |-> Steps[at].kind = "recvCmd"]

Waits(si, c) ==
    IF Jumps(si) THEN {Moved(WaitAfterJump(target)) : target \in Targets(si, c.retaddr)}
    ELSE {[index |-> c.index, waiting |-> c.waiting, awaitingCmd |-> c.awaitingCmd]}

\* resume_wait: the timeout that was running is armed again.
Resumed(c, wait) ==
    LET w == [c EXCEPT !.index = wait.index, !.waiting = wait.waiting,
                       !.awaitingCmd = wait.awaitingCmd]
        t == Timer("recvTimeout", w.gen + 1)
    IN  IF c.deadline
          THEN /\ Continues([w EXCEPT !.gen = t.gen, !.timer = [id |-> t.id, kind |-> t.kind]])
               /\ armed' = Cancelled \cup {t}
          ELSE /\ Continues(w)
               /\ armed' = Cancelled

OnMatched(c, si, m) ==
    LET done == Matched(c, si, m)
    IN  \/ /\ ~Loops(si, c.index, c.retaddr)
           /\ \E dest \in MovesOn(si) : Continues([done EXCEPT !.index = dest])
           /\ armed' = Cancelled
           /\ running' = TRUE
        \/ /\ ~Loops(si, c.index, c.retaddr)
           /\ Unset(si)
           /\ \E wait \in Waits(si, c) : Resumed(done, wait)
           /\ running' = FALSE
        \/ /\ MayFail(si, c.index, c.retaddr)
           /\ Ends("failed")

\* "Already in a jump": _unexp.retaddr holds the message to return to.
InHandler(c) == Retaddr /\ c.retaddr # 0

\* A mutant of Interrupted: a pause is taken for over, `index` being past it.
InterruptedPast(c) ==
    [c EXCEPT !.retaddr = IF Retaddr THEN MessageIndex(c.index) ELSE @,
              !.pausedaddr = Pausedaddr /\ c.pause # 0,
              !.timer = None, !.gen = @ + 1, !.pause = 0,
              !.waiting = FALSE, !.awaitingCmd = FALSE, !.index = Handler]

\* try_unexpected_jump: the call goes to the handler, and then is offered the
\* message again.
Interrupted(c) ==
    [c EXCEPT !.retaddr = IF Retaddr THEN MessageIndex(IF c.pause # 0 THEN c.pause ELSE c.index)
                                     ELSE @,
              !.pausedaddr = Pausedaddr /\ c.pause # 0,
              !.timer = None, !.gen = @ + 1, !.pause = 0,
              !.waiting = FALSE, !.awaitingCmd = FALSE, !.index = Handler]

OnInterrupted(c) ==
    /\ Continues(Interrupted(c))
    /\ armed' = Disarmed(c.timer)
    /\ running' = TRUE
    /\ UNCHANGED <<events, budget>>

\* checkAutomaticResponseMode, once -aa has had its turn.
OnUnexpected(c, m) ==
    IF m.request /\ m.name \in AutoAnswered
      THEN Continues(c) /\ UNCHANGED <<armed, running>>
    ELSE IF m.request /\ m.name = "PING"
      THEN IF PingReply THEN Ends("pinged")
                        ELSE Continues(c) /\ UNCHANGED <<armed, running>>
    ELSE IF AbortUnexp THEN Ends("failed")
                       ELSE Continues(c) /\ UNCHANGED <<armed, running>>

\* on_old_transaction_response: nothing but a repeated ACK comes of it.
OldTransactionAnswered(c, t, m) ==
    m.name = "180" \/ t \in c.acked \/ m \in c.finals

Deliver(c, m) ==
    LET scan == ScanCall(c, m) IN
    \/ /\ scan.found = "forward"
       /\ \/ OnMatched(c, scan.at, m)
          \/ /\ Lossy
             /\ Continues(c)
             /\ UNCHANGED <<armed, running>>
       /\ Consume
    \/ /\ scan.found = "old"
       /\ Continues([c EXCEPT !.lastKey = m])
       /\ UNCHANGED <<armed, running>>
       /\ Consume
    \/ /\ scan.found = "oldTxn" /\ OldTransactionAnswered(c, scan.at, m)
       /\ Continues(c)
       /\ UNCHANGED <<armed, running>>
       /\ Consume
    \/ /\ \/ scan.found = "none"
          \/ scan.found = "oldTxn" /\ ~OldTransactionAnswered(c, scan.at, m)
       /\ IF Handler # 0 /\ ~InHandler(c)
            THEN OnInterrupted(c)
            ELSE OnUnexpected(c, m) /\ Consume

Opens(m) ==
    /\ Uas
    /\ m.request
    /\ Scan(Steps, {}, 1, TRUE, m, NoGuard).found = "forward"

\* A message of no call: absorbed for a dead one, opening one, or out of call.
OnPacketNoCall ==
    /\ Receives("packet")
    /\ ~Live
    /\ LET m == Head(events).msg IN
       IF ~dead /\ Opens(m) /\ inst < MaxInst
         THEN /\ inst' = inst + 1
              /\ Deliver(NewCall, m)
         ELSE Ignore

\* A mutant of Absorbs: a call in its timewait takes what the peer repeats.
AbsorbsCopies(c, m) == (PauseMsgIgn /\ c.pause # 0) \/ c.lastKey = m

\* A message a call drops: during a pause, a copy of the last one (its answer
\* goes out again), or during timewait.
Absorbs(c, m) ==
    \/ PauseMsgIgn /\ c.pause # 0
    \/ c.lastKey = m
    \/ c.completing

OnPacket ==
    /\ Receives("packet")
    /\ Live
    /\ LET m == Head(events).msg IN
       IF Absorbs(call, m)
         THEN Ignore
         ELSE Deliver(call, m) /\ UNCHANGED inst

(* on_call_timer.                                                          *)

\* The call goes to a label because its wait, or its send, timed out; without
\* one, or past the last message, it fails.
TimesOut(c, ontimeout) ==
    IF ontimeout = 0 \/ PastLast(ontimeout)
      THEN Ends("failed")
      ELSE /\ Continues([c EXCEPT !.waiting = FALSE, !.awaitingCmd = FALSE,
                                  !.index = ontimeout])
           /\ armed' = Disarmed(call.timer)
           /\ running' = TRUE

\* on_recv_timeout, once the wait's handle is gone.  A jump may have left the
\* wait on a step that receives nothing: the call executes it.
OnRecvTimeout(c) ==
    IF c.index < End /\ Steps[c.index].kind \in {"recv", "recvCmd"}
      THEN TimesOut(c, Steps[c.index].ontimeout)
      ELSE /\ Continues([c EXCEPT !.waiting = FALSE, !.awaitingCmd = FALSE])
           /\ UNCHANGED armed
           /\ running' = TRUE

\* A mutant of Stale: any pending wait will do.
StaleIfNoWait(e) == ~Live \/ call.timer = None

\* on_call_timer goes by the generation.
Stale(e) == ~Live \/ call.gen # e.gen

OnWaitTimer ==
    /\ Receives("timer")
    /\ LET e == Head(events)
           c == [call EXCEPT !.timer = None]
       IN  /\ e.kind # "retrans"
           /\ IF Stale(e)
                THEN Ignore
                ELSE /\ \/ e.kind = "recvTimeout" /\ OnRecvTimeout(c)
                        \/ /\ e.kind = "pause"
                           /\ Continues([c EXCEPT !.pause = 0])
                           /\ running' = TRUE
                           /\ UNCHANGED armed
                        \/ e.kind = "timewait" /\ Ends("successful")
                     /\ Consume
                     /\ UNCHANGED inst

\* RetransSchedule::allows, negated.
Exhausted == call.retrans.attempt > MaxRetrans

\* on_retrans_exhausted: `completing` stays as it is.
OnRetransExhausted ==
    TimesOut([call EXCEPT !.retrans = None, !.timer = None, !.gen = @ + 1,
                          !.deadline = FALSE, !.pause = 0],
             Steps[call.retrans.step].ontimeout)

\* on_retrans_timer goes by the call's retransmission, not by the generation
\* the fire carries, and arms the next one under that generation.
OnRetransTimer ==
    /\ Receives("timer")
    /\ LET e == Head(events)
           t == Timer("retrans", e.gen)
       IN  /\ e.kind = "retrans"
           /\ IF ~Live \/ call.retrans = None
                THEN Ignore
                ELSE /\ IF Exhausted
                          THEN OnRetransExhausted
                          ELSE \/ /\ Continues([call EXCEPT !.retrans.attempt = @ + 1,
                                                            !.retrans.id = t.id])
                                  /\ armed' = armed \cup {t}
                                  /\ UNCHANGED running
                               \/ Lossy /\ Ends("failed")
                     /\ Consume
                     /\ UNCHANGED inst

(* on_twin_cmd.                                                            *)

OnTwinCmd ==
    /\ Receives("cmd")
    /\ IF ~Live
         THEN Ignore
         ELSE /\ IF Head(events).abort \/ TakesCmd(call.index) = {}
                   THEN Ends("failed")
                   ELSE \E i \in TakesCmd(call.index) :
                          \/ /\ ~Loops(i, call.index, call.retaddr)
                             /\ \E dest \in NextSteps(i) :
                                   Continues([call EXCEPT !.awaitingCmd = FALSE,
                                       !.waiting = FALSE, !.timer = None, !.gen = @ + 1,
                                       !.restored = StillRestored(call, i),
                                       !.index = dest])
                             /\ armed' = Disarmed(call.timer)
                             /\ running' = TRUE
                          \/ /\ MayFail(i, call.index, call.retaddr)
                             /\ Ends("failed")
              /\ Consume
              /\ UNCHANGED inst

\* close_calls: a call past its last step is done; another fails.
OnClosed ==
    /\ Receives("closed")
    /\ IF ~Live
         THEN Ignore
         ELSE /\ Ends(IF call.completing THEN "successful" ELSE "failed")
              /\ Consume
              /\ UNCHANGED inst

Handle ==
    \/ OnPacketNoCall \/ OnPacket \/ OnWaitTimer \/ OnRetransTimer
    \/ OnTwinCmd \/ OnClosed

-----------------------------------------------------------------------------
(* What reaches the channel.                                               *)

Arrives(event, source) ==
    /\ budget[source] > 0
    /\ budget' = [budget EXCEPT ![source] = @ - 1]
    /\ events' = Append(events, event)
    /\ UNCHANGED <<call, running, armed, inst, dead, stats>>

PeerSends == \E m \in Peer : Arrives([type |-> "packet", id |-> 0, msg |-> m], "packets")

TwinSends == \E abort \in BOOLEAN :
    Arrives([type |-> "cmd", id |-> 0, abort |-> abort], "cmds")

ConnectionCloses == Arrives([type |-> "closed", id |-> 0], "closes")

Fires == {i \in DOMAIN events : events[i].type = "timer"}

Fire ==
    /\ Cardinality(Fires) < MaxFires
    /\ \E t \in armed :
          /\ armed' = armed \ {t}
          /\ events' = Append(events, t)
    /\ UNCHANGED <<call, running, inst, dead, stats, budget>>

\* A Call-ID is remembered for longer than a fire waits in the channel.
DeadExpires ==
    /\ dead
    /\ Fires = {}
    /\ dead' = FALSE
    /\ UNCHANGED <<call, running, events, armed, inst, stats, budget>>

\* Nothing is left to do: no call, or one that waits for its peer for good.
Rest ==
    /\ events = <<>> /\ armed = {}
    /\ Live => ~running /\ (call.waiting \/ call.awaitingCmd \/ call.index = 1)
    /\ UNCHANGED vars

Next ==
    \/ Advance \/ Handle
    \/ PeerSends \/ TwinSends \/ ConnectionCloses \/ Fire \/ DeadExpires
    \/ Rest

Spec == Init /\ [][Next]_vars

\* The engine's thread takes the next step or the next event; the timer thread
\* fires what is due.
Fairness == WF_vars(Advance \/ Handle) /\ WF_vars(Fire)

FairSpec == Spec /\ Fairness

-----------------------------------------------------------------------------
(* Properties.                                                             *)

Kinds == {"retrans", "recvTimeout", "pause", "timewait"}

Timers == [type : {"timer"}, id : TimerIds, kind : Kinds, gen : Nat]

HeldTimers == {None} \cup [id : TimerIds, kind : Kinds \ {"retrans"}]
HeldRetrans == {None} \cup [id : TimerIds, step : DOMAIN Steps, attempt : 1..MaxRetrans + 1]

CallType ==
    [index : 1..End, waiting : BOOLEAN, awaitingCmd : BOOLEAN, completing : BOOLEAN,
     gen : Nat, timer : HeldTimers, retrans : HeldRetrans, deadline : BOOLEAN,
     pause : 0..Len(Steps), retaddr : Nat, pausedaddr : BOOLEAN, restored : BOOLEAN,
     lastKey : Peer \cup {NoMsg}, inviteNum : Nat \cup {NoGuard},
     branched : SUBSET Nat, acked : SUBSET Nat, finals : SUBSET Peer]

\* Every variable has its type.
TypeOK ==
    /\ call \in {NoCall} \cup CallType
    /\ running \in BOOLEAN /\ (running => Live)
    /\ armed \subseteq Timers
    /\ \A i \in Fires : events[i] \in Timers
    /\ inst \in 0..MaxInst
    /\ dead \in BOOLEAN
    /\ stats \in [{"successful", "failed", "pinged"} -> 0..MaxInst]

\* The timers that have not been handled or cancelled.
Pending == armed \cup {events[i] : i \in Fires}

\* A handle the call holds stands for a timer that is still to be handled, and
\* the one its wait, pause or timewait ends with carries the generation the
\* handler asks for: otherwise its fire would be taken for a stale one
\* (on_call_timer) and the call would never move again.
HeldTimersEnd ==
    Live =>
        /\ running => call.timer = None
        /\ call.timer # None =>
              \E t \in Pending : /\ t.id = call.timer.id
                                 /\ t.kind = call.timer.kind
                                 /\ t.gen = call.gen
        /\ call.retrans # None =>
              \E t \in Pending : t.id = call.retrans.id /\ t.kind = "retrans"

\* However a call came to wait (a match that leaves it waiting, a jump, a
\* command), its receive timeout runs exactly while it waits under a deadline.
WaitsAreTimed ==
    Live /\ ~running /\ (call.waiting \/ call.awaitingCmd)
        => (call.deadline <=> (call.timer # None /\ call.timer.kind = "recvTimeout"))

\* A call that neither runs nor expects anything has a timer to move it on.
NoCallIsForgotten ==
    Live /\ ~running /\ ~call.waiting /\ ~call.awaitingCmd /\ call.index # 1
        => call.timer # None

\* A call's timers are those of what it is doing, in every wait, pause and timewait.
TimersFollowWaits == TypeOK /\ HeldTimersEnd /\ WaitsAreTimed /\ NoCallIsForgotten

HandlesFire(kinds) ==
    /\ Live /\ ~running /\ events # <<>>
    /\ Head(events).type = "timer" /\ Head(events).kind \in kinds
    /\ events' = Tail(events)

\* A fire moves a call only if it is of the timer the call holds: the
\* generation, which is all the engine compares, tells a stale fire of a wait,
\* a pause or a timewait from the one that is due.
StaleWaitFiresIgnored ==
    [][HandlesFire(Kinds \ {"retrans"}) /\ call' # call
          => Head(events).id = call.timer.id]_vars

\* The same of retransmission timers: "Bumped whenever timers are (re)armed;
\* stale fires are ignored." (CallState::generation).
StaleRetransFiresIgnored ==
    [][HandlesFire({"retrans"}) /\ call' # call
          => Head(events).id = call.retrans.id]_vars

\* Whatever order its messages, commands and timers come in, a call executes or
\* waits at a step the scenario leads to (StepFlow): what the scenario's lints
\* say of unreachable steps rests on it.
CallsStayOnTheirPath ==
    Live /\ ~call.completing /\ call.index < End => call.index \in Reached

InTimewait == Live /\ call.timer # None /\ call.timer.kind = "timewait"

Completes == ~Live' /\ stats' = [stats EXCEPT !.successful = @ + 1]

\* What the engine handles by asking neither `completing` nor the timer's kind.
HandlesElse ==
    /\ events # <<>> /\ events' = Tail(events)
    /\ Head(events).type = "cmd" \/ HandlesFire({"retrans"})

\* "In timewait: absorb retransmissions, never fail" (CallState::completing).
\* However a call came to its timewait, and whatever the peer, an old fire or the
\* closing of its connection then brings, it stays as it is until it completes.
\* A retransmission still pending and a twin's command are handled as ever.
TimewaitIsQuiet ==
    [][InTimewait /\ call' # call => Completes \/ HandlesElse]_vars

\* A handler that restores a pause and returns resumes the pause it interrupted:
\* the deadline <pauserestore> brings back is served before whatever step comes next
\* and in its place (advance), so that must be the pause it was recorded at and no
\* receive that follows it, though `index` was past the pause when it was recorded.
PauseIsRestored ==
    Live /\ call.restored /\ call.index < End =>
        /\ Steps[call.index].kind = "pause"
        /\ MessageIndex(call.index) = call.retaddr

\* In a scenario whose every wait is timed, each call ends.
CallsEnd == []<>(~Live)
=============================================================================
