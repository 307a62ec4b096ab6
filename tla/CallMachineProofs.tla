------------------------- MODULE CallMachineProofs -------------------------
(***************************************************************************)
(* Proofs about CallMachine, for any scenario, peer and twin: wherever a   *)
(* call goes on from is where the scenario leads, and, where a Call-ID is  *)
(* not used again while fires of its former call are about, a fire moves a *)
(* call only if it is of the timer its wait, pause or timewait holds,      *)
(* every wait, pause and timewait holds the timer it ends with, and a call *)
(* in its timewait is left alone.  And about RetransSchedule: an           *)
(* unanswered message goes out when its schedule says.                     *)
(*                                                                         *)
(* Every action has one of a few effects on the call (Lasts, Clears, Arms, *)
(* Over, Expires); the invariants on counts and fires follow from the      *)
(* effects.  That timers follow waits is shown action by action, from what *)
(* an entry's fields have to do with one another (Fitting) and from the    *)
(* timers that are still pending for it (Held); that it stays on its path, *)
(* from the steps and messages that it holds to go on from (OnPath), all   *)
(* of which are among those the scenario reaches (StepFlowProofs).         *)
(***************************************************************************)
EXTENDS CallMachine, StepFlowProofs, SequenceTheorems, TLAPS

Outcomes == {"successful", "failed", "pinged"}

\* What the proofs need of an entry of the call table.
Entry(c) == {"index", "gen", "timer", "retrans", "retaddr"} \subseteq DOMAIN c /\ c.gen \in Nat

Event ==
    Timers \cup [type : {"packet"}, id : {0}, msg : Peer]
        \cup [type : {"cmd"}, id : {0}, abort : BOOLEAN] \cup [type : {"closed"}, id : {0}]

Types ==
    /\ Live => Entry(call)
    /\ running \in BOOLEAN /\ (running => Live /\ call.timer = None)
    /\ armed \subseteq Timers /\ events \in Seq(Event)
    /\ inst \in Nat /\ stats \in [Outcomes -> Nat]

\* The timers that end a wait, a pause or a timewait, and their fires.
Waiting(timers) == {t \in timers : t.kind # "retrans"}
WaitFires == {i \in DOMAIN events : events[i] \in Timers /\ events[i].kind # "retrans"}

\* The service holds no such timer but the one the call holds.
ArmedAreHeld ==
    \A t \in Waiting(armed) :
        Live /\ t.id = call.timer.id /\ t.kind = call.timer.kind /\ t.gen = call.gen

\* A fire of the call's generation is of the timer it holds, and is the only one.
FiresAreOld ==
    Live => \A i \in WaitFires :
        /\ events[i].gen <= call.gen
        /\ events[i].gen = call.gen =>
              /\ events[i].id = call.timer.id
              /\ Waiting(armed) = {}
              /\ \A j \in WaitFires : events[j].gen = call.gen => j = i

\* A call opens with no such fire in the channel.
OpensAfresh == ~Live /\ ~dead /\ inst < MaxInst => WaitFires = {}

WaitsInv == ArmedAreHeld /\ FiresAreOld /\ OpensAfresh

\* The calls opened are the one that is live and those whose end is counted.
Counted == inst = (IF Live THEN 1 ELSE 0) + stats.successful + stats.failed + stats.pinged

CountInv == Types /\ Counted

IInv == CountInv /\ WaitsInv

\* A call may be given up for a PING, and then its Call-ID is not remembered.
MayPing == PingReply /\ \E m \in Peer : m.request /\ m.name = "PING"

\* A Call-ID is not used again while fires of its former call may be about.
Distinct == MaxInst \in 0..1 \/ (DeadcallWait /\ ~MayPing)

-----------------------------------------------------------------------------
(* The effects of a step on the entry c: the call's, or the one of a call   *)
(* that the step opens.                                                     *)

Base(c) ==
    \/ Live /\ c = call /\ inst' = inst
    \/ ~Live /\ ~dead /\ inst < MaxInst /\ c = NewCall /\ inst' = inst + 1

Safe == /\ running' \in BOOLEAN /\ (running' => Live' /\ call'.timer = None)
        /\ armed' \subseteq Timers

\* The step takes the channel's first event or leaves the channel alone.
Consumes == events' = events \/ (events # <<>> /\ events' = Tail(events))

Drops(c) == \A u \in Waiting(armed') : u \in armed /\ u.id # c.timer.id

Lasts(c) ==
    /\ Entry(call') /\ call'.gen = c.gen /\ call'.timer = c.timer
    /\ Waiting(armed') \subseteq armed
    /\ UNCHANGED <<stats, dead>>

Clears(c) ==
    /\ Entry(call') /\ call'.gen > c.gen /\ call'.timer = None
    /\ Drops(c)
    /\ UNCHANGED <<stats, dead>>

Arms(c) ==
    /\ Entry(call') /\ call'.gen > c.gen
    /\ \E t \in Timers :
          /\ t.gen = call'.gen /\ call'.timer = [id |-> t.id, kind |-> t.kind]
          /\ \A u \in Waiting(armed') : u = t \/ (u \in armed /\ u.id # c.timer.id)
    /\ UNCHANGED <<stats, dead>>

Over(c) ==
    /\ call' = NoCall
    /\ \E o \in Outcomes : /\ stats' = [stats EXCEPT ![o] = @ + 1]
                           /\ dead' = (DeadcallWait /\ o # "pinged")
                           /\ o = "pinged" => MayPing
    /\ Drops(c)

Moves(c) == Safe /\ (Lasts(c) \/ Clears(c) \/ Arms(c) \/ Over(c))

\* The fire of a wait's timer is taken: the call no longer holds it.
Expires ==
    /\ Live /\ Entry(call') /\ call'.gen = call.gen /\ call'.timer = None
    /\ Waiting(armed') \subseteq armed
    /\ events # <<>> /\ events' = Tail(events)
    /\ Head(events) \in Timers /\ Head(events).kind # "retrans"
    /\ Head(events).gen = call.gen
    /\ Safe /\ UNCHANGED <<stats, dead, inst>>

LEMMA EntryIsLive == ASSUME NEW c, Entry(c) PROVE c # NoCall
  BY DEF Entry, NoCall

LEMMA NewCallIsEntry == Entry(NewCall) /\ NewCall.gen = 0 /\ NewCall.timer = None
  BY DEF Entry, NewCall

LEMMA BaseIsEntry == ASSUME Types, NEW c, Base(c) PROVE Entry(c) /\ c.gen \in Nat
  BY NewCallIsEntry DEF Types, Base, Entry

LEMMA KindsAreThese == Kinds = {"retrans", "recvTimeout", "pause", "timewait"}
  BY DEF Kinds

LEMMA TimersAreTyped ==
    ASSUME Spare # {}, NEW kind \in Kinds, NEW gen \in Nat
    PROVE  /\ Timer(kind, gen) \in Timers
           /\ Timer(kind, gen).kind = kind /\ Timer(kind, gen).gen = gen
  <1>1. FreshId \in TimerIds
    BY DEF FreshId, Spare
  <1> QED BY <1>1 DEF Timer, Timers

\* What cancelling leaves, seen from c.
LEMMA CancelledDrop ==
    ASSUME Types, NEW c, Base(c)
    PROVE  /\ Cancelled \subseteq armed /\ \A u \in Cancelled : u.id # c.timer.id
           /\ Disarmed(c.timer) \subseteq armed /\ \A u \in Disarmed(c.timer) : u.id # c.timer.id
           /\ c.timer = None => \A u \in armed : u.id # c.timer.id
  <1>1. \A u \in armed : u.id # None.id
    BY BoundsAssumption DEF Types, Timers, None
  <1>2. Cancelled \subseteq armed /\ \A u \in Cancelled : u.id # c.timer.id
    <2>1. CASE Live
      BY <2>1 DEF Base, Cancelled, Handles, Live
    <2>2. CASE ~Live
      BY <1>1, <2>2, NewCallIsEntry DEF Base, Cancelled
    <2> QED BY <2>1, <2>2
  <1> QED BY <1>1, <1>2 DEF Disarmed

-----------------------------------------------------------------------------
(* The ways a handler leaves the call.                                     *)

LEMMA Stays ==
    ASSUME Types, NEW c, Base(c), NEW d, Continues(d), Entry(d),
           d.gen = c.gen, d.timer = c.timer,
           armed' \subseteq Timers, Waiting(armed') \subseteq armed,
           running' \in BOOLEAN, running' => d.timer = None
    PROVE  Moves(c)
  <1>1. call' = d /\ Live'
    BY EntryIsLive DEF Continues, Live
  <1> QED BY <1>1 DEF Moves, Safe, Lasts, Continues

LEMMA Cleared ==
    ASSUME Types, NEW c, Base(c), NEW d, Continues(d), Entry(d),
           d.gen > c.gen, d.timer = None,
           armed' \subseteq Timers, \A u \in Waiting(armed') : u \in armed /\ u.id # c.timer.id,
           running' \in BOOLEAN
    PROVE  Moves(c)
  <1>1. call' = d /\ Live'
    BY EntryIsLive DEF Continues, Live
  <1> QED BY <1>1 DEF Moves, Safe, Clears, Drops, Continues

LEMMA Arming ==
    ASSUME Types, NEW c, Base(c), NEW d, Continues(d), Entry(d), d.gen > c.gen,
           NEW t \in Timers, t.gen = d.gen, d.timer = [id |-> t.id, kind |-> t.kind],
           \A u \in armed' : u = t \/ (u \in armed /\ u.id # c.timer.id),
           running' = FALSE
    PROVE  Moves(c)
  <1>1. call' = d
    BY DEF Continues
  <1>2. armed' \subseteq Timers /\ \A u \in Waiting(armed') : u = t \/ (u \in armed /\ u.id # c.timer.id)
    BY DEF Types, Waiting
  <1> QED BY <1>1, <1>2 DEF Moves, Safe, Arms, Continues

LEMMA Ended ==
    ASSUME Types, NEW c, Base(c), NEW o \in Outcomes, Ends(o), o = "pinged" => MayPing
    PROVE  Moves(c)
  <1>1. armed' \subseteq Timers /\ Drops(c)
    BY CancelledDrop DEF Types, Ends, Drops, Waiting
  <1> QED BY <1>1 DEF Moves, Safe, Over, Ends

-----------------------------------------------------------------------------
(* advance: each step of the scenario.                                     *)

LEMMA RunningBase ==
    ASSUME Types, running, Quiet
    PROVE  /\ Live /\ Base(call) /\ Entry(call) /\ call.gen \in Nat /\ call.timer = None
           /\ \A u \in armed : u.id # call.timer.id
  <1>1. Live /\ Base(call) /\ Entry(call) /\ call.timer = None
    BY DEF Types, Quiet, Base
  <1> QED BY <1>1, CancelledDrop DEF Entry

LEMMA StepsOn ==
    ASSUME Types, running, Quiet, NEW c, Continues(c), Entry(c), c.gen = call.gen,
           c.timer = call.timer, UNCHANGED <<running, armed>>
    PROVE  Moves(call)
  BY RunningBase, Stays DEF Types, Waiting

LEMMA LingersMoves ==
    ASSUME Types, running, Quiet, Spare # {}, NEW c, Entry(c), c.gen = call.gen,
           NEW kind \in Kinds, Lingers(c, kind)
    PROVE  Moves(call)
  <1> DEFINE t == Timer(kind, call.gen + 1)
             d == [c EXCEPT !.gen = t.gen, !.timer = [id |-> t.id, kind |-> kind]]
  <1>1. call.gen \in Nat
    BY RunningBase
  <1>2. t \in Timers /\ t.kind = kind /\ t.gen = call.gen + 1
    BY <1>1, TimersAreTyped
  <1>3. Entry(d) /\ d.gen = t.gen /\ d.timer = [id |-> t.id, kind |-> t.kind]
    BY <1>1, <1>2 DEF Entry
  <1>4. Continues(d) /\ armed' = armed \cup {t} /\ running' = FALSE
    BY DEF Lingers
  <1> HIDE DEF d, t
  <1>5. \A u \in armed' : u = t \/ (u \in armed /\ u.id # call.timer.id)
    BY <1>4, RunningBase
  <1>6. Base(call) /\ d.gen > call.gen /\ t \in Timers /\ t.gen = d.gen
    BY <1>1, <1>2, <1>3, RunningBase
  <1>7. d.timer = [id |-> t.id, kind |-> t.kind]
    BY <1>3
  <1> QED BY <1>3, <1>4, <1>5, <1>6, <1>7, Arming

LEMMA ArmRecvMoves ==
    ASSUME Types, running, Quiet, Spare # {}, NEW c, Entry(c), c.gen = call.gen,
           c.timer = call.timer, NEW timed, ArmRecv(c, timed), running' = FALSE
    PROVE  Moves(call)
  <1> DEFINE t == Timer("recvTimeout", c.gen + 1)
             d == [c EXCEPT !.deadline = TRUE, !.gen = t.gen,
                            !.timer = [id |-> t.id, kind |-> t.kind]]
             e == [c EXCEPT !.deadline = FALSE]
  <1>1. call.gen \in Nat
    BY RunningBase
  <1>2. CASE timed
    <2>1. t \in Timers /\ t.gen = call.gen + 1
      BY <1>1, TimersAreTyped, KindsAreThese
    <2>2. Entry(d) /\ d.gen = t.gen /\ d.timer = [id |-> t.id, kind |-> t.kind]
      BY <1>1, <2>1 DEF Entry
    <2>3. Continues(d) /\ armed' = armed \cup {t}
      BY <1>2 DEF ArmRecv
    <2> HIDE DEF d, t
    <2>4. \A u \in armed' : u = t \/ (u \in armed /\ u.id # call.timer.id)
      BY <2>3, RunningBase
    <2>5. Base(call) /\ d.gen > call.gen /\ t \in Timers /\ t.gen = d.gen
      BY <1>1, <2>1, <2>2, RunningBase
    <2>6. d.timer = [id |-> t.id, kind |-> t.kind]
      BY <2>2
    <2> QED BY <2>2, <2>3, <2>4, <2>5, <2>6, Arming
  <1>3. CASE ~timed
    <2>1. Entry(e) /\ e.gen = call.gen /\ e.timer = call.timer
      BY DEF Entry
    <2>2. Continues(e) /\ UNCHANGED armed
      BY <1>3 DEF ArmRecv
    <2> HIDE DEF e
    <2> QED BY <2>1, <2>2, RunningBase, Stays DEF Types, Waiting
  <1> QED BY <1>2, <1>3

LEMMA RunSendMoves == Types /\ RunSend => Moves(call)
  <1> SUFFICES ASSUME Types, RunSend PROVE Moves(call)
    OBVIOUS
  <1>1. running /\ Spare # {} /\ Quiet /\ UNCHANGED running
    BY DEF RunSend, At
  <1>2. /\ Base(call) /\ Entry(call) /\ call.gen \in Nat /\ call.timer = None
        /\ \A u \in armed : u.id # call.timer.id
    BY <1>1, RunningBase
  <1>3. PICK dest \in Onward :
          LET c == [Sent(call) EXCEPT !.index = dest, !.restored = Restores(call.index)]
              r == Timer("retrans", call.gen + 1)
              pending == Disarmed(call.retrans)
          IN  IF Here.retrans
                THEN /\ Continues([c EXCEPT !.gen = r.gen,
                            !.retrans = [id |-> r.id, step |-> call.index, attempt |-> 1]])
                     /\ armed' = pending \cup {r}
                ELSE /\ Continues([c EXCEPT !.retrans = None])
                     /\ armed' = pending
    BY DEF RunSend
  <1> DEFINE c == [Sent(call) EXCEPT !.index = dest, !.restored = Restores(call.index)]
             r == Timer("retrans", call.gen + 1)
             d == [c EXCEPT !.gen = r.gen,
                            !.retrans = [id |-> r.id, step |-> call.index, attempt |-> 1]]
             e == [c EXCEPT !.retrans = None]
  <1>4. Entry(c) /\ c.gen = call.gen /\ c.timer = call.timer
    BY <1>2 DEF Sent, Entry
  <1>5. r \in Timers /\ r.kind = "retrans" /\ r.gen = call.gen + 1
    BY <1>1, <1>2, TimersAreTyped, KindsAreThese
  <1>6. Waiting(armed') \subseteq armed /\ armed' \subseteq Timers
    BY <1>3, <1>5 DEF Waiting, Disarmed, Types
  <1>7. Entry(d) /\ d.gen = call.gen + 1 /\ d.timer = call.timer
    BY <1>2, <1>4, <1>5 DEF Entry
  <1>8. Entry(e) /\ e.gen = call.gen /\ e.timer = call.timer
    BY <1>4 DEF Entry
  <1>9. Continues(d) \/ Continues(e)
    BY <1>3
  <1> HIDE DEF c, d, e, r
  <1>10. CASE Continues(d)
    BY <1>1, <1>2, <1>6, <1>7, <1>10, Cleared DEF Types
  <1>11. CASE Continues(e)
    BY <1>1, <1>2, <1>6, <1>8, <1>11, Stays DEF Types
  <1> QED BY <1>9, <1>10, <1>11

LEMMA RunRestoredMoves == Types /\ RunRestored => Moves(call)
  <1> SUFFICES ASSUME Types, RunRestored PROVE Moves(call)
    OBVIOUS
  <1>1. running /\ Spare # {} /\ Quiet
    BY DEF RunRestored
  <1>2. Base(call) /\ Entry(call) /\ call.gen \in Nat
    BY <1>1, RunningBase
  <1> DEFINE t == Timer("pause", call.gen + 1)
             c == [call EXCEPT !.restored = FALSE, !.index = @ + 1]
             d == [c EXCEPT !.gen = t.gen, !.pause = call.index,
                            !.timer = [id |-> t.id, kind |-> t.kind]]
  <1>3. Entry(c) /\ c.gen = call.gen /\ c.timer = call.timer
    BY <1>2 DEF Entry
  <1>4. t \in Timers /\ t.gen = call.gen + 1
    BY <1>1, <1>2, TimersAreTyped, KindsAreThese
  <1>5. Entry(d) /\ d.gen = t.gen /\ d.timer = [id |-> t.id, kind |-> t.kind]
    BY <1>2, <1>3, <1>4 DEF Entry
  <1>6. \/ Continues(c) /\ UNCHANGED <<running, armed>>
        \/ Continues(d) /\ armed' = armed \cup {t} /\ running' = FALSE
    BY DEF RunRestored
  <1> HIDE DEF c, d, t
  <1>7. CASE Continues(c) /\ UNCHANGED <<running, armed>>
    BY <1>1, <1>3, <1>7, StepsOn
  <1>8. CASE Continues(d) /\ armed' = armed \cup {t} /\ running' = FALSE
    <2>1. \A u \in armed' : u = t \/ (u \in armed /\ u.id # call.timer.id)
      BY <1>1, <1>8, RunningBase
    <2>2. d.gen > call.gen /\ t.gen = d.gen /\ d.timer = [id |-> t.id, kind |-> t.kind]
      BY <1>2, <1>4, <1>5
    <2> QED BY <1>2, <1>4, <1>5, <1>8, <2>1, <2>2, Arming
  <1> QED BY <1>6, <1>7, <1>8

LEMMA AdvanceMoves == Types /\ Advance => Live /\ inst' = inst /\ UNCHANGED events /\ Moves(call)
  <1> SUFFICES ASSUME Types, Advance PROVE Live /\ inst' = inst /\ UNCHANGED events /\ Moves(call)
    OBVIOUS
  <1>1. running /\ Quiet
    BY DEF Advance, RunEnd, RunRestored, RunSkipped, RunFailing, RunSend, RunSendFails, RunRecv,
           RunRecvCmd, RunPause, RunTimewait, RunOn, At
  <1>2. Live /\ Base(call) /\ Entry(call) /\ call.gen \in Nat /\ call.timer = None
    BY <1>1, RunningBase
  <1>3. inst' = inst /\ UNCHANGED events
    BY <1>1 DEF Quiet
  <1>4. SUFFICES Moves(call)
    BY <1>2, <1>3
  <1>5. CASE \E o \in {"successful", "failed"} : Ends(o)
    BY <1>2, <1>5, Ended DEF Outcomes
  <1>6. CASE RunSkipped
    <2> DEFINE c == [call EXCEPT !.index = @ + 1]
    <2>1. Entry(c) /\ c.gen = call.gen /\ c.timer = call.timer
      BY <1>2 DEF Entry
    <2>2. Continues(c) /\ UNCHANGED <<running, armed>>
      BY <1>6 DEF RunSkipped
    <2> HIDE DEF c
    <2> QED BY <1>1, <2>1, <2>2, StepsOn
  <1>7. CASE RunRecv
    <2> DEFINE c == [call EXCEPT !.waiting = TRUE]
    <2>1. Entry(c) /\ c.gen = call.gen /\ c.timer = call.timer
      BY <1>2 DEF Entry
    <2>2. ArmRecv(c, Here.timed) /\ running' = FALSE /\ Spare # {}
      BY <1>7 DEF RunRecv, At
    <2> HIDE DEF c
    <2> QED BY <1>1, <2>1, <2>2, ArmRecvMoves
  <1>8. CASE RunRecvCmd
    <2> DEFINE c == [call EXCEPT !.awaitingCmd = TRUE, !.waiting = @ \/ Here.optional]
    <2>1. Entry(c) /\ c.gen = call.gen /\ c.timer = call.timer
      BY <1>2 DEF Entry
    <2>2. ArmRecv(c, Here.timed) /\ running' = FALSE /\ Spare # {}
      BY <1>8 DEF RunRecvCmd, At
    <2> HIDE DEF c
    <2> QED BY <1>1, <2>1, <2>2, ArmRecvMoves
  <1>9. CASE RunPause
    <2>1. PICK dest \in Onward :
             Lingers([call EXCEPT !.index = dest, !.pause = call.index], "pause")
      BY <1>9 DEF RunPause
    <2> DEFINE c == [call EXCEPT !.index = dest, !.pause = call.index]
    <2>2. Entry(c) /\ c.gen = call.gen
      BY <1>2 DEF Entry
    <2>3. Lingers(c, "pause") /\ Spare # {}
      BY <1>9, <2>1 DEF RunPause, At
    <2> HIDE DEF c
    <2> QED BY <1>1, <2>2, <2>3, LingersMoves, KindsAreThese
  <1>10. CASE RunTimewait
    <2> DEFINE c == [call EXCEPT !.completing = TRUE, !.index = @ + 1]
               j(dest) == [call EXCEPT !.index = dest]
    <2>1. Entry(c) /\ c.gen = call.gen
      BY <1>2 DEF Entry
    <2>2. ASSUME NEW dest PROVE Entry(j(dest)) /\ j(dest).gen = call.gen
      BY <1>2 DEF Entry
    <2>3. Spare # {} /\ (Lingers(c, "timewait") \/ \E dest \in Onward : Lingers(j(dest), "pause"))
      BY <1>10 DEF RunTimewait, At
    <2> HIDE DEF c, j
    <2>4. CASE Lingers(c, "timewait")
      BY <1>1, <2>1, <2>3, <2>4, LingersMoves, KindsAreThese
    <2>5. ASSUME NEW dest, Lingers(j(dest), "pause") PROVE Moves(call)
      BY <1>1, <2>2, <2>3, <2>5, LingersMoves, KindsAreThese
    <2>6. Moves(call)
      BY <2>3, <2>4, <2>5
    <2> QED BY <1>1, <1>2, <2>6 DEF Quiet
  <1>11. CASE RunOn
    <2> DEFINE j(dest) == [call EXCEPT !.index = dest, !.restored = Restores(call.index)]
    <2>1. ASSUME NEW dest PROVE Entry(j(dest)) /\ j(dest).gen = call.gen /\ j(dest).timer = call.timer
      BY <1>2 DEF Entry
    <2>2. PICK dest : Continues(j(dest)) /\ UNCHANGED <<running, armed>>
      BY <1>11 DEF RunOn
    <2> HIDE DEF j
    <2> QED BY <1>1, <1>2, <2>1, <2>2, StepsOn DEF Quiet
  <1>12. CASE RunRestored \/ RunSend
    BY <1>1, <1>2, <1>12, RunRestoredMoves, RunSendMoves DEF Quiet
  <1>13. RunEnd \/ RunFailing \/ RunSendFails => \E o \in {"successful", "failed"} : Ends(o)
    BY DEF RunEnd, RunFailing, RunSendFails
  <1>14. CASE RunEnd \/ RunFailing \/ RunSendFails
    BY <1>1, <1>2, <1>5, <1>13, <1>14 DEF Quiet
  <1> QED BY <1>1, <1>2, <1>6, <1>7, <1>8, <1>9, <1>10, <1>11, <1>12, <1>14 DEF Advance, Quiet

-----------------------------------------------------------------------------
(* The handlers.  c is the entry they work on.                             *)

\* A handler clears the wait and runs the call, or arms its timer again.
LEMMA ClearedBy ==
    ASSUME Types, NEW c, Base(c), NEW d, Continues(d), Entry(d), d.gen = c.gen + 1, d.timer = None,
           armed' = Cancelled \/ armed' = Disarmed(c.timer), running' \in BOOLEAN
    PROVE  Moves(c)
  <1>1. c.gen \in Nat /\ d.gen > c.gen
    BY BaseIsEntry
  <1>2. armed' \subseteq armed /\ \A u \in armed' : u.id # c.timer.id
    BY CancelledDrop
  <1>3. armed' \subseteq Timers /\ \A u \in Waiting(armed') : u \in armed /\ u.id # c.timer.id
    BY <1>2 DEF Types, Waiting
  <1> QED BY <1>1, <1>3, Cleared

LEMMA StaysQuiet ==
    ASSUME Types, NEW c, Base(c), ~running, NEW d, Continues(d), Entry(d), d.gen = c.gen,
           d.timer = c.timer, UNCHANGED <<armed, running>>
    PROVE  Moves(c)
  BY Stays DEF Types, Waiting

LEMMA ResumedMoves ==
    ASSUME Types, NEW c, Base(c), Spare # {}, NEW done, Entry(done), done.gen = c.gen + 1,
           done.timer = None, NEW wait, Resumed(done, wait), running' = FALSE
    PROVE  Moves(c)
  <1> DEFINE w == [done EXCEPT !.index = wait.index, !.waiting = wait.waiting,
                               !.awaitingCmd = wait.awaitingCmd]
             t == Timer("recvTimeout", w.gen + 1)
             d == [w EXCEPT !.gen = t.gen, !.timer = [id |-> t.id, kind |-> t.kind]]
  <1>1. Entry(w) /\ w.gen = c.gen + 1 /\ w.timer = None /\ w.gen \in Nat /\ c.gen \in Nat
    BY BaseIsEntry DEF Entry
  <1>2. t \in Timers /\ t.gen = w.gen + 1
    BY <1>1, TimersAreTyped, KindsAreThese
  <1>3. Entry(d) /\ d.gen = t.gen /\ d.timer = [id |-> t.id, kind |-> t.kind]
    BY <1>1, <1>2 DEF Entry
  <1>4. \/ Continues(d) /\ armed' = Cancelled \cup {t}
        \/ Continues(w) /\ armed' = Cancelled
    BY DEF Resumed
  <1> HIDE DEF w, t, d
  <1>5. CASE Continues(d) /\ armed' = Cancelled \cup {t}
    <2>1. \A u \in armed' : u = t \/ (u \in armed /\ u.id # c.timer.id)
      BY <1>5, CancelledDrop
    <2>2. d.gen > c.gen /\ t.gen = d.gen /\ d.timer = [id |-> t.id, kind |-> t.kind]
      BY <1>1, <1>2, <1>3
    <2> QED BY <1>2, <1>3, <1>5, <2>1, <2>2, Arming
  <1>6. CASE Continues(w) /\ armed' = Cancelled
    BY <1>1, <1>6, ClearedBy
  <1> QED BY <1>4, <1>5, <1>6

LEMMA OnMatchedMoves ==
    ASSUME Types, NEW c, Base(c), Spare # {}, NEW si, NEW m, OnMatched(c, si, m)
    PROVE  Moves(c)
  <1> DEFINE done == Matched(c, si, m)
             on(dest) == [done EXCEPT !.index = dest]
  <1>1. Entry(c) /\ c.gen \in Nat
    BY BaseIsEntry
  <1>n. PICK n : n = (IF m.request /\ m.name = "INVITE" THEN m.num ELSE c.inviteNum)
    OBVIOUS
  <1>f. PICK f : f = (IF Steps[si].txn # 0 THEN c.finals \cup {m} ELSE c.finals)
    OBVIOUS
  <1>r. PICK r : r = StillRestored(c, si)
    OBVIOUS
  <1>d. done = [c EXCEPT !.retrans = None, !.timer = None, !.gen = @ + 1,
                         !.waiting = FALSE, !.awaitingCmd = FALSE, !.index = si + 1,
                         !.lastKey = m, !.restored = r, !.inviteNum = n, !.finals = f]
    BY <1>n, <1>f, <1>r DEF Matched
  <1>2. Entry(done) /\ done.gen = c.gen + 1 /\ done.timer = None
    <2> HIDE DEF done
    <2>1. DOMAIN done = DOMAIN c
      BY <1>d
    <2>2. done.timer = None
      BY <1>1, <1>d DEF Entry
    <2>3. done.gen = c.gen + 1
      BY <1>1, <1>d DEF Entry
    <2> QED BY <1>1, <2>1, <2>2, <2>3 DEF Entry
  <1>3. ASSUME NEW dest PROVE Entry(on(dest)) /\ on(dest).gen = c.gen + 1 /\ on(dest).timer = None
    BY <1>2 DEF Entry
  <1>4. \/ (\E dest : Continues(on(dest))) /\ armed' = Cancelled /\ running' = TRUE
        \/ (\E wait : Resumed(done, wait)) /\ running' = FALSE
        \/ Ends("failed")
    BY DEF OnMatched
  <1> HIDE DEF done, on
  <1>5. ASSUME NEW dest, Continues(on(dest)), armed' = Cancelled, running' = TRUE PROVE Moves(c)
    BY <1>3, <1>5, ClearedBy
  <1>6. ASSUME NEW wait, Resumed(done, wait), running' = FALSE PROVE Moves(c)
    BY <1>2, <1>6, ResumedMoves
  <1>7. Ends("failed") => Moves(c)
    BY Ended DEF Outcomes
  <1> QED BY <1>4, <1>5, <1>6, <1>7

LEMMA OnInterruptedMoves ==
    ASSUME Types, NEW c, Base(c), OnInterrupted(c)
    PROVE  Moves(c) /\ UNCHANGED events
  <1> DEFINE d == Interrupted(c)
  <1>1. Entry(d) /\ d.gen = c.gen + 1 /\ d.timer = None
    BY BaseIsEntry DEF Interrupted, Entry
  <1>2. Continues(d) /\ armed' = Disarmed(c.timer) /\ running' = TRUE /\ UNCHANGED events
    BY DEF OnInterrupted
  <1> HIDE DEF d
  <1> QED BY <1>1, <1>2, ClearedBy

LEMMA OnUnexpectedMoves ==
    ASSUME Types, NEW c, Base(c), ~running, NEW m \in Peer, OnUnexpected(c, m)
    PROVE  Moves(c)
  <1>1. \/ Continues(c) /\ UNCHANGED <<armed, running>>
        \/ MayPing /\ Ends("pinged")
        \/ Ends("failed")
    BY DEF OnUnexpected, MayPing
  <1>2. CASE Continues(c) /\ UNCHANGED <<armed, running>>
    BY <1>2, BaseIsEntry, StaysQuiet
  <1>3. CASE MayPing /\ Ends("pinged")
    BY <1>3, Ended DEF Outcomes
  <1>4. CASE Ends("failed")
    BY <1>4, Ended DEF Outcomes
  <1> QED BY <1>1, <1>2, <1>3, <1>4

LEMMA DeliverMoves ==
    ASSUME Types, NEW c, Base(c), ~running, Spare # {}, NEW m \in Peer, Deliver(c, m)
    PROVE  Moves(c) /\ (Consume \/ UNCHANGED events)
  <1> DEFINE d == [c EXCEPT !.lastKey = m]
             scan == ScanCall(c, m)
  <1>1. Entry(c) /\ Entry(d) /\ d.gen = c.gen /\ d.timer = c.timer
    BY BaseIsEntry DEF Entry
  <1>2. \/ OnMatched(c, scan.at, m) /\ Consume
        \/ Continues(c) /\ UNCHANGED <<armed, running>> /\ Consume
        \/ Continues(d) /\ UNCHANGED <<armed, running>> /\ Consume
        \/ OnInterrupted(c)
        \/ OnUnexpected(c, m) /\ Consume
    BY DEF Deliver
  <1> HIDE DEF d, scan
  <1>3. CASE OnMatched(c, scan.at, m) /\ Consume
    BY <1>3, OnMatchedMoves
  <1>4. CASE Continues(c) /\ UNCHANGED <<armed, running>> /\ Consume
    BY <1>1, <1>4, StaysQuiet
  <1>5. CASE Continues(d) /\ UNCHANGED <<armed, running>> /\ Consume
    BY <1>1, <1>5, StaysQuiet
  <1>6. CASE OnInterrupted(c)
    BY <1>6, OnInterruptedMoves
  <1>7. CASE OnUnexpected(c, m) /\ Consume
    BY <1>7, OnUnexpectedMoves
  <1> QED BY <1>2, <1>3, <1>4, <1>5, <1>6, <1>7

\* The first event of the channel, and what is left of it.
LEMMA EventsAreTyped ==
    ASSUME Types, events # << >>
    PROVE  /\ Tail(events) \in Seq(Event) /\ Len(events) \in Nat /\ Len(events) > 0
           /\ Head(events) = events[1]
           /\ Head(events).type = "timer" => Head(events) \in Timers
           /\ Head(events).type = "packet" => Head(events).msg \in Peer
           /\ Len(Tail(events)) = Len(events) - 1
           /\ \A i \in 1..Len(events) - 1 : Tail(events)[i] = events[i + 1]
  <1>1. events \in Seq(Event)
    BY DEF Types
  <1>2. Head(events) \in Event /\ Head(events) = events[1]
    BY <1>1
  <1>3. /\ Head(events).type = "timer" => Head(events) \in Timers
        /\ Head(events).type = "packet" => Head(events).msg \in Peer
    BY <1>2 DEF Event, Timers
  <1> QED BY <1>1, <1>2, <1>3

LEMMA TimesOutMoves ==
    ASSUME Types, NEW c, Entry(c), NEW label, TimesOut(c, label)
    PROVE  \/ Ends("failed")
           \/ \E d : /\ Continues(d) /\ Entry(d) /\ d.gen = c.gen /\ d.timer = c.timer
                    /\ armed' = Disarmed(call.timer) /\ running' = TRUE
  <1> DEFINE d == [c EXCEPT !.waiting = FALSE, !.awaitingCmd = FALSE, !.index = label]
  <1>1. Entry(d) /\ d.gen = c.gen /\ d.timer = c.timer
    BY DEF Entry
  <1>2. \/ Ends("failed")
        \/ Continues(d) /\ armed' = Disarmed(call.timer) /\ running' = TRUE
    BY DEF TimesOut
  <1> HIDE DEF d
  <1> QED BY <1>1, <1>2

\* Nothing becomes of an event.
Ignored == UNCHANGED <<call, running, armed, inst, dead, stats>>

\* What an event comes to.
Handled ==
    \/ Ignored
    \/ Base(call) /\ Moves(call)
    \/ Base(NewCall) /\ Moves(NewCall)
    \/ Expires

LEMMA OnWaitTimerMoves == Types /\ OnWaitTimer => Handled
  <1> SUFFICES ASSUME Types, OnWaitTimer PROVE Handled
    OBVIOUS
  <1> DEFINE e == Head(events)
             c == [call EXCEPT !.timer = None]
             p == [c EXCEPT !.pause = 0]
             w == [c EXCEPT !.waiting = FALSE, !.awaitingCmd = FALSE]
  <1>1. ~running /\ events # << >> /\ e \in Timers /\ e.kind # "retrans"
    BY EventsAreTyped DEF OnWaitTimer, Receives
  <1>2. CASE Ignore
    BY <1>2 DEF Ignore, Handled, Ignored
  <1>3. CASE ~Stale(e) /\ inst' = inst /\ Consume
    <2>1. Live /\ Base(call) /\ Entry(call) /\ call.gen = e.gen /\ events' = Tail(events)
      BY <1>3 DEF Stale, Base, Types, Consume
    <2>2. Entry(c) /\ c.gen = call.gen /\ c.timer = None
      BY <2>1 DEF Entry
    <2>3. Entry(p) /\ p.gen = call.gen /\ p.timer = None
      BY <2>2 DEF Entry
    <2>4. Entry(w) /\ w.gen = call.gen /\ w.timer = None
      BY <2>2 DEF Entry
    <2>5. \A o \in {"successful", "failed"} : Ends(o) => Handled
      BY <2>1, Ended DEF Outcomes, Handled
    <2>6. ASSUME NEW d, Continues(d), Entry(d), d.gen = call.gen, d.timer = None,
                 armed' \subseteq armed, running' = TRUE
          PROVE  Handled
      <3>1. call' = d /\ Live' /\ UNCHANGED <<stats, dead>>
        BY <2>6, EntryIsLive DEF Continues, Live
      <3>2. Safe /\ Waiting(armed') \subseteq armed
        BY <2>6, <3>1 DEF Safe, Types, Waiting
      <3> QED BY <1>1, <1>3, <2>1, <2>6, <3>1, <3>2 DEF Handled, Expires
    <2>7. \/ e.kind = "recvTimeout" /\ OnRecvTimeout(c)
          \/ Continues(p) /\ running' = TRUE /\ UNCHANGED armed
          \/ Ends("successful")
      BY <1>3 DEF OnWaitTimer, Stale, Ignore
    <2> HIDE DEF c, p, w, e
    <2>8. CASE Continues(p) /\ running' = TRUE /\ UNCHANGED armed
      BY <2>3, <2>6, <2>8
    <2>9. CASE OnRecvTimeout(c)
      <3>1. \/ \E label : TimesOut(c, label)
            \/ Continues(w) /\ UNCHANGED armed /\ running' = TRUE
        BY <2>9 DEF OnRecvTimeout, w
      <3>2. ASSUME NEW label, TimesOut(c, label) PROVE Handled
        BY <2>1, <2>2, <2>5, <2>6, <3>2, TimesOutMoves, CancelledDrop
      <3>3. CASE Continues(w) /\ UNCHANGED armed /\ running' = TRUE
        BY <2>4, <2>6, <3>3
      <3> QED BY <3>1, <3>2, <3>3
    <2> QED BY <2>5, <2>7, <2>8, <2>9
  <1> QED BY <1>2, <1>3 DEF OnWaitTimer

LEMMA OnRetransTimerMoves == Types /\ OnRetransTimer => Handled
  <1> SUFFICES ASSUME Types, OnRetransTimer PROVE Handled
    OBVIOUS
  <1> DEFINE e == Head(events)
             t == Timer("retrans", e.gen)
             c == [call EXCEPT !.retrans = None, !.timer = None, !.gen = @ + 1,
                               !.deadline = FALSE, !.pause = 0]
             r == [call EXCEPT !.retrans.attempt = @ + 1, !.retrans.id = t.id]
  <1>1. ~running /\ events # << >> /\ e \in Timers /\ Spare # {}
    BY EventsAreTyped DEF OnRetransTimer, Receives
  <1>2. t \in Timers /\ t.kind = "retrans"
    BY <1>1, TimersAreTyped, KindsAreThese DEF Timers
  <1>3. CASE Ignore
    BY <1>3 DEF Ignore, Handled, Ignored
  <1>4. CASE Live /\ inst' = inst
    <2>1. Live /\ Base(call) /\ Entry(call) /\ call.gen \in Nat
      BY <1>4 DEF Base, Types, Entry
    <2>2. Entry(c) /\ c.gen = call.gen + 1 /\ c.timer = None
      BY <2>1 DEF Entry
    <2>3. Entry(r) /\ r.gen = call.gen /\ r.timer = call.timer
      BY <2>1 DEF Entry
    <2>4. \/ Ignore
          \/ Ends("failed")
          \/ Continues(r) /\ armed' = armed \cup {t} /\ UNCHANGED running
          \/ \E label : TimesOut(c, label)
      BY DEF OnRetransTimer, OnRetransExhausted
    <2> HIDE DEF e, t, c, r
    <2>5. Ends("failed") => Handled
      BY <2>1, Ended DEF Outcomes, Handled
    <2>6. CASE Continues(r) /\ armed' = armed \cup {t} /\ UNCHANGED running
      <3>1. armed' \subseteq Timers /\ Waiting(armed') \subseteq armed
        BY <1>2, <2>6 DEF Waiting, Types
      <3>2. running' \in BOOLEAN /\ ~running'
        BY <1>1, <2>6 DEF Types
      <3>3. Moves(call)
        BY <2>1, <2>3, <2>6, <3>1, <3>2, Stays
      <3> QED BY <2>1, <3>3 DEF Handled
    <2>7. ASSUME NEW label, TimesOut(c, label) PROVE Handled
      <3>1. ASSUME NEW d, Continues(d), Entry(d), d.gen = c.gen, d.timer = c.timer,
                   armed' = Disarmed(call.timer), running' = TRUE
            PROVE  Handled
        BY <2>1, <2>2, <3>1, ClearedBy DEF Handled
      <3> QED BY <2>2, <2>5, <2>7, <3>1, TimesOutMoves
    <2> QED BY <1>3, <2>4, <2>5, <2>6, <2>7
  <1> QED BY <1>3, <1>4 DEF OnRetransTimer

LEMMA OnTwinCmdMoves == Types /\ OnTwinCmd => Handled
  <1> SUFFICES ASSUME Types, OnTwinCmd PROVE Handled
    OBVIOUS
  <1> DEFINE d(dest, r) == [call EXCEPT !.awaitingCmd = FALSE, !.waiting = FALSE, !.timer = None,
                                        !.gen = @ + 1, !.restored = r, !.index = dest]
  <1>1. CASE Ignore
    BY <1>1 DEF Ignore, Handled, Ignored
  <1>2. CASE Live /\ inst' = inst
    <2>1. Base(call) /\ Entry(call)
      BY <1>2 DEF Base, Types
    <2>2. ASSUME NEW dest, NEW r
          PROVE  Entry(d(dest, r)) /\ d(dest, r).gen = call.gen + 1 /\ d(dest, r).timer = None
      BY <2>1 DEF Entry
    <2>3. \/ Ignore
          \/ Ends("failed")
          \/ \E dest, r : Continues(d(dest, r)) /\ armed' = Disarmed(call.timer) /\ running' = TRUE
      BY DEF OnTwinCmd
    <2> HIDE DEF d
    <2>4. Ends("failed") => Handled
      BY <2>1, Ended DEF Outcomes, Handled
    <2>5. ASSUME NEW dest, NEW r, Continues(d(dest, r)), armed' = Disarmed(call.timer), running' = TRUE
          PROVE  Handled
      BY <2>1, <2>2, <2>5, ClearedBy DEF Handled
    <2> QED BY <1>1, <2>3, <2>4, <2>5
  <1> QED BY <1>1, <1>2 DEF OnTwinCmd

LEMMA HandleMoves == Types /\ Handle => Handled /\ Consumes
  <1> SUFFICES ASSUME Types, Handle PROVE Handled /\ Consumes
    OBVIOUS
  <1>1. ~running /\ events # << >> /\ Spare # {}
    BY DEF Handle, OnPacketNoCall, OnPacket, OnWaitTimer, OnRetransTimer, OnTwinCmd, OnClosed, Receives
  <1>a. OnPacketNoCall \/ OnPacket => Head(events).msg \in Peer
    BY <1>1, EventsAreTyped DEF OnPacketNoCall, OnPacket, Receives
  <1>2. CASE OnPacketNoCall
    <2>1. CASE Ignore
      BY <1>1, <2>1 DEF Ignore, Handled, Ignored, Consume, Consumes
    <2>2. CASE ~dead /\ inst < MaxInst /\ inst' = inst + 1 /\ Deliver(NewCall, Head(events).msg)
      <3>1. Base(NewCall)
        BY <1>2, <2>2 DEF OnPacketNoCall, Base
      <3> QED BY <1>1, <1>a, <1>2, <2>2, <3>1, DeliverMoves DEF Handled, Consume, Consumes
    <2> QED BY <1>2, <2>1, <2>2 DEF OnPacketNoCall
  <1>3. CASE OnPacket
    <2>1. CASE Ignore
      BY <1>1, <2>1 DEF Ignore, Handled, Ignored, Consume, Consumes
    <2>2. CASE Deliver(call, Head(events).msg) /\ UNCHANGED inst
      <3>1. Base(call)
        BY <1>3, <2>2 DEF OnPacket, Base
      <3> QED BY <1>1, <1>a, <1>3, <2>2, <3>1, DeliverMoves DEF Handled, Consume, Consumes
    <2> QED BY <1>3, <2>1, <2>2 DEF OnPacket
  <1>4. CASE OnWaitTimer
    BY <1>1, <1>4, OnWaitTimerMoves DEF OnWaitTimer, Ignore, Consume, Consumes
  <1>5. CASE OnRetransTimer
    BY <1>1, <1>5, OnRetransTimerMoves DEF OnRetransTimer, Ignore, Consume, Consumes
  <1>6. CASE OnTwinCmd
    BY <1>1, <1>6, OnTwinCmdMoves DEF OnTwinCmd, Ignore, Consume, Consumes
  <1>7. CASE OnClosed
    <2>1. CASE Ignore
      BY <1>1, <2>1 DEF Ignore, Handled, Ignored, Consume, Consumes
    <2>2. CASE /\ Live /\ Consume /\ UNCHANGED inst
               /\ Ends(IF call.completing THEN "successful" ELSE "failed")
      <3>1. Base(call)
        BY <2>2 DEF Base
      <3>2. Ends("successful") \/ Ends("failed")
        BY <2>2
      <3> QED BY <1>1, <2>2, <3>1, <3>2, Ended DEF Handled, Consume, Consumes, Outcomes
    <2> QED BY <1>7, <2>1, <2>2 DEF OnClosed
  <1> QED BY <1>2, <1>3, <1>4, <1>5, <1>6, <1>7 DEF Handle

-----------------------------------------------------------------------------
(* The invariants follow from the effects.                                 *)

Added(e) == events' = Append(events, e)

\* What reaches the channel leaves the rest alone.
LEMMA EnvironmentSteps ==
    ASSUME Types, PeerSends \/ TwinSends \/ ConnectionCloses
    PROVE  Ignored /\ \E e \in Event : e \notin Timers /\ Added(e)
  <1>1. CASE PeerSends
    BY <1>1 DEF PeerSends, Arrives, Ignored, Added, Event, Timers
  <1>2. CASE TwinSends
    BY <1>2 DEF TwinSends, Arrives, Ignored, Added, Event, Timers
  <1>3. CASE ConnectionCloses
    BY <1>3 DEF ConnectionCloses, Arrives, Ignored, Added, Event, Timers
  <1> QED BY <1>1, <1>2, <1>3

LEMMA EventsStay ==
    ASSUME Types, Consumes \/ \E e \in Event : Added(e)
    PROVE  events' \in Seq(Event)
  <1>1. events \in Seq(Event)
    BY DEF Types
  <1>2. ASSUME NEW e \in Event, Added(e) PROVE events' \in Seq(Event)
    BY <1>1, <1>2 DEF Added
  <1>3. Consumes => events' \in Seq(Event)
    BY <1>1, EventsAreTyped DEF Consumes
  <1> QED BY <1>2, <1>3

LEMMA CountsKept ==
    ASSUME CountInv, NEW c, Base(c), Moves(c), Consumes
    PROVE  CountInv'
  <1>1. Types /\ Counted /\ Safe
    BY DEF CountInv, Moves
  <1>2. events' \in Seq(Event)
    BY <1>1, EventsStay
  <1>3. inst' = (IF Live THEN inst ELSE inst + 1) /\ inst' \in Nat
    BY <1>1 DEF Base, Types
  <1>4. CASE Entry(call') /\ UNCHANGED stats
    <2>1. Live'
      BY <1>4, EntryIsLive DEF Live
    <2>2. Counted'
      BY <1>1, <1>3, <1>4, <2>1 DEF Counted, Types, Outcomes
    <2> QED BY <1>1, <1>2, <1>3, <1>4, <2>1, <2>2 DEF CountInv, Types, Safe
  <1>5. CASE Over(c)
    <2>1. ~Live'
      BY <1>5 DEF Over, Live
    <2>2. PICK o \in Outcomes : stats' = [stats EXCEPT ![o] = @ + 1]
      BY <1>5 DEF Over
    <2>3. stats' \in [Outcomes -> Nat]
      BY <1>1, <2>2 DEF Types
    <2>4. Counted'
      BY <1>1, <1>3, <2>1, <2>2 DEF Counted, Types, Outcomes
    <2> QED BY <1>1, <1>2, <1>3, <2>1, <2>3, <2>4 DEF CountInv, Types, Safe
  <1> QED BY <1>4, <1>5 DEF Moves, Lasts, Clears, Arms

\* A step without a handler: the call is left alone.
LEMMA CountsKeptAlone ==
    ASSUME CountInv, UNCHANGED <<call, running, inst, stats>>, armed' \subseteq armed,
           Consumes \/ \E e \in Event : Added(e)
    PROVE  CountInv'
  BY EventsStay DEF CountInv, Types, Counted, Live

LEMMA FireSteps ==
    ASSUME Types, Fire
    PROVE  \E t \in armed : /\ t \in Event /\ armed' = armed \ {t} /\ Added(t)
                          /\ UNCHANGED <<call, running, inst, dead, stats>>
  BY DEF Fire, Types, Event, Added

LEMMA ExpiresKeepsCounts ==
    ASSUME CountInv, Expires
    PROVE  CountInv'
  <1>1. Live' /\ Safe /\ Types /\ Counted
    BY EntryIsLive DEF Expires, Live, CountInv
  <1>2. events' \in Seq(Event)
    BY <1>1, EventsStay DEF Expires, Consumes
  <1> QED BY <1>1, <1>2 DEF Expires, CountInv, Types, Safe, Counted

\* A step is a handler's, or the environment's.
LEMMA StepIs ==
    ASSUME Types, [Next]_vars
    PROVE  \/ Handled /\ Consumes
           \/ Ignored /\ \E e \in Event : e \notin Timers /\ Added(e)
           \/ Fire
           \/ DeadExpires
  <1>1. CASE Advance
    BY <1>1, AdvanceMoves DEF Handled, Base, Consumes
  <1>2. CASE Handle
    BY <1>2, HandleMoves
  <1>3. CASE PeerSends \/ TwinSends \/ ConnectionCloses
    BY <1>3, EnvironmentSteps
  <1>4. CASE Rest \/ UNCHANGED vars
    BY <1>4 DEF Rest, vars, Handled, Ignored, Consumes
  <1> QED BY <1>1, <1>2, <1>3, <1>4 DEF Next

LEMMA InitCounts == Init => CountInv
  <1> SUFFICES ASSUME Init PROVE CountInv
    OBVIOUS
  <1>1. events \in Seq(Event) /\ stats \in [Outcomes -> Nat] /\ inst \in Nat /\ armed \subseteq Timers
    BY DEF Init, Outcomes
  <1>2. Uas \in BOOLEAN
    BY BoundsAssumption
  <1>3. CASE Uas
    <2>1. ~Live
      BY <1>3 DEF Init, Live
    <2>2. Types
      <3>1. ~running /\ running \in BOOLEAN
        BY <1>3 DEF Init
      <3> QED BY <1>1, <2>1, <3>1 DEF Types
    <2>3. Counted
      BY <1>3, <2>1 DEF Init, Counted
    <2> QED BY <2>2, <2>3 DEF CountInv
  <1>4. CASE ~Uas
    <2>1. Live /\ Entry(call) /\ call.timer = None
      BY <1>4, NewCallIsEntry, EntryIsLive DEF Init, Live
    <2> QED BY <1>1, <1>2, <1>4, <2>1 DEF Init, CountInv, Types, Counted
  <1> QED BY <1>2, <1>3, <1>4

LEMMA NextCounts == CountInv /\ [Next]_vars => CountInv'
  <1> SUFFICES ASSUME CountInv, [Next]_vars PROVE CountInv'
    OBVIOUS
  <1>1. Types
    BY DEF CountInv
  <1>2. CASE Handled /\ Consumes
    <2>1. CASE Ignored
      BY <1>2, <2>1, CountsKeptAlone DEF Ignored
    <2>2. CASE Base(call) /\ Moves(call)
      BY <1>2, <2>2, CountsKept
    <2>3. CASE Base(NewCall) /\ Moves(NewCall)
      BY <1>2, <2>3, CountsKept
    <2>4. CASE Expires
      BY <2>4, ExpiresKeepsCounts
    <2> QED BY <1>2, <2>1, <2>2, <2>3, <2>4 DEF Handled
  <1>3. CASE Ignored /\ \E e \in Event : Added(e)
    BY <1>3, CountsKeptAlone DEF Ignored
  <1>4. CASE Fire
    BY <1>1, <1>4, FireSteps, CountsKeptAlone
  <1>5. CASE DeadExpires
    BY <1>5, CountsKeptAlone DEF DeadExpires, Consumes
  <1> QED BY <1>1, <1>2, <1>3, <1>4, <1>5, StepIs

-----------------------------------------------------------------------------
(* Stale fires.                                                            *)

\* The fires of waits that a step leaves were there before it.
LEMMA FiresLeft ==
    ASSUME Types, Consumes
    PROVE  \A i, j \in WaitFires' : \E k, l \in WaitFires :
               events'[i] = events[k] /\ events'[j] = events[l] /\ (k = l => i = j)
  <1>1. events \in Seq(Event) /\ DOMAIN events = 1..Len(events) /\ Len(events) \in Nat
    BY DEF Types
  <1>2. CASE events' = events
    BY <1>2 DEF WaitFires
  <1>3. CASE events # <<>> /\ events' = Tail(events)
    <2>1. DOMAIN events' = 1..Len(events) - 1
      BY <1>3, EventsAreTyped
    <2>2. \A i \in WaitFires' : i \in Int /\ i + 1 \in WaitFires /\ events'[i] = events[i + 1]
      BY <1>1, <1>3, <2>1, EventsAreTyped DEF WaitFires
    <2>3. \A i, j \in WaitFires' : i + 1 = j + 1 => i = j
      BY <2>2
    <2> QED BY <2>2, <2>3
  <1> QED BY <1>2, <1>3 DEF Consumes

LEMMA FiresAreTyped == \A i \in WaitFires : events[i].gen \in Nat /\ events[i].id # 0
  BY BoundsAssumption DEF WaitFires, Timers

\* What is known of the timers and fires of waits, seen from c.
LEMMA WaitsBefore ==
    ASSUME Types, WaitsInv, NEW c, Base(c)
    PROVE  /\ c.gen \in Nat
           /\ \A t \in Waiting(armed) : t.id = c.timer.id /\ t.kind = c.timer.kind /\ t.gen = c.gen
           /\ \A i \in WaitFires : events[i].gen <= c.gen
           /\ \A i, j \in WaitFires : events[i].gen = c.gen =>
                 /\ events[i].id = c.timer.id /\ Waiting(armed) = {}
                 /\ events[j].gen = c.gen => j = i
  <1>1. c.gen \in Nat
    BY BaseIsEntry
  <1>2. CASE Live
    BY <1>1, <1>2 DEF WaitsInv, ArmedAreHeld, FiresAreOld, Base
  <1>3. CASE ~Live
    BY <1>1, <1>3 DEF WaitsInv, ArmedAreHeld, OpensAfresh, Base
  <1> QED BY <1>2, <1>3, <1>1

LEMMA WaitsKept ==
    ASSUME CountInv, CountInv', WaitsInv, Distinct, NEW c, Base(c), Moves(c), Consumes
    PROVE  WaitsInv'
  <1>1. Types /\ Types'
    BY DEF CountInv
  <1>2. \A i, j \in WaitFires' : \E k, l \in WaitFires :
            events'[i] = events[k] /\ events'[j] = events[l] /\ (k = l => i = j)
    BY <1>1, FiresLeft
  <1>3. \A i \in WaitFires' : events'[i].gen \in Nat /\ events'[i].gen <= c.gen
    BY <1>1, <1>2, WaitsBefore, FiresAreTyped
  <1>4. CASE Lasts(c)
    <2>1. Live' /\ call'.gen = c.gen /\ call'.timer = c.timer
      BY <1>4, EntryIsLive DEF Lasts, Live
    <2>2. Waiting(armed') \subseteq Waiting(armed)
      BY <1>4 DEF Lasts, Waiting
    <2>3. ArmedAreHeld'
      BY <1>1, <2>1, <2>2, WaitsBefore DEF ArmedAreHeld
    <2>4. FiresAreOld'
      <3>1. SUFFICES ASSUME NEW i \in WaitFires', events'[i].gen = c.gen
                     PROVE  /\ events'[i].id = c.timer.id /\ Waiting(armed') = {}
                            /\ \A j \in WaitFires' : events'[j].gen = c.gen => j = i
        BY <1>3, <2>1 DEF FiresAreOld
      <3>2. PICK k \in WaitFires : events'[i] = events[k]
        BY <1>2
      <3>3. events[k].id = c.timer.id /\ Waiting(armed) = {}
        BY <1>1, <3>1, <3>2, WaitsBefore
      <3>4. ASSUME NEW j \in WaitFires', events'[j].gen = c.gen PROVE j = i
        BY <1>1, <1>2, <3>1, <3>4, WaitsBefore
      <3> QED BY <2>2, <3>2, <3>3, <3>4
    <2> QED BY <2>1, <2>3, <2>4 DEF WaitsInv, OpensAfresh
  <1>5. CASE Clears(c) \/ Arms(c)
    <2>1. Live' /\ call'.gen > c.gen /\ call'.gen \in Nat
      BY <1>5, EntryIsLive DEF Clears, Arms, Live, Entry
    <2>2. \A u \in Waiting(armed') : u \in armed /\ u.id # c.timer.id => FALSE
      BY <1>1, WaitsBefore DEF Waiting
    <2>3. ArmedAreHeld'
      <3>1. CASE Clears(c)
        BY <2>2, <3>1 DEF Clears, Drops, ArmedAreHeld
      <3>2. CASE Arms(c)
        <4>1. PICK t \in Timers :
                 /\ t.gen = call'.gen /\ call'.timer = [id |-> t.id, kind |-> t.kind]
                 /\ \A u \in Waiting(armed') : u = t \/ (u \in armed /\ u.id # c.timer.id)
          BY <3>2 DEF Arms
        <4>2. \A u \in Waiting(armed') : u = t
          BY <2>2, <4>1
        <4>3. call'.timer.id = t.id /\ call'.timer.kind = t.kind
          BY <4>1
        <4> QED BY <2>1, <4>1, <4>2, <4>3 DEF ArmedAreHeld
      <3> QED BY <1>5, <3>1, <3>2
    <2>4. \A i \in WaitFires' : events'[i].gen < call'.gen
      BY <1>1, <1>3, <2>1, WaitsBefore
    <2>5. FiresAreOld'
      BY <1>3, <2>1, <2>4 DEF FiresAreOld
    <2> QED BY <2>1, <2>3, <2>5 DEF WaitsInv, OpensAfresh
  <1>6. CASE Over(c)
    <2>1. ~Live'
      BY <1>6 DEF Over, Live
    <2>2. ArmedAreHeld'
      BY <1>1, <1>6, WaitsBefore DEF Over, Drops, ArmedAreHeld, Waiting
    <2>3. ~dead' /\ inst' < MaxInst => FALSE
      <3>1. PICK o \in Outcomes :
               /\ stats' = [stats EXCEPT ![o] = @ + 1]
               /\ dead' = (DeadcallWait /\ o # "pinged")
               /\ (o = "pinged" => MayPing)
        BY <1>6 DEF Over
      <3>2. CASE MaxInst \in 0..1
        <4>a. stats \in [Outcomes -> Nat] /\ stats' \in [Outcomes -> Nat]
          BY <1>1 DEF Types
        <4>1. stats'[o] >= 1 /\ stats' \in [Outcomes -> Nat]
          BY <3>1, <4>a
        <4>2. inst' >= 1
          <5>1. inst' = stats'.successful + stats'.failed + stats'.pinged
            BY <2>1, <4>1 DEF CountInv, Counted, Outcomes
          <5> QED BY <4>1, <5>1 DEF Outcomes
        <4> QED BY <1>1, <3>2, <4>2 DEF Types
      <3>3. CASE DeadcallWait /\ ~MayPing
        <4>1. DeadcallWait /\ o # "pinged"
          BY <3>1, <3>3
        <4>2. dead'
          BY <3>1, <4>1, Zenon
        <4> QED BY <4>2
      <3> QED BY <3>2, <3>3 DEF Distinct
    <2> QED BY <2>1, <2>2, <2>3 DEF WaitsInv, FiresAreOld, OpensAfresh
  <1> QED BY <1>4, <1>5, <1>6 DEF Moves

LEMMA WaitsKeptAlone ==
    ASSUME Types, WaitsInv, Ignored, Consumes \/ \E e \in Event : e \notin Timers /\ Added(e)
    PROVE  WaitsInv'
  <1>1. \A i, j \in WaitFires' : \E k, l \in WaitFires :
            events'[i] = events[k] /\ events'[j] = events[l] /\ (k = l => i = j)
    <2>1. CASE Consumes
      BY <2>1, FiresLeft
    <2>2. ASSUME NEW e \in Event, e \notin Timers, Added(e)
          PROVE  \A i \in WaitFires' : i \in WaitFires /\ events'[i] = events[i]
      BY <2>2 DEF Added, WaitFires, Types
    <2> QED BY <2>1, <2>2
  <1>2. ArmedAreHeld' /\ (Live' <=> Live)
    BY DEF WaitsInv, ArmedAreHeld, Ignored, Live
  <1>3. FiresAreOld'
    <2>1. SUFFICES ASSUME Live, NEW i \in WaitFires'
                   PROVE  /\ events'[i].gen <= call.gen
                          /\ events'[i].gen = call.gen =>
                                /\ events'[i].id = call.timer.id /\ Waiting(armed) = {}
                                /\ \A j \in WaitFires' : events'[j].gen = call.gen => j = i
      BY <1>2 DEF FiresAreOld, Ignored
    <2>2. Base(call)
      BY <2>1 DEF Base, Ignored
    <2> QED BY <1>1, <2>2, WaitsBefore
  <1>4. OpensAfresh'
    BY <1>1, <1>2 DEF WaitsInv, OpensAfresh, Ignored
  <1> QED BY <1>2, <1>3, <1>4 DEF WaitsInv

LEMMA ExpiresKeepsWaits ==
    ASSUME Types, WaitsInv, Expires
    PROVE  WaitsInv'
  <1>1. Live /\ Live' /\ call'.gen = call.gen /\ call.gen \in Nat
    BY EntryIsLive DEF Expires, Live, Types, Entry
  <1>2. 1 \in WaitFires /\ events[1].gen = call.gen
    BY EventsAreTyped DEF Expires, WaitFires, Types
  <1>3. /\ Waiting(armed) = {} /\ \A i \in WaitFires : events[i].gen <= call.gen
        /\ \A i \in WaitFires : events[i].gen = call.gen => i = 1
    BY <1>1, <1>2 DEF WaitsInv, FiresAreOld
  <1>4. Waiting(armed') = {}
    BY <1>3 DEF Expires, Waiting
  <1>5. \A i \in WaitFires' : i + 1 \in WaitFires /\ i + 1 # 1 /\ events'[i] = events[i + 1]
    BY EventsAreTyped DEF Expires, WaitFires, Types
  <1>6. \A i \in WaitFires' : events'[i].gen < call.gen
    BY <1>1, <1>3, <1>5, FiresAreTyped
  <1>7. \A i \in WaitFires' : events'[i].gen <= call.gen /\ events'[i].gen # call.gen
    BY <1>1, <1>5, <1>6, FiresAreTyped
  <1> QED BY <1>1, <1>4, <1>7 DEF WaitsInv, ArmedAreHeld, FiresAreOld, OpensAfresh

LEMMA FireKeepsWaits ==
    ASSUME Types, WaitsInv, Fire
    PROVE  WaitsInv'
  <1>1. PICK t \in armed : /\ t \in Event /\ armed' = armed \ {t} /\ Added(t)
                          /\ UNCHANGED <<call, running, inst, dead, stats>>
    BY FireSteps
  <1>2. t \in Timers /\ events \in Seq(Event) /\ Len(events) \in Nat /\ (Live' <=> Live)
    BY <1>1 DEF Types, Live
  <1> DEFINE n == Len(events) + 1
  <1>3. /\ events'[n] = t
        /\ \A i \in WaitFires' : (i \in WaitFires /\ events'[i] = events[i])
                                \/ (i = n /\ t.kind # "retrans")
    BY <1>1, <1>2 DEF Added, WaitFires
  <1> HIDE DEF n
  <1>4. Waiting(armed') \subseteq Waiting(armed)
    BY <1>1 DEF Waiting
  <1>5. ArmedAreHeld'
    BY <1>1, <1>2, <1>4 DEF WaitsInv, ArmedAreHeld
  <1>6. CASE t.kind = "retrans"
    <2>1. \A i \in WaitFires' : i \in WaitFires /\ events'[i] = events[i]
      BY <1>3, <1>6
    <2>2. FiresAreOld'
      BY <1>1, <1>2, <1>4, <2>1 DEF WaitsInv, FiresAreOld
    <2> QED BY <1>1, <1>2, <1>5, <2>1, <2>2 DEF WaitsInv, OpensAfresh
  <1>7. CASE t.kind # "retrans"
    <2>1. t \in Waiting(armed)
      BY <1>7 DEF Waiting
    <2>2. Live /\ t.id = call.timer.id /\ t.gen = call.gen /\ call.gen \in Nat
      BY <2>1 DEF WaitsInv, ArmedAreHeld, Types, Entry
    <2>3. \A i \in WaitFires : events[i].gen <= call.gen /\ events[i].gen # call.gen
      BY <2>1, <2>2 DEF WaitsInv, FiresAreOld
    <2>4. \A u \in Waiting(armed) : u = t
      <3>1. \A u \in Waiting(armed) : u \in Timers /\ u.id = t.id /\ u.kind = t.kind /\ u.gen = t.gen
        BY <2>1 DEF WaitsInv, ArmedAreHeld, Types, Waiting
      <3> QED BY <1>2, <3>1 DEF Timers
    <2>5. Waiting(armed') = {}
      BY <1>1, <1>4, <2>4 DEF Waiting
    <2>6. \A i \in WaitFires' : events'[i].gen <= call.gen
      BY <1>3, <2>2, <2>3
    <2>7. \A i \in WaitFires' : events'[i].gen = call.gen => i = n /\ events'[i].id = call.timer.id
      BY <1>3, <2>2, <2>3
    <2>8. FiresAreOld'
      BY <1>1, <2>5, <2>6, <2>7 DEF FiresAreOld
    <2> QED BY <1>2, <1>5, <2>2, <2>8 DEF WaitsInv, OpensAfresh
  <1> QED BY <1>6, <1>7

LEMMA DeadExpiresKeepsWaits ==
    ASSUME WaitsInv, DeadExpires
    PROVE  WaitsInv'
  <1>1. WaitFires = {}
    BY DEF DeadExpires, Fires, WaitFires, Timers
  <1>2. WaitFires' = {} /\ (Live' <=> Live) /\ UNCHANGED armed
    BY <1>1 DEF DeadExpires, WaitFires, Live
  <1>3. ArmedAreHeld'
    BY <1>2 DEF WaitsInv, ArmedAreHeld, DeadExpires
  <1> QED BY <1>2, <1>3 DEF WaitsInv, FiresAreOld, OpensAfresh

LEMMA NextWaits == Distinct /\ IInv /\ [Next]_vars => IInv'
  <1> SUFFICES ASSUME Distinct, IInv, [Next]_vars PROVE IInv'
    OBVIOUS
  <1>1. CountInv /\ CountInv' /\ Types /\ WaitsInv
    BY NextCounts DEF IInv, CountInv
  <1>2. CASE Handled /\ Consumes
    <2>1. CASE Ignored
      BY <1>1, <1>2, <2>1, WaitsKeptAlone DEF IInv
    <2>2. CASE Base(call) /\ Moves(call)
      BY <1>1, <1>2, <2>2, WaitsKept DEF IInv
    <2>3. CASE Base(NewCall) /\ Moves(NewCall)
      BY <1>1, <1>2, <2>3, WaitsKept DEF IInv
    <2>4. CASE Expires
      BY <1>1, <2>4, ExpiresKeepsWaits DEF IInv
    <2> QED BY <1>2, <2>1, <2>2, <2>3, <2>4 DEF Handled
  <1>3. CASE Ignored /\ \E e \in Event : e \notin Timers /\ Added(e)
    BY <1>1, <1>3, WaitsKeptAlone DEF IInv
  <1>4. CASE Fire
    BY <1>1, <1>4, FireKeepsWaits DEF IInv
  <1>5. CASE DeadExpires
    BY <1>1, <1>5, DeadExpiresKeepsWaits DEF IInv
  <1> QED BY <1>1, <1>2, <1>3, <1>4, <1>5, StepIs

LEMMA InitWaits == Init => IInv
  <1>1. Init => WaitsInv
    BY DEF Init, WaitsInv, ArmedAreHeld, FiresAreOld, OpensAfresh, Waiting, WaitFires
  <1> QED BY <1>1, InitCounts DEF IInv

(* A fire that is taken from the channel and moves the call is of the timer *)
(* the call's wait, pause or timewait holds.                                *)
LEMMA WaitFiresTaken ==
    ASSUME IInv, [Next]_vars, HandlesFire(Kinds \ {"retrans"}), call' # call
    PROVE  Head(events).id = call.timer.id
  <1>1. Types /\ WaitsInv
    BY DEF IInv, CountInv
  <1>2. Live /\ ~running /\ events # <<>> /\ events' = Tail(events)
        /\ Head(events).type = "timer" /\ Head(events).kind # "retrans"
    BY DEF HandlesFire
  <1>3. Len(events') = Len(events) - 1 /\ Len(events) \in Nat
    BY <1>1, <1>2, EventsAreTyped
  <1>4. OnWaitTimer
    <2>1. CASE Advance
      BY <1>1, <1>2, <1>3, <2>1, AdvanceMoves
    <2>2. CASE Handle
      BY <1>2, <2>2 DEF Handle, OnPacketNoCall, OnPacket, OnRetransTimer, OnTwinCmd, OnClosed, Receives
    <2>3. ~(PeerSends \/ TwinSends \/ ConnectionCloses) /\ ~Fire /\ ~DeadExpires
      BY <1>3 DEF PeerSends, TwinSends, ConnectionCloses, Arrives, Fire, DeadExpires
    <2>4. ~Rest /\ ~UNCHANGED vars
      BY DEF Rest, vars
    <2> QED BY <2>1, <2>2, <2>3, <2>4 DEF Next
  <1>5. ~Stale(Head(events))
    BY <1>4 DEF OnWaitTimer, Ignore
  <1>6. 1 \in WaitFires /\ events[1] = Head(events)
    BY <1>1, <1>2, <1>3, EventsAreTyped DEF WaitFires, Types
  <1> QED BY <1>1, <1>2, <1>5, <1>6 DEF Stale, WaitsInv, FiresAreOld

(* Where a Call-ID is not used again while fires of its former call are     *)
(* about, the invariant of timers and fires holds: the service holds at     *)
(* most the timer of the call's wait, and the channel at most one fire of   *)
(* the call's generation, that timer's.                                     *)
THEOREM WaitsInvariantHolds == ASSUME Distinct PROVE Spec => []IInv
  <1>1. Init => IInv
    BY InitWaits
  <1>2. IInv /\ [Next]_vars => IInv'
    BY NextWaits
  <1> QED BY <1>1, <1>2, PTL DEF Spec

(* Then a fire moves a call only if it is of the timer the call holds:      *)
(* comparing generations (on_call_timer) is enough.                         *)
THEOREM StaleWaitFiresAreIgnored == ASSUME Distinct PROVE Spec => StaleWaitFiresIgnored
  <1>1. IInv /\ [Next]_vars =>
           [HandlesFire(Kinds \ {"retrans"}) /\ call' # call
               => Head(events).id = call.timer.id]_vars
    BY WaitFiresTaken
  <1> QED BY <1>1, WaitsInvariantHolds, PTL DEF Spec, StaleWaitFiresIgnored

-----------------------------------------------------------------------------
(* The timers of a call are those of what it is doing.                      *)

\* The handler of unexpected messages returns to a message, or to the first one.
Returning(c) == IsNoted(c.retaddr)

\* What an entry's fields have to do with one another, `run` telling whether
\* the engine executes the call.
Fitting(c, run) ==
    /\ c \in CallType
    /\ run => c.timer = None /\ ~c.waiting /\ ~c.awaitingCmd
    /\ c.timer # None => c.timer.id # c.retrans.id
    /\ ~run /\ (c.waiting \/ c.awaitingCmd)
         => (c.deadline <=> (c.timer # None /\ c.timer.kind = "recvTimeout"))
    /\ ~run /\ ~c.waiting /\ ~c.awaitingCmd /\ c.index # 1 => c.timer # None
    /\ c.timer # None /\ c.timer.kind # "recvTimeout" => ~c.waiting /\ ~c.awaitingCmd
    /\ Returning(c)

\* A handle the entry holds stands for one of these timers.
WaitPends(c, timers) ==
    c.timer # None => \E t \in timers : t.id = c.timer.id /\ t.kind = c.timer.kind /\ t.gen = c.gen
RetransPends(c, timers) ==
    c.retrans # None => \E t \in timers : t.id = c.retrans.id /\ t.kind = "retrans"
Held(c, timers) == WaitPends(c, timers) /\ RetransPends(c, timers)

HeldInv == Live => Fitting(call, running) /\ Held(call, Pending)

\* The steps, as the compiler resolves them.
LEMMA TheSteps ==
    /\ Resolved /\ Len(Steps) \in Nat /\ Len(Steps) > 0 /\ DOMAIN Steps = 1..Len(Steps)
    /\ End = Len(Steps) + 1 /\ End \in Nat /\ 1 \in 1..End /\ DOMAIN Steps \subseteq 1..End
    /\ \A i \in DOMAIN Steps :
          /\ Steps[i] \in Step /\ i + 1 \in 1..End
          /\ Steps[i].next \in 0..End /\ Steps[i].ontimeout \in 0..End /\ Steps[i].jump \in 0..End
  <1>1. Resolved
    BY StepsAssumption
  <1> QED BY <1>1, StepsAreTyped

LEMMA NoneIsHeld == None \in HeldTimers /\ None \in HeldRetrans /\ None.id = 0
  BY DEF HeldTimers, HeldRetrans, None

LEMMA FirstMessage == MessageIndex(1) = 0
  <1>1. MessagesBefore(1) = {}
    BY DEF MessagesBefore
  <1> QED BY <1>1, FS_EmptySet DEF MessageIndex

\* A call that is opened holds nothing, whether it runs or not.
LEMMA NewCallFits ==
    ASSUME NEW run \in BOOLEAN
    PROVE  Fitting(NewCall, run) /\ \A timers : Held(NewCall, timers)
  <1>1. NewCall \in CallType
    <2>1. 0 \in 0..Len(Steps) /\ 1 \in 1..End
      BY TheSteps
    <2> QED BY <2>1, NoneIsHeld DEF NewCall, CallType
  <1>2. /\ NewCall.index = 1 /\ NewCall.timer = None /\ NewCall.retrans = None
        /\ ~NewCall.waiting /\ ~NewCall.awaitingCmd /\ NewCall.retaddr = 0
    BY DEF NewCall
  <1> QED BY <1>1, <1>2, TheSteps, FirstMessage
         DEF Fitting, Returning, IsNoted, Held, WaitPends, RetransPends

\* The types of an entry's fields.
LEMMA CallFields ==
    ASSUME NEW c \in CallType
    PROVE  /\ c.index \in 1..End /\ c.gen \in Nat /\ c.gen + 1 \in Nat
           /\ c.timer \in HeldTimers /\ c.retrans \in HeldRetrans
           /\ c.waiting \in BOOLEAN /\ c.awaitingCmd \in BOOLEAN /\ c.deadline \in BOOLEAN
           /\ c.pause \in 0..Len(Steps) /\ c.restored \in BOOLEAN /\ c.pausedaddr \in BOOLEAN
           /\ c # NoCall
  <1>1. c # NoCall
    BY DEF CallType, NoCall
  <1> QED BY <1>1 DEF CallType

LEMMA HandlesAreTimers ==
    ASSUME NEW c \in CallType
    PROVE  /\ c.timer # None => c.timer.id \in TimerIds /\ c.timer.kind \in Kinds \ {"retrans"}
           /\ c.retrans # None =>
                 /\ c.retrans.id \in TimerIds /\ c.retrans.step \in DOMAIN Steps
                 /\ c.retrans.attempt \in 1..MaxRetrans + 1
  BY CallFields DEF HeldTimers, HeldRetrans

\* How an action leaves the invariant: with no call, or with one that fits.
LEMMA EndsFits == ASSUME NEW o, Ends(o) PROVE HeldInv'
  BY DEF Ends, HeldInv, Live

LEMMA ContinuesFits ==
    ASSUME NEW d, Continues(d), Fitting(d, running'), Held(d, Pending')
    PROVE  HeldInv'
  BY DEF Continues, HeldInv, Live

\* A timer that is pending stays so unless it is cancelled or taken.
LEMMA PendingLeft ==
    ASSUME Types, Consumes, NEW t \in Pending, t \in armed => t \in armed',
           events' # events => t # Head(events)
    PROVE  t \in Pending'
  <1>1. CASE t \in armed
    BY <1>1 DEF Pending
  <1>2. CASE t \notin armed
    <2>1. PICK i \in Fires : t = events[i]
      BY <1>2 DEF Pending
    <2>2. CASE events' = events
      BY <2>1, <2>2 DEF Pending, Fires
    <2>3. CASE events # <<>> /\ events' = Tail(events) /\ events' # events
      <3>1. i \in 1..Len(events) /\ Len(events) \in Nat
        BY <2>1 DEF Fires, Types
      <3>2. i # 1
        BY <2>1, <2>3, EventsAreTyped
      <3>3. PICK k \in 1..Len(events) - 1 : k + 1 = i
        <4>1. i - 1 \in 1..Len(events) - 1 /\ (i - 1) + 1 = i
          BY <3>1, <3>2
        <4> QED BY <4>1
      <3>4. Tail(events)[k] = events[i]
        BY <2>3, <3>3, EventsAreTyped
      <3>5. events' \in Seq(Event) /\ Len(events') = Len(events) - 1
        BY <2>3, EventsAreTyped
      <3>6. events'[k] = t
        BY <2>1, <2>3, <3>4
      <3>7. DOMAIN events' = 1..Len(events')
        BY <3>5
      <3>8. k \in DOMAIN events' /\ events[i].type = "timer"
        BY <2>1, <3>3, <3>5, <3>7 DEF Fires
      <3>9. k \in Fires'
        BY <2>1, <3>6, <3>8 DEF Fires
      <3> QED BY <3>6, <3>9 DEF Pending
    <2> QED BY <2>2, <2>3 DEF Consumes
  <1> QED BY <1>1, <1>2

LEMMA PendingAreTimers == ASSUME Types PROVE Pending \subseteq Timers /\ \A t \in Timers : t.id # 0
  <1>1. \A i \in Fires : events[i] \in Timers
    BY DEF Types, Fires, Event, Timers
  <1> QED BY <1>1, BoundsAssumption DEF Types, Pending, Timers

\* A pending retransmission survives the end of a wait, which has a handle of
\* its own; and a wait's timer survives an event that is not its fire.
LEMMA RetransSurvives ==
    ASSUME Types, NEW c, Fitting(c, FALSE) \/ c.timer = None, RetransPends(c, Pending),
           NEW d, d.retrans = c.retrans, Disarmed(c.timer) \subseteq armed', Consumes,
           events' # events => ~(Head(events) \in Timers /\ Head(events).kind = "retrans")
    PROVE  RetransPends(d, Pending')
  <1> SUFFICES ASSUME c.retrans # None PROVE \E t \in Pending' : t.id = c.retrans.id /\ t.kind = "retrans"
    BY DEF RetransPends
  <1>1. PICK t \in Pending : t.id = c.retrans.id /\ t.kind = "retrans"
    BY DEF RetransPends
  <1>2. t \in Timers /\ t.id # 0
    BY PendingAreTimers
  <1>3. t.id # c.timer.id
    BY <1>1, <1>2, NoneIsHeld DEF Fitting
  <1>4. t \in armed => t \in armed'
    BY <1>3 DEF Disarmed
  <1>5. t \in Pending'
    BY <1>1, <1>2, <1>4, PendingLeft
  <1> QED BY <1>1, <1>5

LEMMA WaitSurvives ==
    ASSUME Types, NEW c, WaitPends(c, Pending), NEW d, d.timer = c.timer, d.gen = c.gen,
           armed \subseteq armed', Consumes,
           events' # events => ~(Head(events) \in Timers /\ Head(events).kind # "retrans"
                                     /\ Head(events).gen = c.gen) \/ c.timer = None,
           c.timer # None => c.timer.kind # "retrans"
    PROVE  WaitPends(d, Pending')
  <1> SUFFICES ASSUME c.timer # None
               PROVE  \E t \in Pending' : t.id = c.timer.id /\ t.kind = c.timer.kind /\ t.gen = c.gen
    BY DEF WaitPends
  <1>1. PICK t \in Pending : t.id = c.timer.id /\ t.kind = c.timer.kind /\ t.gen = c.gen
    BY DEF WaitPends
  <1>2. t \in Timers
    BY PendingAreTimers
  <1>5. t \in Pending'
    BY <1>1, <1>2, PendingLeft
  <1> QED BY <1>1, <1>5

\* The new handle is no other's.
LEMMA FreshIsFree ==
    ASSUME Types, Spare # {}, NEW c, Base(c)
    PROVE  FreshId \in TimerIds /\ FreshId # 0 /\ FreshId # c.timer.id /\ FreshId # c.retrans.id
  <1>1. FreshId \in TimerIds /\ FreshId \notin Handles
    BY DEF FreshId, Spare, InUse
  <1>2. FreshId # 0
    BY <1>1, BoundsAssumption
  <1>3. CASE Live
    BY <1>1, <1>2, <1>3 DEF Base, Handles, Live
  <1>4. CASE ~Live
    BY <1>1, <1>2, <1>4, NewCallIsEntry, NoneIsHeld DEF Base, NewCall
  <1> QED BY <1>1, <1>2, <1>3, <1>4

-----------------------------------------------------------------------------
(* advance.                                                                *)

\* A call that runs holds no timer but its retransmission's.
LEMMA RunningFits ==
    ASSUME Types, HeldInv, running, Quiet
    PROVE  /\ call \in CallType /\ call.timer = None /\ ~call.waiting /\ ~call.awaitingCmd
           /\ Returning(call) /\ RetransPends(call, Pending) /\ Base(call)
           /\ UNCHANGED events /\ Consumes /\ call.gen \in Nat
           /\ call.index < End => /\ call.index \in DOMAIN Steps /\ call.index + 1 \in 1..End
  <1>1. Live /\ Fitting(call, TRUE) /\ Held(call, Pending) /\ Base(call)
    BY RunningBase DEF Types, HeldInv
  <1>2. call \in CallType /\ call.timer = None /\ ~call.waiting /\ ~call.awaitingCmd
    BY <1>1 DEF Fitting
  <1>3. call.index < End => call.index \in DOMAIN Steps /\ call.index + 1 \in 1..End
    BY <1>2, CallFields, TheSteps
  <1> QED BY <1>1, <1>2, <1>3, CallFields DEF Fitting, Held, Returning, Quiet, Consumes

\* A step that only moves the call.
LEMMA StepsOnFits ==
    ASSUME Types, HeldInv, running, Quiet, NEW d, Continues(d), d \in CallType,
           d.timer = call.timer, d.retrans = call.retrans, d.retaddr = call.retaddr,
           d.waiting = call.waiting, d.awaitingCmd = call.awaitingCmd,
           UNCHANGED <<running, armed>>
    PROVE  HeldInv'
  <1>1. Fitting(d, TRUE) /\ running'
    BY RunningFits DEF Fitting, Returning
  <1>2. Disarmed(call.timer) \subseteq armed'
    BY DEF Disarmed
  <1>3. RetransPends(d, Pending')
    BY <1>2, RunningFits, RetransSurvives
  <1>4. running' = TRUE
    BY DEF Types
  <1> QED BY <1>1, <1>3, <1>4, RunningFits, ContinuesFits DEF Held, WaitPends

\* A step that arms a timer and waits for it.
LEMMA ArmingFits ==
    ASSUME Types, HeldInv, running, Quiet, NEW d, Continues(d), d \in CallType,
           d.retrans = call.retrans, Returning(d), NEW t \in Timers,
           t.id = FreshId, Spare # {},
           d.timer = [id |-> t.id, kind |-> t.kind], d.gen = t.gen, armed' = armed \cup {t},
           running' = FALSE,
           IF t.kind = "recvTimeout" THEN d.deadline ELSE ~d.waiting /\ ~d.awaitingCmd
    PROVE  HeldInv'
  <1>1. d.timer.id = t.id /\ d.timer.kind = t.kind /\ d.timer # None
    <2>1. t.id # 0 /\ None.id = 0
      BY FreshIsFree, RunningFits, NoneIsHeld
    <2> QED BY <2>1
  <1>2. d.timer.id # d.retrans.id
    BY <1>1, FreshIsFree, RunningFits
  <1>3. Fitting(d, FALSE)
    BY <1>1, <1>2, CallFields DEF Fitting, Returning
  <1>4. Disarmed(call.timer) \subseteq armed'
    BY DEF Disarmed
  <1>5. RetransPends(d, Pending')
    BY <1>4, RunningFits, RetransSurvives
  <1>6. WaitPends(d, Pending')
    BY <1>1 DEF WaitPends, Pending
  <1> QED BY <1>3, <1>5, <1>6, ContinuesFits DEF Held

\* A pause or a timewait begins.
LEMMA LingersFits ==
    ASSUME Types, HeldInv, running, Quiet, Spare # {}, NEW c \in CallType,
           c.retrans = call.retrans, Returning(c), ~c.waiting, ~c.awaitingCmd,
           NEW kind \in {"pause", "timewait"}, Lingers(c, kind)
    PROVE  HeldInv'
  <1> DEFINE t == Timer(kind, call.gen + 1)
             d == [c EXCEPT !.gen = t.gen, !.timer = [id |-> t.id, kind |-> kind]]
  <1>1. call.gen \in Nat /\ kind \in Kinds /\ kind # "retrans" /\ kind # "recvTimeout"
    BY RunningFits, KindsAreThese
  <1>2. t \in Timers /\ t.kind = kind /\ t.gen = call.gen + 1 /\ t.id = FreshId /\ t.gen \in Nat
    BY <1>1, TimersAreTyped DEF Timer
  <1>3. [id |-> t.id, kind |-> kind] \in HeldTimers
    BY <1>1, <1>2 DEF HeldTimers, Timers
  <1>4. Continues(d) /\ armed' = armed \cup {t} /\ running' = FALSE
    BY DEF Lingers
  <1> HIDE DEF t
  <1>5. d \in CallType
    BY <1>2, <1>3 DEF CallType
  <1>6. /\ d.retrans = call.retrans /\ Returning(d) /\ ~d.waiting /\ ~d.awaitingCmd
        /\ d.timer = [id |-> t.id, kind |-> t.kind] /\ d.gen = t.gen
    BY <1>2 DEF CallType, Returning
  <1> HIDE DEF d
  <1> QED BY <1>1, <1>2, <1>4, <1>5, <1>6, ArmingFits

\* A wait begins, with or without its timeout.
LEMMA ArmRecvFits ==
    ASSUME Types, HeldInv, running, Quiet, Spare # {}, NEW c \in CallType,
           c.retrans = call.retrans, c.timer = None, c.gen = call.gen, Returning(c),
           c.waiting \/ c.awaitingCmd, NEW timed, ArmRecv(c, timed), running' = FALSE
    PROVE  HeldInv'
  <1> DEFINE t == Timer("recvTimeout", c.gen + 1)
             d == [c EXCEPT !.deadline = TRUE, !.gen = t.gen, !.timer = [id |-> t.id, kind |-> t.kind]]
             e == [c EXCEPT !.deadline = FALSE]
  <1>1. call.gen \in Nat
    BY RunningFits
  <1>2. t \in Timers /\ t.kind = "recvTimeout" /\ t.id = FreshId /\ t.gen \in Nat
    BY <1>1, TimersAreTyped, KindsAreThese DEF Timer
  <1>3. [id |-> t.id, kind |-> t.kind] \in HeldTimers
    BY <1>2, KindsAreThese DEF HeldTimers, Timers
  <1>4. \/ Continues(d) /\ armed' = armed \cup {t}
        \/ Continues(e) /\ UNCHANGED armed
    BY DEF ArmRecv
  <1> HIDE DEF t
  <1>5. /\ d \in CallType /\ d.retrans = call.retrans /\ Returning(d) /\ d.deadline
        /\ d.timer = [id |-> t.id, kind |-> t.kind] /\ d.gen = t.gen
    BY <1>2, <1>3 DEF CallType, Returning
  <1>6. /\ e \in CallType /\ e.retrans = call.retrans /\ Returning(e) /\ ~e.deadline
        /\ e.timer = None /\ (e.waiting \/ e.awaitingCmd)
    BY DEF CallType, Returning
  <1> HIDE DEF d, e
  <1>7. CASE Continues(d) /\ armed' = armed \cup {t}
    BY <1>2, <1>5, <1>7, ArmingFits
  <1>8. CASE Continues(e) /\ UNCHANGED armed
    <2>1. Fitting(e, FALSE)
      BY <1>6 DEF Fitting, Returning
    <2>2. Disarmed(call.timer) \subseteq armed'
      BY <1>8 DEF Disarmed
    <2>3. RetransPends(e, Pending')
      BY <1>6, <2>2, RunningFits, RetransSurvives
    <2> QED BY <1>6, <1>8, <2>1, <2>3, ContinuesFits DEF Held, WaitPends
  <1> QED BY <1>4, <1>7, <1>8

LEMMA StepFields ==
    \A i \in DOMAIN Steps : /\ Steps[i].restores \in BOOLEAN /\ Steps[i].optional \in BOOLEAN
                            /\ Steps[i].txn \in Nat
  <1>1. \A i \in DOMAIN Steps : Steps[i] \in Step
    BY TheSteps
  <1> QED BY <1>1 DEF Step

\* The call goes to another step.
LEMMA Relocated ==
    ASSUME NEW c \in CallType, NEW at \in 1..End
    PROVE  LET d == [c EXCEPT !.index = at]
           IN  /\ d \in CallType /\ d.index = at /\ d.gen = c.gen /\ d.timer = c.timer
               /\ d.retrans = c.retrans /\ d.waiting = c.waiting /\ d.awaitingCmd = c.awaitingCmd
               /\ d.deadline = c.deadline /\ d.retaddr = c.retaddr
  BY DEF CallType

\* Each step of the scenario.
LEMMA RunSkippedFits == ASSUME Types, HeldInv, RunSkipped PROVE HeldInv'
  <1> DEFINE d == [call EXCEPT !.index = @ + 1]
  <1>1. running /\ Quiet /\ Continues(d) /\ UNCHANGED <<running, armed>> /\ call.index < End
    BY DEF RunSkipped
  <1>2. call \in CallType /\ call.index + 1 \in 1..End
    BY <1>1, RunningFits
  <1>3. /\ d \in CallType /\ d.timer = call.timer /\ d.retrans = call.retrans /\ d.retaddr = call.retaddr
        /\ d.waiting = call.waiting /\ d.awaitingCmd = call.awaitingCmd
    BY <1>2 DEF CallType
  <1> HIDE DEF d
  <1> QED BY <1>1, <1>3, StepsOnFits

\* Where a step's actions leave the call.
LEMMA OnwardLands ==
    ASSUME Types, HeldInv, running, Quiet, call.index < End
    PROVE  Onward \subseteq 1..End /\ Restores(call.index) \in BOOLEAN
  <1>1. call.index \in DOMAIN Steps /\ Returning(call) /\ call.pausedaddr \in BOOLEAN
    BY RunningFits, CallFields
  <1>2. Onward \subseteq 1..End
    BY <1>1, TheSteps, DestinationsLand DEF Onward, Returning
  <1>3. Restores(call.index) \in BOOLEAN
    BY <1>1, StepFields DEF Restores
  <1> QED BY <1>2, <1>3

LEMMA RunOnFits == ASSUME Types, HeldInv, RunOn PROVE HeldInv'
  <1> DEFINE d(at) == [call EXCEPT !.index = at, !.restored = Restores(call.index)]
  <1>1. running /\ Quiet /\ UNCHANGED <<running, armed>> /\ call.index < End
    BY DEF RunOn, At
  <1>2. call \in CallType /\ call.index + 1 \in 1..End
    BY <1>1, RunningFits
  <1>3. Onward \subseteq 1..End /\ Restores(call.index) \in BOOLEAN
    BY <1>1, OnwardLands
  <1>4. PICK at \in 1..End : Continues(d(at))
    BY <1>2, <1>3 DEF RunOn
  <1>5. /\ d(at) \in CallType /\ d(at).timer = call.timer /\ d(at).retrans = call.retrans
        /\ d(at).retaddr = call.retaddr
        /\ d(at).waiting = call.waiting /\ d(at).awaitingCmd = call.awaitingCmd
    BY <1>2, <1>3 DEF CallType
  <1> HIDE DEF d
  <1> QED BY <1>1, <1>4, <1>5, StepsOnFits

LEMMA RunRecvFits == ASSUME Types, HeldInv, RunRecv PROVE HeldInv'
  <1> DEFINE c == [call EXCEPT !.waiting = TRUE]
  <1>1. /\ running /\ Quiet /\ Spare # {} /\ ArmRecv(c, Here.timed) /\ running' = FALSE
    BY DEF RunRecv, At
  <1>2. call \in CallType /\ Returning(call) /\ call.timer = None
    BY <1>1, RunningFits
  <1>3. /\ c \in CallType /\ c.retrans = call.retrans /\ c.timer = None /\ c.gen = call.gen
        /\ Returning(c) /\ c.waiting
    BY <1>2 DEF CallType, Returning
  <1> HIDE DEF c
  <1> QED BY <1>1, <1>3, ArmRecvFits

LEMMA RunRecvCmdFits == ASSUME Types, HeldInv, RunRecvCmd PROVE HeldInv'
  <1> DEFINE c == [call EXCEPT !.awaitingCmd = TRUE, !.waiting = @ \/ Here.optional]
  <1>1. /\ running /\ Quiet /\ Spare # {} /\ ArmRecv(c, Here.timed) /\ running' = FALSE
    BY DEF RunRecvCmd, At
  <1>2. call \in CallType /\ Returning(call) /\ call.timer = None
    BY <1>1, RunningFits
  <1>3. PICK w : w = (call.waiting \/ Here.optional)
    OBVIOUS
  <1>4. w \in BOOLEAN
    BY <1>3
  <1>5. c = [call EXCEPT !.awaitingCmd = TRUE, !.waiting = w]
    BY <1>2, <1>3 DEF CallType
  <1>6. /\ c \in CallType /\ c.retrans = call.retrans /\ c.timer = None /\ c.gen = call.gen
        /\ Returning(c) /\ c.awaitingCmd
    BY <1>2, <1>4, <1>5 DEF CallType, Returning
  <1> HIDE DEF c
  <1> QED BY <1>1, <1>6, ArmRecvFits

LEMMA RunPauseFits == ASSUME Types, HeldInv, RunPause PROVE HeldInv'
  <1> DEFINE c(at) == [call EXCEPT !.index = at, !.pause = call.index]
  <1>1. running /\ Quiet /\ Spare # {} /\ call.index < End
    BY DEF RunPause, At
  <1>2. /\ call \in CallType /\ Returning(call) /\ ~call.waiting /\ ~call.awaitingCmd
        /\ call.index \in DOMAIN Steps
    BY <1>1, RunningFits
  <1>3. Onward \subseteq 1..End /\ call.index \in 0..Len(Steps)
    BY <1>1, <1>2, TheSteps, OnwardLands
  <1>4. PICK at \in 1..End : Lingers(c(at), "pause")
    BY <1>3 DEF RunPause
  <1>5. /\ c(at) \in CallType /\ c(at).retrans = call.retrans /\ Returning(c(at))
        /\ ~c(at).waiting /\ ~c(at).awaitingCmd
    BY <1>2, <1>3 DEF CallType, Returning
  <1> HIDE DEF c
  <1> QED BY <1>1, <1>4, <1>5, LingersFits

LEMMA RunTimewaitFits == ASSUME Types, HeldInv, RunTimewait PROVE HeldInv'
  <1> DEFINE c == [call EXCEPT !.completing = TRUE, !.index = @ + 1]
             j(at) == [call EXCEPT !.index = at]
  <1>1. running /\ Quiet /\ Spare # {} /\ call.index < End
    BY DEF RunTimewait, At
  <1>2. /\ call \in CallType /\ Returning(call) /\ ~call.waiting /\ ~call.awaitingCmd
        /\ call.index \in DOMAIN Steps /\ call.index + 1 \in 1..End
    BY <1>1, RunningFits
  <1>3. Lingers(c, "timewait") \/ \E at \in Onward : Lingers(j(at), "pause")
    BY DEF RunTimewait
  <1>4. Onward \subseteq 1..End
    BY <1>1, OnwardLands
  <1>5. /\ c \in CallType /\ c.retrans = call.retrans /\ Returning(c)
        /\ ~c.waiting /\ ~c.awaitingCmd
    BY <1>2 DEF CallType, Returning
  <1>6. ASSUME NEW at \in 1..End
        PROVE  /\ j(at) \in CallType /\ j(at).retrans = call.retrans /\ Returning(j(at))
               /\ ~j(at).waiting /\ ~j(at).awaitingCmd
    BY <1>2 DEF CallType, Returning
  <1> HIDE DEF c, j
  <1>7. CASE Lingers(c, "timewait")
    BY <1>1, <1>5, <1>7, LingersFits
  <1>8. ASSUME NEW at \in 1..End, Lingers(j(at), "pause") PROVE HeldInv'
    BY <1>1, <1>6, <1>8, LingersFits
  <1> QED BY <1>3, <1>4, <1>7, <1>8

LEMMA RunRestoredFits == ASSUME Types, HeldInv, RunRestored PROVE HeldInv'
  <1> DEFINE t == Timer("pause", call.gen + 1)
             c == [call EXCEPT !.restored = FALSE, !.index = @ + 1]
             d == [c EXCEPT !.gen = t.gen, !.pause = call.index,
                            !.timer = [id |-> t.id, kind |-> t.kind]]
  <1>1. running /\ Quiet /\ Spare # {} /\ call.index < End
    BY DEF RunRestored
  <1>2. /\ call \in CallType /\ Returning(call) /\ ~call.waiting /\ ~call.awaitingCmd
        /\ call.index \in DOMAIN Steps /\ call.index + 1 \in 1..End /\ call.gen \in Nat
        /\ call.index \in 0..Len(Steps)
    BY <1>1, RunningFits, TheSteps
  <1>3. /\ c \in CallType /\ c.timer = call.timer /\ c.retrans = call.retrans
        /\ c.retaddr = call.retaddr /\ c.waiting = call.waiting /\ c.awaitingCmd = call.awaitingCmd
    BY <1>2 DEF CallType
  <1>4. t \in Timers /\ t.kind = "pause" /\ t.id = FreshId /\ t.gen \in Nat
    BY <1>1, <1>2, TimersAreTyped, KindsAreThese DEF Timer
  <1>5. [id |-> t.id, kind |-> t.kind] \in HeldTimers
    BY <1>4, KindsAreThese DEF HeldTimers, Timers
  <1>6. \/ Continues(c) /\ UNCHANGED <<running, armed>>
        \/ Continues(d) /\ armed' = armed \cup {t} /\ running' = FALSE
    BY DEF RunRestored
  <1> HIDE DEF t
  <1>7. /\ d \in CallType /\ d.retrans = call.retrans /\ Returning(d) /\ ~d.waiting /\ ~d.awaitingCmd
        /\ d.timer = [id |-> t.id, kind |-> t.kind] /\ d.gen = t.gen
    BY <1>2, <1>3, <1>4, <1>5 DEF CallType, Returning
  <1> HIDE DEF c, d
  <1>8. CASE Continues(c) /\ UNCHANGED <<running, armed>>
    BY <1>1, <1>3, <1>8, StepsOnFits
  <1>9. CASE Continues(d) /\ armed' = armed \cup {t} /\ running' = FALSE
    BY <1>1, <1>4, <1>7, <1>9, ArmingFits
  <1> QED BY <1>6, <1>8, <1>9

LEMMA RunSendFits == ASSUME Types, HeldInv, RunSend PROVE HeldInv'
  <1> DEFINE c(at) == [Sent(call) EXCEPT !.index = at, !.restored = Restores(call.index)]
             r == Timer("retrans", call.gen + 1)
             handle == [id |-> r.id, step |-> call.index, attempt |-> 1]
             d(at) == [c(at) EXCEPT !.gen = r.gen, !.retrans = handle]
             e(at) == [c(at) EXCEPT !.retrans = None]
  <1>1. running /\ Quiet /\ Spare # {} /\ call.index < End /\ UNCHANGED running
    BY DEF RunSend, At
  <1>2. /\ call \in CallType /\ Returning(call) /\ ~call.waiting /\ ~call.awaitingCmd
        /\ call.timer = None /\ call.gen \in Nat /\ call.index \in DOMAIN Steps
    BY <1>1, RunningFits
  <1>3. Onward \subseteq 1..End /\ Here.txn \in Nat /\ Restores(call.index) \in BOOLEAN
    BY <1>1, <1>2, OnwardLands, StepFields DEF Here
  <1>4. PICK at \in 1..End :
           \/ Continues(d(at)) /\ armed' = Disarmed(call.retrans) \cup {r}
           \/ Continues(e(at))
    BY <1>3 DEF RunSend
  <1>5. r \in Timers /\ r.kind = "retrans" /\ r.gen \in Nat /\ r.id # 0 /\ r.id \in TimerIds
    <2>1. r \in Timers /\ r.kind = "retrans" /\ r.gen \in Nat
      BY <1>1, <1>2, TimersAreTyped, KindsAreThese
    <2> QED BY <2>1, BoundsAssumption DEF Timers
  <1> HIDE DEF r
  <1>6. handle \in HeldRetrans
    BY <1>2, <1>5, BoundsAssumption DEF HeldRetrans
  <1>7. handle.id = r.id
    OBVIOUS
  <1> HIDE DEF handle
  <1>8. Sent(call) \in CallType /\ Sent(call).waiting = call.waiting /\ Sent(call).timer = call.timer
        /\ Sent(call).awaitingCmd = call.awaitingCmd /\ Sent(call).retaddr = call.retaddr
    <2>1. PICK b : b = (IF Here.acks THEN call.branched ELSE call.branched \cup ({Here.txn} \ {0}))
      OBVIOUS
    <2>2. PICK a : a = (IF Here.acks THEN call.acked \cup {Here.txn} ELSE call.acked)
      OBVIOUS
    <2>3. a \in SUBSET Nat /\ b \in SUBSET Nat
      BY <1>2, <1>3, <2>1, <2>2 DEF CallType
    <2>4. Sent(call) = [call EXCEPT !.branched = b, !.acked = a]
      BY <1>2, <2>1, <2>2 DEF Sent, CallType
    <2> QED BY <1>2, <2>3, <2>4 DEF CallType
  <1>9. /\ d(at) \in CallType /\ d(at).timer = None /\ d(at).retrans = handle
        /\ ~d(at).waiting /\ ~d(at).awaitingCmd /\ Returning(d(at))
    BY <1>2, <1>3, <1>5, <1>6, <1>8 DEF CallType, Returning
  <1>10. /\ e(at) \in CallType /\ e(at).timer = None /\ e(at).retrans = None
         /\ ~e(at).waiting /\ ~e(at).awaitingCmd /\ Returning(e(at))
    <2>1. /\ e(at).timer = None /\ e(at).retrans = None
          /\ ~e(at).waiting /\ ~e(at).awaitingCmd /\ Returning(e(at))
      BY <1>2, <1>8 DEF CallType, Returning
    <2>2. c(at) \in CallType
      BY <1>2, <1>3, <1>8 DEF CallType
    <2> HIDE DEF c
    <2>3. e(at) \in CallType
      BY <2>2, NoneIsHeld DEF CallType
    <2> QED BY <2>1, <2>3
  <1> HIDE DEF c, d, e
  <1>11. running' = TRUE
    BY <1>1 DEF Types
  <1>12. CASE Continues(d(at)) /\ armed' = Disarmed(call.retrans) \cup {r}
    <2>1. Fitting(d(at), TRUE)
      BY <1>9 DEF Fitting, Returning
    <2>2. Held(d(at), Pending')
      BY <1>5, <1>7, <1>9, <1>12 DEF Held, WaitPends, RetransPends, Pending
    <2> QED BY <1>11, <1>12, <2>1, <2>2, ContinuesFits
  <1>13. CASE Continues(e(at))
    <2>1. Fitting(e(at), TRUE)
      BY <1>10 DEF Fitting, Returning
    <2>2. Held(e(at), Pending')
      BY <1>10 DEF Held, WaitPends, RetransPends
    <2> QED BY <1>11, <1>13, <2>1, <2>2, ContinuesFits
  <1> QED BY <1>4, <1>12, <1>13

LEMMA AdvanceFits == ASSUME Types, HeldInv, Advance PROVE HeldInv'
  <1>1. CASE RunEnd \/ RunFailing \/ RunSendFails
    BY <1>1, EndsFits DEF RunEnd, RunFailing, RunSendFails
  <1> QED BY <1>1, RunSkippedFits, RunOnFits, RunRecvFits, RunRecvCmdFits, RunPauseFits,
             RunTimewaitFits, RunRestoredFits, RunSendFits DEF Advance

-----------------------------------------------------------------------------
(* The handlers.                                                           *)

\* The channel's first event is no fire of a retransmission, or no fire of the
\* entry's wait.
TakesNoRetrans == events' # events => ~(Head(events) \in Timers /\ Head(events).kind = "retrans")
TakesNoWait(c) ==
    events' # events => ~(/\ Head(events) \in Timers /\ Head(events).kind # "retrans"
                          /\ Head(events).gen = c.gen)

LEMMA BaseFits ==
    ASSUME Types, HeldInv, ~running, NEW c, Base(c)
    PROVE  /\ Fitting(c, FALSE) /\ Held(c, Pending) /\ c \in CallType /\ Returning(c) /\ c # NoCall
           /\ c.timer # None => c.timer.kind # "retrans"
           /\ c.gen \in Nat
  <1>1. running = FALSE
    BY DEF Types
  <1>2. ASSUME Live PROVE Fitting(c, FALSE) /\ Held(c, Pending)
    BY <1>1, <1>2 DEF HeldInv, Base
  <1>3. ASSUME ~Live PROVE Fitting(c, FALSE) /\ Held(c, Pending)
    BY <1>3, NewCallFits DEF Base
  <1>4. Fitting(c, FALSE) /\ Held(c, Pending)
    BY <1>2, <1>3
  <1> QED BY <1>4, CallFields, HandlesAreTimers DEF Fitting, Returning

\* The entry is left waiting as it was.
LEMMA StaysFit ==
    ASSUME Types, HeldInv, ~running, NEW c, Base(c), NEW d \in CallType, Continues(d),
           d.timer = c.timer, d.gen = c.gen, d.retrans = c.retrans, d.deadline = c.deadline,
           d.waiting = c.waiting, d.awaitingCmd = c.awaitingCmd, d.index = c.index,
           d.retaddr = c.retaddr, UNCHANGED <<armed, running>>, Consumes,
           TakesNoRetrans \/ c.retrans = None, TakesNoWait(c) \/ c.timer = None
    PROVE  HeldInv'
  <1>1. Fitting(c, FALSE) /\ WaitPends(c, Pending) /\ RetransPends(c, Pending)
        /\ (c.timer # None => c.timer.kind # "retrans") /\ running' = FALSE
    BY BaseFits DEF Held, Types
  <1>2. Fitting(d, FALSE)
    BY <1>1 DEF Fitting, Returning
  <1>3. RetransPends(d, Pending')
    <2>1. CASE c.retrans = None
      BY <2>1 DEF RetransPends
    <2>2. CASE TakesNoRetrans
      BY <1>1, <2>2, RetransSurvives DEF TakesNoRetrans, Disarmed
    <2> QED BY <2>1, <2>2
  <1>4. WaitPends(d, Pending')
    BY <1>1, WaitSurvives DEF TakesNoWait
  <1> QED BY <1>1, <1>2, <1>3, <1>4, ContinuesFits DEF Held

\* A handler lets the call run.
LEMMA RunsOnFits ==
    ASSUME Types, HeldInv, ~running, NEW c, Base(c), NEW d \in CallType, Continues(d),
           d.timer = None, ~d.waiting, ~d.awaitingCmd, Returning(d), Consumes,
           \/ d.retrans = None
           \/ d.retrans = c.retrans /\ Disarmed(c.timer) \subseteq armed' /\ TakesNoRetrans,
           running' = TRUE
    PROVE  HeldInv'
  <1>1. Fitting(d, TRUE)
    BY DEF Fitting, Returning
  <1>2. Fitting(c, FALSE) /\ RetransPends(c, Pending)
    BY BaseFits DEF Held
  <1>3. RetransPends(d, Pending')
    <2>1. CASE d.retrans = None
      BY <2>1 DEF RetransPends
    <2>2. CASE d.retrans = c.retrans /\ Disarmed(c.timer) \subseteq armed' /\ TakesNoRetrans
      BY <1>2, <2>2, RetransSurvives DEF TakesNoRetrans
    <2> QED BY <2>1, <2>2
  <1> QED BY <1>1, <1>3, ContinuesFits DEF Held, WaitPends

\* Nothing becomes of an event that is no fire of the call's timers.
LEMMA IgnoredFits ==
    ASSUME Types, HeldInv, ~running, Ignored, Consumes,
           Live => /\ TakesNoRetrans \/ call.retrans = None
                   /\ TakesNoWait(call) \/ call.timer = None
    PROVE  HeldInv'
  <1>1. CASE ~Live
    BY <1>1 DEF HeldInv, Live, Ignored
  <1>2. CASE Live
    <2>1. Base(call) /\ Continues(call) /\ UNCHANGED <<armed, running>>
      BY <1>2 DEF Base, Continues, Ignored
    <2>2. call \in CallType
      BY <2>1, BaseFits
    <2> QED BY <1>2, <2>1, <2>2, StaysFit
  <1> QED BY <1>1, <1>2

LEMMA PacketTakesNoTimer ==
    ASSUME events' # events => Head(events).type # "timer"
    PROVE  TakesNoRetrans /\ \A c : TakesNoWait(c)
  BY DEF TakesNoRetrans, TakesNoWait, Timers

-----------------------------------------------------------------------------
(* on_packet.                                                              *)

\* What a match makes of the entry: nothing is pending for it.
LEMMA MatchedFits ==
    ASSUME NEW c \in CallType, Returning(c), NEW si \in DOMAIN Steps, NEW m \in Peer
    PROVE  LET d == Matched(c, si, m)
           IN  /\ d \in CallType /\ d.timer = None /\ d.retrans = None /\ Returning(d)
               /\ ~d.waiting /\ ~d.awaitingCmd /\ d.gen \in Nat
  <1> DEFINE d == Matched(c, si, m)
  <1>1. si + 1 \in 1..End /\ c.gen + 1 \in Nat /\ m.num \in Nat
    BY TheSteps, CallFields, PeerAssumption DEF Message
  <1>2. PICK n : n = (IF m.request /\ m.name = "INVITE" THEN m.num ELSE c.inviteNum)
    OBVIOUS
  <1>3. PICK f : f = (IF Steps[si].txn # 0 THEN c.finals \cup {m} ELSE c.finals)
    OBVIOUS
  <1>r. PICK r : r = StillRestored(c, si)
    OBVIOUS
  <1>4. n \in Nat \cup {NoGuard} /\ f \in SUBSET Peer /\ r \in BOOLEAN
    BY <1>1, <1>2, <1>3, <1>r, CallFields DEF CallType, StillRestored
  <1>5. d = [c EXCEPT !.retrans = None, !.timer = None, !.gen = @ + 1,
                      !.waiting = FALSE, !.awaitingCmd = FALSE, !.index = si + 1,
                      !.lastKey = m, !.restored = r, !.inviteNum = n, !.finals = f]
    BY <1>2, <1>3, <1>r DEF Matched, CallType
  <1> HIDE DEF d
  <1>6. d \in CallType /\ d.timer = None /\ d.retrans = None /\ d.retaddr = c.retaddr
        /\ ~d.waiting /\ ~d.awaitingCmd /\ d.gen \in Nat
    <2> DEFINE e == [c EXCEPT !.retrans = None, !.timer = None, !.gen = @ + 1,
                              !.waiting = FALSE, !.awaitingCmd = FALSE, !.index = si + 1]
    <2>1. /\ e \in CallType /\ e.timer = None /\ e.retrans = None /\ e.retaddr = c.retaddr
          /\ ~e.waiting /\ ~e.awaitingCmd /\ e.gen \in Nat
      BY <1>1, NoneIsHeld DEF CallType
    <2>2. d = [e EXCEPT !.lastKey = m, !.restored = r, !.inviteNum = n, !.finals = f]
      BY <1>5 DEF CallType
    <2> HIDE DEF e
    <2> QED BY <1>4, <2>1, <2>2 DEF CallType
  <1> QED BY <1>6 DEF Returning, d

\* Where an optional receive may leave the wait.
LEMMA WaitsAre ==
    ASSUME NEW c \in CallType, Returning(c), c.waiting \/ c.index = 1, NEW si \in DOMAIN Steps,
           NEW wait \in Waits(si, c)
    PROVE  /\ wait.index \in 1..End /\ wait.waiting \in BOOLEAN /\ wait.awaitingCmd \in BOOLEAN
           /\ wait.waiting \/ wait.awaitingCmd \/ wait.index = 1
  <1>1. CASE wait = [index |-> c.index, waiting |-> c.waiting, awaitingCmd |-> c.awaitingCmd]
    BY <1>1, CallFields
  <1>2. ASSUME NEW target \in Targets(si, c.retaddr), wait = Moved(WaitAfterJump(target))
        PROVE  /\ wait.index \in 1..End /\ wait.waiting \in BOOLEAN /\ wait.awaitingCmd \in BOOLEAN
               /\ wait.waiting \/ wait.awaitingCmd
    <2>1. WaitAfterJump(target) \in DOMAIN Steps
      BY TheSteps, TargetsLand, WaitAfterJumpLands DEF Returning
    <2>2. WaitAfterJump(target) \in 1..End
      BY <2>1, TheSteps
    <2>3. PICK at \in DOMAIN Steps : at = WaitAfterJump(target) /\ at \in 1..End
      BY <2>1, <2>2
    <2>4. PICK w : w = (Steps[at].kind # "recvCmd" \/ Steps[at].optional)
      OBVIOUS
    <2>5. PICK a : a = (Steps[at].kind = "recvCmd")
      OBVIOUS
    <2>6. w \in BOOLEAN /\ a \in BOOLEAN /\ (w \/ a)
      BY <2>4, <2>5
    <2>7. wait.index = at /\ wait.waiting = w /\ wait.awaitingCmd = a
      BY <1>2, <2>3, <2>4, <2>5 DEF Moved
    <2> QED BY <2>3, <2>6, <2>7
  <1>3. \/ wait = [index |-> c.index, waiting |-> c.waiting, awaitingCmd |-> c.awaitingCmd]
        \/ \E target \in Targets(si, c.retaddr) : wait = Moved(WaitAfterJump(target))
    BY DEF Waits
  <1> QED BY <1>1, <1>2, <1>3

\* The wait goes on there, its timeout armed again if one was running.
LEMMA ResumedFits ==
    ASSUME Types, HeldInv, ~running, Spare # {}, NEW done \in CallType, done.timer = None,
           done.retrans = None, Returning(done), NEW wait,
           wait.index \in 1..End /\ wait.waiting \in BOOLEAN /\ wait.awaitingCmd \in BOOLEAN,
           wait.waiting \/ wait.awaitingCmd \/ wait.index = 1,
           Resumed(done, wait), running' = FALSE
    PROVE  HeldInv'
  <1> DEFINE w == [done EXCEPT !.index = wait.index, !.waiting = wait.waiting,
                               !.awaitingCmd = wait.awaitingCmd]
             t == Timer("recvTimeout", w.gen + 1)
             d == [w EXCEPT !.gen = t.gen, !.timer = [id |-> t.id, kind |-> t.kind]]
  <1>1. /\ w \in CallType /\ w.timer = None /\ w.retrans = None /\ Returning(w)
        /\ w.index = wait.index /\ w.waiting = wait.waiting /\ w.awaitingCmd = wait.awaitingCmd
        /\ w.deadline = done.deadline /\ w.gen + 1 \in Nat
    <2>1. PICK at \in 1..End, v \in BOOLEAN, a \in BOOLEAN :
             at = wait.index /\ v = wait.waiting /\ a = wait.awaitingCmd
      OBVIOUS
    <2>2. w = [done EXCEPT !.index = at, !.waiting = v, !.awaitingCmd = a]
      BY <2>1
    <2>3. /\ w \in CallType /\ w.timer = None /\ w.retrans = None /\ w.retaddr = done.retaddr
          /\ w.index = at /\ w.waiting = v /\ w.awaitingCmd = a
          /\ w.deadline = done.deadline /\ w.gen \in Nat
      BY <2>2 DEF CallType
    <2> HIDE DEF w
    <2> QED BY <2>1, <2>3 DEF Returning
  <1>2. \/ done.deadline /\ Continues(d) /\ armed' = Cancelled \cup {t}
        \/ ~done.deadline /\ Continues(w)
    BY DEF Resumed
  <1> HIDE DEF w
  <1>3. t \in Timers /\ t.kind = "recvTimeout" /\ t.id # 0 /\ t.gen \in Nat
    <2>1. t \in Timers /\ t.kind = "recvTimeout" /\ t.gen \in Nat
      BY <1>1, TimersAreTyped, KindsAreThese
    <2> QED BY <2>1, BoundsAssumption DEF Timers
  <1>4. [id |-> t.id, kind |-> t.kind] \in HeldTimers
    BY <1>3, KindsAreThese DEF HeldTimers, Timers
  <1> HIDE DEF t
  <1>5. /\ d \in CallType /\ d.timer = [id |-> t.id, kind |-> t.kind] /\ d.gen = t.gen
        /\ d.retrans = None /\ Returning(d) /\ d.deadline = done.deadline
    BY <1>1, <1>3, <1>4 DEF CallType, Returning
  <1> HIDE DEF d
  <1>6. CASE done.deadline /\ Continues(d) /\ armed' = Cancelled \cup {t}
    <2>1. d.timer.id = t.id /\ d.timer.kind = t.kind /\ d.timer # None /\ d.timer.id # d.retrans.id
      <3>1. d.timer.id = t.id /\ d.timer.kind = t.kind
        BY <1>5
      <3> QED BY <1>3, <1>5, <3>1, NoneIsHeld
    <2>2. Fitting(d, FALSE)
      BY <1>3, <1>5, <1>6, <2>1 DEF Fitting, Returning
    <2>3. Held(d, Pending')
      BY <1>5, <1>6, <2>1 DEF Held, WaitPends, RetransPends, Pending
    <2> QED BY <1>6, <2>2, <2>3, ContinuesFits
  <1>7. CASE ~done.deadline /\ Continues(w)
    <2>1. Fitting(w, FALSE)
      BY <1>1, <1>7 DEF Fitting, Returning
    <2>2. Held(w, Pending')
      BY <1>1 DEF Held, WaitPends, RetransPends
    <2> QED BY <1>7, <2>1, <2>2, ContinuesFits
  <1> QED BY <1>2, <1>6, <1>7

LEMMA OnMatchedFits ==
    ASSUME Types, HeldInv, ~running, Spare # {}, NEW c, Base(c), NEW m \in Peer,
           NEW si \in DOMAIN Steps, c.waiting \/ c.index = 1, OnMatched(c, si, m), Consumes
    PROVE  HeldInv'
  <1> DEFINE done == Matched(c, si, m)
             on(at) == [done EXCEPT !.index = at]
  <1>1. c \in CallType /\ Returning(c)
    BY BaseFits
  <1>2. /\ done \in CallType /\ done.timer = None /\ done.retrans = None /\ Returning(done)
        /\ ~done.waiting /\ ~done.awaitingCmd
    BY <1>1, MatchedFits
  <1>3. MovesOn(si) \subseteq 1..End
    BY TheSteps, MovesOnLands
  <1>4. \/ (\E at \in 1..End : Continues(on(at))) /\ running' = TRUE
        \/ (\E wait \in Waits(si, c) : Resumed(done, wait)) /\ running' = FALSE
        \/ Ends("failed")
    BY <1>3 DEF OnMatched
  <1> HIDE DEF done
  <1>5. ASSUME NEW at \in 1..End
        PROVE  /\ on(at) \in CallType /\ on(at).timer = None /\ on(at).retrans = None
               /\ Returning(on(at)) /\ ~on(at).waiting /\ ~on(at).awaitingCmd
    BY <1>2, Relocated DEF Returning
  <1> HIDE DEF on
  <1>6. ASSUME NEW at \in 1..End, Continues(on(at)), running' = TRUE PROVE HeldInv'
    BY <1>5, <1>6, RunsOnFits
  <1>7. ASSUME NEW wait \in Waits(si, c), Resumed(done, wait), running' = FALSE PROVE HeldInv'
    BY <1>1, <1>2, <1>7, WaitsAre, ResumedFits
  <1> QED BY <1>4, <1>6, <1>7, EndsFits

LEMMA OnInterruptedFits ==
    ASSUME Types, HeldInv, ~running, NEW c, Base(c), Handler # 0, OnInterrupted(c)
    PROVE  HeldInv'
  <1> DEFINE at == IF c.pause # 0 THEN c.pause ELSE c.index
             d == Interrupted(c)
  <1>1. c \in CallType /\ Returning(c)
    BY BaseFits
  <1>2. at \in 1..End /\ MessageIndex(at) \in Nat
    BY <1>1, CallFields, TheSteps, MessagesBeforeLand
  <1>3. PICK r : r = (IF Retaddr THEN MessageIndex(at) ELSE c.retaddr)
    OBVIOUS
  <1>4. r \in Nat /\ IsNoted(r)
    BY <1>1, <1>2, <1>3 DEF CallType, Returning, IsNoted
  <1>5. PICK p : p = (Pausedaddr /\ c.pause # 0)
    OBVIOUS
  <1>6. p \in BOOLEAN
    BY <1>5
  <1>7. d = [c EXCEPT !.retaddr = r, !.pausedaddr = p,
                      !.timer = None, !.gen = @ + 1, !.pause = 0,
                      !.waiting = FALSE, !.awaitingCmd = FALSE, !.index = Handler]
    BY <1>3, <1>5 DEF Interrupted, CallType
  <1>8. Handler \in 1..End /\ 0 \in 0..Len(Steps) /\ c.gen + 1 \in Nat
    BY <1>1, TheSteps, CallFields DEF Resolved
  <1> HIDE DEF at
  <1>9. /\ d \in CallType /\ d.timer = None /\ d.retrans = c.retrans /\ d.retaddr = r
        /\ ~d.waiting /\ ~d.awaitingCmd
    <2> DEFINE e == [c EXCEPT !.retaddr = r, !.pausedaddr = p, !.timer = None, !.gen = @ + 1]
    <2>1. e \in CallType /\ e.timer = None /\ e.retrans = c.retrans /\ e.retaddr = r
      BY <1>1, <1>4, <1>6, <1>8, NoneIsHeld DEF CallType
    <2>2. d = [e EXCEPT !.pause = 0, !.waiting = FALSE, !.awaitingCmd = FALSE, !.index = Handler]
      BY <1>1, <1>7 DEF CallType
    <2> HIDE DEF d, e
    <2> QED BY <1>8, <2>1, <2>2 DEF CallType
  <1>10. Continues(d) /\ armed' = Disarmed(c.timer) /\ running' = TRUE /\ UNCHANGED events
    BY DEF OnInterrupted
  <1> HIDE DEF d
  <1>11. TakesNoRetrans /\ Consumes /\ Returning(d)
    BY <1>4, <1>9, <1>10 DEF TakesNoRetrans, Consumes, Returning
  <1> QED BY <1>9, <1>10, <1>11, RunsOnFits

LEMMA DeliverFits ==
    ASSUME Types, HeldInv, ~running, Spare # {}, NEW c, Base(c), NEW m \in Peer,
           events # <<>>, Head(events).type = "packet", Deliver(c, m)
    PROVE  HeldInv'
  <1> DEFINE scan == ScanCall(c, m)
             d == [c EXCEPT !.lastKey = m]
  <1>1. /\ c \in CallType /\ Returning(c) /\ c.index \in 1..End /\ c.waiting \in BOOLEAN
    BY BaseFits, CallFields
  <1>2. TakesNoRetrans /\ TakesNoWait(c)
    BY PacketTakesNoTimer
  <1>3. Consume => Consumes
    BY DEF Consume, Consumes
  <1>4. \/ /\ Consume /\ scan.found = "forward" /\ OnMatched(c, scan.at, m)
        \/ /\ Consume /\ Continues(c) /\ UNCHANGED <<armed, running>>
        \/ /\ Consume /\ Continues(d) /\ UNCHANGED <<armed, running>>
        \/ /\ Handler # 0 /\ OnInterrupted(c)
        \/ \E o : Ends(o)
    BY DEF Deliver, OnUnexpected
  <1>5. scan.found = "forward" => scan.at \in DOMAIN Steps /\ (c.waiting \/ c.index = 1)
    <2>1. PICK waiting : waiting = (c.waiting \/ c.index = 1)
      OBVIOUS
    <2>2. waiting \in BOOLEAN
      BY <2>1
    <2>3. scan = Scan(Steps, c.branched, c.index, waiting, m, c.inviteNum)
      BY <2>1 DEF ScanCall
    <2>4. scan.found = "forward" => scan.at \in DOMAIN Steps /\ waiting
      BY <1>1, <2>2, <2>3, TheSteps, ForwardScans
    <2> QED BY <2>1, <2>4
  <1>6. /\ d \in CallType /\ d.timer = c.timer /\ d.gen = c.gen /\ d.retrans = c.retrans
        /\ d.deadline = c.deadline /\ d.waiting = c.waiting /\ d.awaitingCmd = c.awaitingCmd
        /\ d.index = c.index /\ d.retaddr = c.retaddr
    BY <1>1 DEF CallType
  <1> HIDE DEF scan, d
  <1>7. CASE Consume /\ scan.found = "forward" /\ OnMatched(c, scan.at, m)
    BY <1>3, <1>5, <1>7, OnMatchedFits
  <1>8. CASE Consume /\ Continues(c) /\ UNCHANGED <<armed, running>>
    BY <1>1, <1>2, <1>3, <1>8, StaysFit
  <1>9. CASE Consume /\ Continues(d) /\ UNCHANGED <<armed, running>>
    BY <1>2, <1>3, <1>6, <1>9, StaysFit
  <1>10. CASE Handler # 0 /\ OnInterrupted(c)
    BY <1>10, OnInterruptedFits
  <1> QED BY <1>4, <1>7, <1>8, <1>9, <1>10, EndsFits

LEMMA PacketFits ==
    ASSUME Types, HeldInv, OnPacketNoCall \/ OnPacket
    PROVE  HeldInv'
  <1>1. /\ ~running /\ events # <<>> /\ Spare # {} /\ Head(events).type = "packet"
        /\ Head(events).msg \in Peer
    BY EventsAreTyped DEF OnPacketNoCall, OnPacket, Receives
  <1>2. CASE Ignore
    <2>1. Ignored /\ Consumes
      BY <1>2 DEF Ignore, Ignored, Consume, Consumes
    <2> QED BY <1>1, <2>1, PacketTakesNoTimer, IgnoredFits
  <1>3. CASE OnPacketNoCall /\ ~Ignore
    <2>1. Base(NewCall) /\ Deliver(NewCall, Head(events).msg)
      BY <1>3 DEF OnPacketNoCall, Base
    <2> QED BY <1>1, <2>1, DeliverFits
  <1>4. CASE OnPacket /\ ~Ignore
    <2>1. Base(call) /\ Deliver(call, Head(events).msg)
      BY <1>4 DEF OnPacket, Base
    <2> QED BY <1>1, <2>1, DeliverFits
  <1> QED BY <1>2, <1>3, <1>4

-----------------------------------------------------------------------------
(* on_call_timer.                                                          *)

\* A fire of the call's generation is of the timer it holds: so it is of the
\* kind of what the call is doing.
LEMMA FireIsHeld ==
    ASSUME IInv, HeldInv, Live, ~running, events # <<>>, Head(events) \in Timers,
           Head(events).kind # "retrans", Head(events).gen = call.gen
    PROVE  call.timer # None /\ call.timer.kind = Head(events).kind
  <1>1. Types /\ FiresAreOld
    BY DEF IInv, CountInv, WaitsInv
  <1>2. call \in CallType /\ WaitPends(call, Pending)
    BY DEF HeldInv, Fitting, Held
  <1>3. 1 \in WaitFires /\ events[1] = Head(events) /\ events[1].gen = call.gen
    BY <1>1, EventsAreTyped DEF WaitFires, Types
  <1>4. /\ events[1].id = call.timer.id /\ Waiting(armed) = {}
        /\ \A j \in WaitFires : events[j].gen = call.gen => j = 1
    BY <1>1, <1>3 DEF FiresAreOld
  <1>5. call.timer # None
    BY <1>3, <1>4, FiresAreTyped, NoneIsHeld
  <1>6. PICK t \in Pending : t.id = call.timer.id /\ t.kind = call.timer.kind /\ t.gen = call.gen
    BY <1>2, <1>5 DEF WaitPends
  <1>7. t \in Timers /\ t.kind # "retrans"
    BY <1>1, <1>2, <1>5, <1>6, PendingAreTimers, HandlesAreTimers
  <1>8. t \notin armed
    BY <1>4, <1>7 DEF Waiting
  <1>9. PICK i \in Fires : t = events[i]
    BY <1>6, <1>8 DEF Pending
  <1>10. i \in WaitFires /\ events[i].gen = call.gen
    BY <1>6, <1>7, <1>9 DEF WaitFires, Fires
  <1>11. i = 1
    BY <1>4, <1>10
  <1> QED BY <1>3, <1>5, <1>6, <1>9, <1>11

\* The jump to an ontimeout label.
LEMMA TimesOutFits ==
    ASSUME Types, HeldInv, ~running, Live, UNCHANGED inst, NEW c \in CallType, c.timer = None,
           Returning(c), c.retrans = None \/ (c.retrans = call.retrans /\ TakesNoRetrans),
           NEW label \in 0..End, TimesOut(c, label), Consumes
    PROVE  HeldInv'
  <1> DEFINE d == [c EXCEPT !.waiting = FALSE, !.awaitingCmd = FALSE, !.index = label]
  <1>1. Base(call)
    BY DEF Base
  <1>2. \/ Ends("failed")
        \/ label # 0 /\ Continues(d) /\ armed' = Disarmed(call.timer) /\ running' = TRUE
    BY DEF TimesOut
  <1>3. ASSUME label # 0
        PROVE  /\ d \in CallType /\ d.timer = None /\ d.retrans = c.retrans /\ Returning(d)
               /\ ~d.waiting /\ ~d.awaitingCmd
    <2>1. label \in 1..End
      BY <1>3, TheSteps
    <2> QED BY <2>1 DEF CallType, Returning
  <1> HIDE DEF d
  <1>4. CASE label # 0 /\ Continues(d) /\ armed' = Disarmed(call.timer) /\ running' = TRUE
    BY <1>1, <1>3, <1>4, RunsOnFits
  <1> QED BY <1>2, <1>4, EndsFits

LEMMA OnWaitTimerFits == ASSUME IInv, HeldInv, OnWaitTimer PROVE HeldInv'
  <1> DEFINE e == Head(events)
             c == [call EXCEPT !.timer = None]
             p == [c EXCEPT !.pause = 0]
             w == [c EXCEPT !.waiting = FALSE, !.awaitingCmd = FALSE]
  <1>1. Types
    BY DEF IInv, CountInv
  <1>2. ~running /\ events # << >> /\ e \in Timers /\ e.kind # "retrans"
    BY <1>1, EventsAreTyped DEF OnWaitTimer, Receives
  <1>3. TakesNoRetrans
    BY <1>2 DEF TakesNoRetrans
  <1>4. CASE Ignore /\ Stale(e)
    <2>1. Ignored /\ Consumes
      BY <1>4 DEF Ignore, Ignored, Consume, Consumes
    <2>2. Live => TakesNoWait(call)
      BY <1>4 DEF Stale, TakesNoWait
    <2> QED BY <1>1, <1>2, <1>3, <2>1, <2>2, IgnoredFits
  <1>5. CASE ~Stale(e) /\ UNCHANGED inst /\ Consume
    <2>2. Live /\ Base(call) /\ e.gen = call.gen /\ Consumes
      BY <1>2, <1>5 DEF Stale, Base, Consume, Consumes
    <2>3. call \in CallType /\ Returning(call) /\ Fitting(call, FALSE)
      BY <1>1, <1>2, <2>2, BaseFits
    <2>4. call.timer # None /\ call.timer.kind = e.kind
      BY <1>2, <2>2, FireIsHeld
    <2>5. /\ c \in CallType /\ c.timer = None /\ c.retrans = call.retrans /\ Returning(c)
          /\ c.waiting = call.waiting /\ c.awaitingCmd = call.awaitingCmd
      BY <2>3, NoneIsHeld DEF CallType, Returning
    <2>6. \/ e.kind = "recvTimeout" /\ OnRecvTimeout(c)
          \/ /\ e.kind = "pause" /\ Continues(p) /\ running' = TRUE /\ UNCHANGED armed
          \/ Ends("successful")
      BY <1>5, <2>2 DEF OnWaitTimer, Ignore
    <2> HIDE DEF c, e
    <2>7. /\ p \in CallType /\ p.timer = None /\ p.retrans = call.retrans /\ Returning(p)
          /\ p.waiting = call.waiting /\ p.awaitingCmd = call.awaitingCmd
      <3>1. 0 \in 0..Len(Steps)
        BY TheSteps
      <3> QED BY <2>5, <3>1 DEF CallType, Returning
    <2>8. /\ w \in CallType /\ w.timer = None /\ w.retrans = call.retrans /\ Returning(w)
          /\ ~w.waiting /\ ~w.awaitingCmd
      BY <2>5 DEF CallType, Returning
    <2> HIDE DEF p, w
    <2>9. CASE e.kind = "pause" /\ Continues(p) /\ running' = TRUE /\ UNCHANGED armed
      <3>1. ~p.waiting /\ ~p.awaitingCmd
        BY <2>3, <2>4, <2>7, <2>9 DEF Fitting
      <3>2. Disarmed(call.timer) \subseteq armed'
        BY <2>9 DEF Disarmed
      <3> QED BY <1>1, <1>2, <1>3, <2>2, <2>7, <2>9, <3>1, <3>2, RunsOnFits
    <2>10. CASE OnRecvTimeout(c)
      <3>1. \/ c.index < End /\ TimesOut(c, Steps[c.index].ontimeout)
            \/ Continues(w) /\ UNCHANGED armed /\ running' = TRUE
        BY <2>10 DEF OnRecvTimeout, w
      <3>2. CASE c.index < End /\ TimesOut(c, Steps[c.index].ontimeout)
        <4>1. c.index \in DOMAIN Steps
          BY <2>5, <3>2, CallFields, TheSteps
        <4>2. Steps[c.index].ontimeout \in 0..End
          BY <4>1, TheSteps
        <4> QED BY <1>1, <1>2, <1>3, <1>5, <2>2, <2>5, <3>2, <4>2, TimesOutFits
      <3>3. CASE Continues(w) /\ UNCHANGED armed /\ running' = TRUE
        <4>1. Disarmed(call.timer) \subseteq armed'
          BY <3>3 DEF Disarmed
        <4> QED BY <1>1, <1>2, <1>3, <2>2, <2>8, <3>3, <4>1, RunsOnFits
      <3> QED BY <3>1, <3>2, <3>3
    <2> QED BY <2>6, <2>9, <2>10, EndsFits
  <1> QED BY <1>4, <1>5 DEF OnWaitTimer

\* The next retransmission, or its end, leaves the wait's timer as it was, or
\* clears it.
LEMMA OnRetransTimerFits == ASSUME Types, HeldInv, OnRetransTimer PROVE HeldInv'
  <1> DEFINE e == Head(events)
             t == Timer("retrans", e.gen)
             c == [call EXCEPT !.retrans = None, !.timer = None, !.gen = @ + 1,
                               !.deadline = FALSE, !.pause = 0]
             r == [call EXCEPT !.retrans.attempt = @ + 1, !.retrans.id = t.id]
  <1>1. ~running /\ events # << >> /\ e \in Timers /\ Spare # {} /\ e.kind = "retrans"
    BY EventsAreTyped DEF OnRetransTimer, Receives
  <1>2. \A d : TakesNoWait(d)
    BY <1>1 DEF TakesNoWait
  <1>3. CASE Ignore /\ (~Live \/ call.retrans = None)
    <2>1. Ignored /\ Consumes
      BY <1>3 DEF Ignore, Ignored, Consume, Consumes
    <2> QED BY <1>1, <1>2, <1>3, <2>1, IgnoredFits
  <1>4. CASE Live /\ call.retrans # None /\ UNCHANGED inst /\ Consume
    <2>1. Base(call) /\ Consumes
      BY <1>1, <1>4 DEF Base, Consume, Consumes
    <2>2. /\ call \in CallType /\ Returning(call) /\ Fitting(call, FALSE) /\ call.gen + 1 \in Nat
          /\ WaitPends(call, Pending) /\ (call.timer # None => call.timer.kind # "retrans")
      BY <1>1, <2>1, BaseFits, CallFields DEF Held
    <2>3. call.retrans.step \in DOMAIN Steps /\ call.retrans.attempt \in 1..MaxRetrans + 1
      BY <1>4, <2>2, HandlesAreTimers
    <2>4. \/ Exhausted /\ TimesOut(c, Steps[call.retrans.step].ontimeout)
          \/ /\ ~Exhausted /\ Continues(r) /\ armed' = armed \cup {t} /\ UNCHANGED running
          \/ Ends("failed")
      BY <1>4 DEF OnRetransTimer, OnRetransExhausted
    <2>5. CASE TimesOut(c, Steps[call.retrans.step].ontimeout)
      <3>1. 0 \in 0..Len(Steps) /\ FALSE \in BOOLEAN
        BY TheSteps
      <3>2. c \in CallType /\ c.timer = None /\ c.retrans = None /\ Returning(c)
        BY <2>2, <3>1, NoneIsHeld DEF CallType, Returning
      <3>3. Steps[call.retrans.step].ontimeout \in 0..End
        BY <2>3, TheSteps
      <3> HIDE DEF c
      <3> QED BY <1>1, <1>4, <2>1, <2>5, <3>2, <3>3, TimesOutFits
    <2>6. CASE ~Exhausted /\ Continues(r) /\ armed' = armed \cup {t} /\ UNCHANGED running
      <3>1. t \in Timers /\ t.kind = "retrans" /\ t.id = FreshId /\ t.id \in TimerIds /\ e.gen \in Nat
        <4>1. e.gen \in Nat
          BY <1>1 DEF Timers
        <4>2. t \in Timers /\ t.kind = "retrans"
          BY <1>1, <4>1, TimersAreTyped, KindsAreThese
        <4> QED BY <4>1, <4>2 DEF Timer, Timers
      <3>2. t.id # 0 /\ t.id # call.timer.id
        BY <1>1, <2>1, <3>1, FreshIsFree
      <3> HIDE DEF t
      <3>3. PICK a : a = call.retrans.attempt + 1 /\ a \in 1..MaxRetrans + 1
        <4>1. ~(call.retrans.attempt > MaxRetrans) /\ MaxRetrans \in Nat
          BY <2>6, BoundsAssumption DEF Exhausted
        <4> QED BY <2>3, <4>1
      <3>4. call.retrans \in [id : TimerIds, step : DOMAIN Steps, attempt : 1..MaxRetrans + 1]
        BY <1>4, <2>2, CallFields DEF HeldRetrans
      <3> DEFINE h == [call.retrans EXCEPT !.attempt = call.retrans.attempt + 1, !.id = t.id]
      <3>5. h \in HeldRetrans /\ h.id = t.id
        BY <3>1, <3>3, <3>4 DEF HeldRetrans
      <3>6. r = [call EXCEPT !.retrans = h]
        BY <2>2 DEF CallType
      <3> HIDE DEF h, r
      <3>7. /\ r \in CallType /\ r.timer = call.timer /\ r.gen = call.gen /\ r.retrans = h
            /\ r.deadline = call.deadline /\ r.waiting = call.waiting
            /\ r.awaitingCmd = call.awaitingCmd /\ r.index = call.index /\ r.retaddr = call.retaddr
        BY <2>2, <3>5, <3>6 DEF CallType
      <3>8. Fitting(r, FALSE)
        BY <2>2, <3>2, <3>5, <3>7 DEF Fitting, Returning
      <3>9. WaitPends(r, Pending')
        BY <1>1, <2>1, <2>2, <2>6, <3>7, WaitSurvives
      <3>10. RetransPends(r, Pending')
        BY <2>6, <3>1, <3>5, <3>7 DEF RetransPends, Pending
      <3>11. running' = FALSE
        BY <1>1, <2>6 DEF Types
      <3> QED BY <2>6, <3>8, <3>9, <3>10, <3>11, ContinuesFits DEF Held
    <2> QED BY <2>4, <2>5, <2>6, EndsFits
  <1> QED BY <1>3, <1>4 DEF OnRetransTimer

LEMMA OnTwinCmdFits == ASSUME Types, HeldInv, OnTwinCmd PROVE HeldInv'
  <1> DEFINE d(at, r) == [call EXCEPT !.awaitingCmd = FALSE, !.waiting = FALSE, !.timer = None,
                                      !.gen = @ + 1, !.restored = r, !.index = at]
  <1>1. ~running /\ events # << >> /\ Spare # {} /\ Head(events).type = "cmd"
    BY DEF OnTwinCmd, Receives
  <1>2. TakesNoRetrans /\ \A c : TakesNoWait(c)
    BY <1>1, PacketTakesNoTimer
  <1>3. CASE Ignore /\ ~Live
    <2>1. Ignored /\ Consumes
      BY <1>3 DEF Ignore, Ignored, Consume, Consumes
    <2> QED BY <1>1, <1>3, <2>1, IgnoredFits
  <1>4. CASE Live /\ UNCHANGED inst /\ Consume
    <2>1. Base(call) /\ Consumes
      BY <1>1, <1>4 DEF Base, Consume, Consumes
    <2>2. call \in CallType /\ Returning(call) /\ call.gen + 1 \in Nat /\ call.index \in 1..End
      BY <1>1, <2>1, BaseFits, CallFields
    <2>3. \A i \in TakesCmd(call.index) :
              NextSteps(i) \subseteq 1..End /\ StillRestored(call, i) \in BOOLEAN
      <3>1. \A i \in TakesCmd(call.index) : i \in DOMAIN Steps
        BY <2>2, TheSteps DEF TakesCmd
      <3>2. \A i \in TakesCmd(call.index) : StillRestored(call, i) \in BOOLEAN
        BY <2>2, CallFields DEF StillRestored
      <3> QED BY <3>1, <3>2, TheSteps, NextStepsLand
    <2>4. \/ Ends("failed")
          \/ \E at \in 1..End, r \in BOOLEAN :
                Continues(d(at, r)) /\ armed' = Disarmed(call.timer) /\ running' = TRUE
      BY <1>4, <2>3 DEF OnTwinCmd
    <2>5. ASSUME NEW at \in 1..End, NEW r \in BOOLEAN
          PROVE  /\ d(at, r) \in CallType /\ d(at, r).timer = None /\ d(at, r).retrans = call.retrans
                 /\ Returning(d(at, r)) /\ ~d(at, r).waiting /\ ~d(at, r).awaitingCmd
      <3> DEFINE e == [call EXCEPT !.timer = None, !.gen = @ + 1]
      <3>0. e \in CallType /\ d(at, r) = [e EXCEPT !.awaitingCmd = FALSE, !.waiting = FALSE,
                                                  !.restored = r, !.index = at]
        BY <2>2, NoneIsHeld DEF CallType
      <3>1. d(at, r) \in CallType
        <4> HIDE DEF d, e
        <4> QED BY <2>5, <3>0 DEF CallType
      <3>2. /\ d(at, r).timer = None /\ d(at, r).retrans = call.retrans /\ d(at, r).retaddr = call.retaddr
            /\ ~d(at, r).waiting /\ ~d(at, r).awaitingCmd
        BY <2>2 DEF CallType
      <3> QED BY <2>2, <3>1, <3>2 DEF Returning
    <2> HIDE DEF d
    <2>6. ASSUME NEW at \in 1..End, NEW r \in BOOLEAN, Continues(d(at, r)),
                 armed' = Disarmed(call.timer), running' = TRUE
          PROVE  HeldInv'
      BY <1>1, <1>2, <2>1, <2>5, <2>6, RunsOnFits
    <2> QED BY <2>4, <2>6, EndsFits
  <1> QED BY <1>3, <1>4 DEF OnTwinCmd

LEMMA OnClosedFits == ASSUME Types, HeldInv, OnClosed PROVE HeldInv'
  <1>1. ~running /\ events # << >> /\ Head(events).type = "closed"
    BY DEF OnClosed, Receives
  <1>2. CASE Ignore
    <2>1. Ignored /\ Consumes
      BY <1>2 DEF Ignore, Ignored, Consume, Consumes
    <2> QED BY <1>1, <2>1, PacketTakesNoTimer, IgnoredFits
  <1> QED BY <1>2, EndsFits DEF OnClosed

LEMMA HandleFits == ASSUME IInv, HeldInv, Handle PROVE HeldInv'
  <1>1. Types
    BY DEF IInv, CountInv
  <1> QED BY <1>1, PacketFits, OnWaitTimerFits, OnRetransTimerFits, OnTwinCmdFits, OnClosedFits DEF Handle

-----------------------------------------------------------------------------
(* What reaches the channel leaves the call's timers pending.              *)

LEMMA PendingAdded ==
    ASSUME Types, NEW e \in Event, Added(e), NEW t \in Pending,
           t \in armed => t \in armed' \/ t = e
    PROVE  t \in Pending'
  <1>1. events \in Seq(Event) /\ t \in Timers
    BY PendingAreTimers DEF Types
  <1>2. Len(events') = Len(events) + 1 /\ events'[Len(events) + 1] = e /\ Len(events) \in Nat
        /\ DOMAIN events' = 1..Len(events) + 1
        /\ \A i \in 1..Len(events) : events'[i] = events[i]
    BY <1>1 DEF Added
  <1>3. CASE t = e
    <2>1. Len(events) + 1 \in Fires'
      BY <1>1, <1>2, <1>3 DEF Fires, Timers
    <2> QED BY <1>2, <1>3, <2>1 DEF Pending
  <1>4. CASE t \in armed /\ t \in armed'
    BY <1>4 DEF Pending
  <1>5. CASE t \notin armed
    <2>1. PICK i \in Fires : t = events[i]
      BY <1>5 DEF Pending
    <2>2. i \in 1..Len(events) /\ events[i].type = "timer"
      BY <1>1, <2>1 DEF Fires
    <2>3. i \in Fires' /\ events'[i] = t
      BY <1>2, <2>1, <2>2 DEF Fires
    <2> QED BY <2>3 DEF Pending
  <1> QED BY <1>3, <1>4, <1>5

LEMMA AddedFits ==
    ASSUME Types, HeldInv, UNCHANGED <<call, running>>, NEW e \in Event, Added(e),
           \A t \in armed : t \in armed' \/ t = e
    PROVE  HeldInv'
  <1>1. \A t \in Pending : t \in Pending'
    BY PendingAdded
  <1> QED BY <1>1 DEF HeldInv, Live, Held, WaitPends, RetransPends

LEMMA StillFits ==
    ASSUME HeldInv, UNCHANGED <<call, running, armed, events>>
    PROVE  HeldInv'
  BY DEF HeldInv, Live, Held, WaitPends, RetransPends, Pending, Fires

LEMMA NextFits == ASSUME IInv, HeldInv, [Next]_vars PROVE HeldInv'
  <1>1. Types
    BY DEF IInv, CountInv
  <1>2. CASE PeerSends \/ TwinSends \/ ConnectionCloses
    BY <1>1, <1>2, EnvironmentSteps, AddedFits DEF Ignored
  <1>3. CASE Fire
    BY <1>1, <1>3, FireSteps, AddedFits
  <1>4. CASE DeadExpires \/ Rest \/ UNCHANGED vars
    BY <1>4, StillFits DEF DeadExpires, Rest, vars
  <1> QED BY <1>1, <1>2, <1>3, <1>4, AdvanceFits, HandleFits DEF Next

\* No more calls are opened than the Call-ID is used for.
BoundInv == dead \in BOOLEAN /\ inst <= MaxInst

TimersAreThere == IInv /\ HeldInv /\ BoundInv

-----------------------------------------------------------------------------
LEMMA InitFits == Init => TimersAreThere
  <1> SUFFICES ASSUME Init PROVE TimersAreThere
    OBVIOUS
  <1>1. IInv
    BY InitWaits
  <1>2. Uas \in BOOLEAN /\ MaxInst \in Nat /\ MaxInst # 0
    BY BoundsAssumption
  <1>3. BoundInv
    <2>1. dead \in BOOLEAN
      BY DEF Init
    <2>2. inst = 0 \/ inst = 1
      BY DEF Init
    <2>3. inst <= MaxInst
      BY <1>2, <2>2
    <2> QED BY <2>1, <2>3 DEF BoundInv
  <1>4. HeldInv
    <2>1. CASE Uas
      BY <2>1 DEF Init, HeldInv, Live
    <2>2. CASE ~Uas
      <3>1. call = NewCall /\ running = TRUE
        BY <1>2, <2>2 DEF Init
      <3> QED BY <3>1, NewCallFits DEF HeldInv
    <2> QED BY <2>1, <2>2
  <1> QED BY <1>1, <1>3, <1>4 DEF TimersAreThere

LEMMA MovesKeepBound ==
    ASSUME Types, BoundInv, NEW c, Base(c), Moves(c)
    PROVE  BoundInv'
  <1>1. inst' <= MaxInst
    BY BoundsAssumption DEF Base, BoundInv, Types
  <1>2. dead' \in BOOLEAN
    <2>1. CASE UNCHANGED dead
      BY <2>1 DEF BoundInv
    <2>2. CASE Over(c)
      <3>1. PICK o : dead' = (DeadcallWait /\ o # "pinged")
        BY <2>2 DEF Over
      <3> QED BY <3>1, Zenon
    <2> QED BY <2>1, <2>2 DEF Moves, Lasts, Clears, Arms
  <1> QED BY <1>1, <1>2 DEF BoundInv

LEMMA NextBound == ASSUME Types, BoundInv, [Next]_vars PROVE BoundInv'
  <1>1. CASE Handled
    <2>1. CASE Ignored \/ Expires
      BY <2>1 DEF Ignored, Expires, BoundInv
    <2> QED BY <1>1, <2>1, MovesKeepBound DEF Handled
  <1>2. CASE Ignored \/ Fire \/ DeadExpires
    BY <1>2 DEF Ignored, Fire, DeadExpires, BoundInv
  <1> QED BY <1>1, <1>2, StepIs

LEMMA NextTimers == Distinct /\ TimersAreThere /\ [Next]_vars => TimersAreThere'
  <1> SUFFICES ASSUME Distinct, TimersAreThere, [Next]_vars PROVE TimersAreThere'
    OBVIOUS
  <1>1. IInv /\ HeldInv /\ BoundInv /\ Types
    BY DEF TimersAreThere, IInv, CountInv
  <1> QED BY <1>1, NextWaits, NextFits, NextBound DEF TimersAreThere

LEMMA CountsAreBounded ==
    ASSUME CountInv, BoundInv
    PROVE  inst \in 0..MaxInst /\ stats \in [Outcomes -> 0..MaxInst]
  <1>1. /\ inst \in Nat /\ MaxInst \in Nat /\ inst <= MaxInst /\ stats \in [Outcomes -> Nat]
        /\ inst = (IF Live THEN 1 ELSE 0) + stats["successful"] + stats["failed"] + stats["pinged"]
    BY BoundsAssumption DEF CountInv, Types, BoundInv, Counted
  <1>2. \A o \in Outcomes : stats[o] \in Nat /\ stats[o] <= inst
    <2>1. stats["successful"] \in Nat /\ stats["failed"] \in Nat /\ stats["pinged"] \in Nat
      BY <1>1 DEF Outcomes
    <2> QED BY <1>1, <2>1 DEF Outcomes
  <1>3. \A o \in Outcomes : stats[o] \in 0..MaxInst
    BY <1>1, <1>2
  <1> QED BY <1>1, <1>3

\* The invariant implies what the property says.
LEMMA TimersThereAreTheWaits == TimersAreThere => TimersFollowWaits
  <1> SUFFICES ASSUME TimersAreThere PROVE TimersFollowWaits
    OBVIOUS
  <1>1. CountInv /\ Types /\ HeldInv /\ BoundInv
    BY DEF TimersAreThere, IInv, CountInv
  <1>2. Live => Fitting(call, running) /\ Held(call, Pending) /\ call \in CallType
    BY <1>1 DEF HeldInv, Fitting
  <1>3. TypeOK
    <2>1. call \in {NoCall} \cup CallType
      BY <1>2 DEF Live
    <2>2. \A i \in Fires : events[i] \in Timers
      BY <1>1 DEF Types, Fires, Event, Timers
    <2> QED BY <1>1, <2>1, <2>2, CountsAreBounded DEF TypeOK, Types, BoundInv, Outcomes
  <1>4. HeldTimersEnd
    BY <1>2 DEF HeldTimersEnd, Held, WaitPends, RetransPends, Fitting
  <1>5. WaitsAreTimed /\ NoCallIsForgotten
    BY <1>2 DEF WaitsAreTimed, NoCallIsForgotten, Fitting
  <1> QED BY <1>3, <1>4, <1>5 DEF TimersFollowWaits

(* The timers of a call are those of what it is doing, in every wait, pause *)
(* and timewait of every scenario: a handle the call holds stands for a     *)
(* timer that is still to fire or to be handled, under the generation       *)
(* on_call_timer asks for, and a call that expects nothing has one.         *)
THEOREM TimersAlwaysFollowWaits == ASSUME Distinct PROVE Spec => []TimersFollowWaits
  <1>1. Init => TimersAreThere
    BY InitFits
  <1>2. TimersAreThere /\ [Next]_vars => TimersAreThere'
    BY NextTimers
  <1>3. TimersAreThere => TimersFollowWaits
    BY TimersThereAreTheWaits
  <1> QED BY <1>1, <1>2, <1>3, PTL DEF Spec

-----------------------------------------------------------------------------
(* The timewait.                                                           *)

\* Whatever waits for a timewait's timer is `completing`.
Lingering(c) == c.timer # None /\ c.timer.kind = "timewait" => c.completing

LingerInv == Live => Lingering(call)

LEMMA EndsLingers == ASSUME NEW o, Ends(o) PROVE LingerInv'
  BY DEF Ends, LingerInv, Live

\* The entry holds no timer, one of another kind, or the one it held.
LEMMA ContinuesLingers ==
    ASSUME NEW c, Continues(c),
           \/ c.timer = None
           \/ c.timer.kind # "timewait"
           \/ LingerInv /\ Live /\ c.timer = call.timer /\ c.completing = call.completing
    PROVE  LingerInv'
  BY DEF Continues, LingerInv, Lingering

LEMMA AdvanceRuns == ASSUME Advance PROVE running
  BY DEF Advance, RunEnd, RunRestored, RunSkipped, RunFailing, RunSend, RunSendFails, RunRecv,
         RunRecvCmd, RunPause, RunTimewait, RunOn, At

LEMMA AdvanceLingers == ASSUME Types, HeldInv, Advance PROVE LingerInv'
  <1>1. running /\ Live
    BY AdvanceRuns DEF Types
  <1>2. call \in CallType /\ call.timer = None
    BY <1>1 DEF HeldInv, Fitting
  <1>3. CASE RunEnd \/ RunFailing \/ RunSendFails
    BY <1>3, EndsLingers DEF RunEnd, RunFailing, RunSendFails
  <1>4. CASE RunSkipped \/ RunOn
    <2>1. CASE RunSkipped
      BY <1>2, <2>1, ContinuesLingers DEF RunSkipped, CallType
    <2>2. CASE RunOn
      <3>1. \E at, r : Continues([call EXCEPT !.index = at, !.restored = r])
        BY <2>2 DEF RunOn
      <3> QED BY <1>2, <3>1, ContinuesLingers DEF CallType
    <2> QED BY <1>4, <2>1, <2>2
  <1>5. CASE RunRestored
    BY <1>2, <1>5, ContinuesLingers DEF RunRestored, Timer, CallType
  <1>6. CASE RunSend
    BY <1>2, <1>6, ContinuesLingers DEF RunSend, Sent, CallType
  <1>7. CASE RunRecv \/ RunRecvCmd
    BY <1>2, <1>7, ContinuesLingers DEF RunRecv, RunRecvCmd, ArmRecv, Timer, CallType
  <1>8. ASSUME NEW c, {"timer", "completing"} \subseteq DOMAIN c, NEW kind, Lingers(c, kind),
               kind # "timewait" \/ c.completing
        PROVE  LingerInv'
    BY <1>8 DEF Lingers, Timer, Continues, LingerInv, Lingering
  <1>9. CASE RunPause
    <2>1. \E at : Lingers([call EXCEPT !.index = at, !.pause = call.index], "pause")
      BY <1>9 DEF RunPause
    <2>2. ASSUME NEW at
          PROVE  {"timer", "completing"}
                     \subseteq DOMAIN [call EXCEPT !.index = at, !.pause = call.index]
      BY <1>2 DEF CallType
    <2> QED BY <1>8, <2>1, <2>2
  <1>10. CASE RunTimewait
    <2>1. \/ \E at : Lingers([call EXCEPT !.index = at], "pause")
          \/ Lingers([call EXCEPT !.completing = TRUE, !.index = @ + 1], "timewait")
      BY <1>10 DEF RunTimewait
    <2>2. ASSUME NEW at PROVE {"timer", "completing"} \subseteq DOMAIN [call EXCEPT !.index = at]
      BY <1>2 DEF CallType
    <2>3. LET c == [call EXCEPT !.completing = TRUE, !.index = @ + 1]
          IN  {"timer", "completing"} \subseteq DOMAIN c /\ c.completing = TRUE
      BY <1>2 DEF CallType
    <2> QED BY <1>8, <2>1, <2>2, <2>3
  <1> QED BY <1>3, <1>4, <1>5, <1>6, <1>7, <1>9, <1>10 DEF Advance

LEMMA DeliverLingers ==
    ASSUME NEW c \in CallType, LingerInv, c = NewCall \/ (Live /\ c = call),
           NEW m, Deliver(c, m)
    PROVE  LingerInv'
  <1> DEFINE done(si) == Matched(c, si, m)
             next(si, at) == [done(si) EXCEPT !.index = at]
             seen == [c EXCEPT !.lastKey = m]
  <1>1. ASSUME NEW si, NEW at PROVE done(si).timer = None /\ next(si, at).timer = None
    <2>1. "timer" \in DOMAIN done(si) /\ done(si).timer = None
      BY DEF Matched, CallType
    <2> HIDE DEF done
    <2> QED BY <2>1
  <1>2. /\ seen.timer = c.timer /\ seen.completing = c.completing
        /\ Interrupted(c).timer = None
    BY DEF Interrupted, CallType
  <1>3. \/ \E si, at : Continues(next(si, at))
        \/ \E si, wait : Resumed(done(si), wait)
        \/ Continues(c) \/ Continues(seen) \/ Continues(Interrupted(c))
        \/ \E o : Ends(o)
    BY DEF Deliver, OnMatched, OnUnexpected, OnInterrupted
  <1>4. ASSUME NEW si, NEW wait, Resumed(done(si), wait) PROVE LingerInv'
    <2>1. "timer" \in DOMAIN done(si) /\ done(si).timer = None
      BY DEF Matched, CallType
    <2> HIDE DEF done
    <2> QED BY <1>4, <2>1, ContinuesLingers DEF Resumed, Timer
  <1> HIDE DEF done, next, seen
  <1>5. c.timer = None \/ (Live /\ c.timer = call.timer /\ c.completing = call.completing)
    BY DEF NewCall
  <1> QED BY <1>1, <1>2, <1>3, <1>4, <1>5, ContinuesLingers, EndsLingers

LEMMA TimesOutLingers ==
    ASSUME NEW c \in CallType, c.timer = None, NEW label, TimesOut(c, label)
    PROVE  LingerInv'
  BY EndsLingers, ContinuesLingers DEF TimesOut, CallType

LEMMA HandleLingers == ASSUME Types, HeldInv, LingerInv, Handle PROVE LingerInv'
  <1>1. Live => call \in CallType
    BY DEF HeldInv, Fitting
  <1>2. CASE Ignore
    BY <1>2 DEF Ignore, LingerInv, Lingering, Live
  <1>3. CASE OnPacketNoCall
    <2>1. Ignore \/ \E m : Deliver(NewCall, m)
      BY <1>3 DEF OnPacketNoCall
    <2> QED BY <1>2, <2>1, NewCallFits, DeliverLingers DEF Fitting
  <1>4. CASE OnPacket
    <2>1. Ignore \/ \E m : Deliver(call, m)
      BY <1>4 DEF OnPacket
    <2>2. Live
      BY <1>4 DEF OnPacket
    <2> QED BY <1>1, <1>2, <2>1, <2>2, DeliverLingers
  <1>5. CASE OnWaitTimer
    <2> DEFINE c == [call EXCEPT !.timer = None]
    <2>1. \/ Ignore
          \/ /\ Live
             /\ \/ \E label : TimesOut(c, label)
                \/ Continues([c EXCEPT !.waiting = FALSE, !.awaitingCmd = FALSE])
                \/ Continues([c EXCEPT !.pause = 0])
                \/ Ends("successful")
      BY <1>5 DEF OnWaitTimer, OnRecvTimeout, Stale
    <2>2. Live => c \in CallType /\ c.timer = None
      BY <1>1, NoneIsHeld DEF CallType
    <2> HIDE DEF c
    <2>3. ASSUME Live, \/ Continues([c EXCEPT !.waiting = FALSE, !.awaitingCmd = FALSE])
                       \/ Continues([c EXCEPT !.pause = 0])
          PROVE  LingerInv'
      BY <2>2, <2>3, ContinuesLingers DEF CallType
    <2> QED BY <1>2, <2>1, <2>2, <2>3, TimesOutLingers, EndsLingers
  <1>6. CASE OnRetransTimer
    <2> DEFINE c == [call EXCEPT !.retrans = None, !.timer = None, !.gen = @ + 1,
                                 !.deadline = FALSE, !.pause = 0]
           next(id) == [call EXCEPT !.retrans.attempt = @ + 1, !.retrans.id = id]
    <2>1. CASE ~Live \/ call.retrans = None
      BY <1>2, <1>6, <2>1 DEF OnRetransTimer
    <2>2. CASE Live /\ call.retrans # None
      <3>1. \/ \E label : TimesOut(c, label)
            \/ \E id : Continues(next(id))
            \/ Ends("failed")
        BY <1>6, <2>2 DEF OnRetransTimer, OnRetransExhausted
      <3>2. c \in CallType /\ c.timer = None
        <4>1. call \in CallType /\ call.gen + 1 \in Nat /\ 0 \in 0..Len(Steps) /\ FALSE \in BOOLEAN
          BY <1>1, <2>2, CallFields, TheSteps
        <4> QED BY <4>1, NoneIsHeld DEF CallType
      <3>3. \A id : next(id).timer = call.timer /\ next(id).completing = call.completing
        BY <1>1, <2>2 DEF CallType
      <3> HIDE DEF c, next
      <3> QED BY <2>2, <3>1, <3>2, <3>3, TimesOutLingers, ContinuesLingers, EndsLingers
    <2> QED BY <2>1, <2>2
  <1>7. CASE OnTwinCmd
    <2> DEFINE next(at, r) == [call EXCEPT !.awaitingCmd = FALSE, !.waiting = FALSE,
                                  !.timer = None, !.gen = @ + 1, !.restored = r, !.index = at]
    <2>1. CASE ~Live
      BY <1>2, <1>7, <2>1 DEF OnTwinCmd
    <2>2. CASE Live
      <3>1. Ends("failed") \/ \E at, r : Continues(next(at, r))
        BY <1>7, <2>2 DEF OnTwinCmd
      <3>2. \A at, r : next(at, r).timer = None
        BY <1>1, <2>2 DEF CallType
      <3> HIDE DEF next
      <3> QED BY <3>1, <3>2, ContinuesLingers, EndsLingers
    <2> QED BY <2>1, <2>2
  <1>8. CASE OnClosed
    BY <1>2, <1>8, EndsLingers DEF OnClosed
  <1> QED BY <1>3, <1>4, <1>5, <1>6, <1>7, <1>8 DEF Handle

LEMMA NextLingers == ASSUME Types, HeldInv, LingerInv, [Next]_vars PROVE LingerInv'
  <1>1. CASE ~Advance /\ ~Handle
    <2>1. call' = call
      BY <1>1 DEF Next, PeerSends, TwinSends, ConnectionCloses, Arrives, Fire, DeadExpires, Rest, vars
    <2> QED BY <2>1 DEF LingerInv, Lingering, Live
  <1> QED BY <1>1, AdvanceLingers, HandleLingers

\* What ends a timewait, or moves the call in it.
LEMMA TimewaitSteps ==
    ASSUME TimersAreThere, LingerInv, [Next]_vars, InTimewait, call' # call
    PROVE  Completes \/ HandlesElse
  <1>1. IInv /\ HeldInv /\ Types
    BY DEF TimersAreThere, IInv, CountInv
  <1>2. Live /\ ~running /\ call.completing /\ call.timer.kind = "timewait"
    BY <1>1 DEF InTimewait, LingerInv, Lingering, HeldInv, Fitting
  <1>3. ~Ignore
    BY DEF Ignore
  <1>4. ASSUME Ends("successful") PROVE Completes
    BY <1>4 DEF Ends, Completes, Live
  <1>5. Handle
    <2>1. ~Advance
      BY <1>2, AdvanceRuns
    <2> QED BY <2>1 DEF Next, PeerSends, TwinSends, ConnectionCloses, Arrives, Fire, DeadExpires,
                        Rest, vars
  <1>6. ~OnPacketNoCall /\ ~OnPacket
    BY <1>2, <1>3 DEF OnPacketNoCall, OnPacket, Absorbs
  <1>7. CASE OnWaitTimer
    <2>1. events # <<>> /\ Head(events).type = "timer" /\ Head(events).kind # "retrans"
      BY <1>7 DEF OnWaitTimer, Receives
    <2>2. Head(events) \in Timers
      BY <1>1, <2>1, EventsAreTyped DEF Types
    <2>3. ~Stale(Head(events))
      BY <1>3, <1>7 DEF OnWaitTimer
    <2>4. Head(events).kind = "timewait"
      BY <1>1, <1>2, <2>1, <2>2, <2>3, FireIsHeld DEF Stale
    <2>5. Ends("successful")
      BY <1>3, <1>7, <2>4 DEF OnWaitTimer
    <2> QED BY <1>4, <2>5
  <1>8. CASE OnRetransTimer
    BY <1>2, <1>3, <1>8 DEF OnRetransTimer, Receives, Consume, HandlesElse, HandlesFire
  <1>9. CASE OnTwinCmd
    <2>1. Receives("cmd") /\ Consume
      BY <1>2, <1>9 DEF OnTwinCmd
    <2> QED BY <2>1 DEF Receives, Consume, HandlesElse
  <1>10. CASE OnClosed
    BY <1>2, <1>4, <1>10 DEF OnClosed
  <1> QED BY <1>5, <1>6, <1>7, <1>8, <1>9, <1>10 DEF Handle

(* However a call came to its timewait, in any scenario and whatever else   *)
(* is under way - messages, old fires, the closing of its connection - it   *)
(* stays as it is until it completes, unless a retransmission is still      *)
(* pending or its twin sends a command.                                     *)
THEOREM TimewaitsAreAlwaysQuiet == ASSUME Distinct PROVE Spec => TimewaitIsQuiet
  <1> DEFINE I == TimersAreThere /\ LingerInv
  <1>1. Init => I
    <2>1. Init => LingerInv
      BY DEF Init, LingerInv, Lingering, Live, NewCall
    <2> QED BY <2>1, InitFits
  <1>2. I /\ [Next]_vars => I'
    <2>1. TimersAreThere => Types /\ HeldInv
      BY DEF TimersAreThere, IInv, CountInv
    <2> QED BY <2>1, NextTimers, NextLingers
  <1>3. I /\ [Next]_vars => [InTimewait /\ call' # call => Completes \/ HandlesElse]_vars
    BY TimewaitSteps
  <1> QED BY <1>1, <1>2, <1>3, PTL DEF Spec, TimewaitIsQuiet

-----------------------------------------------------------------------------
(* A call stays where the scenario leads: what it holds to go on from later, *)
(* the step it waits at, its retransmission's, its pause's, the message the *)
(* handler of unexpected ones returns to, is of steps that are reached.    *)

Fields == {"index", "waiting", "awaitingCmd", "completing", "gen", "timer", "retrans", "deadline",
           "pause", "retaddr", "pausedaddr", "restored", "lastKey", "inviteNum", "branched",
           "acked", "finals"}

\* A retransmission is of a send that is reached.
Resends(retrans) ==
    retrans # None => /\ "step" \in DOMAIN retrans /\ retrans.step \in Reached \cap DOMAIN Steps
                      /\ Steps[retrans.step].kind = "send"

\* Where a call that waits is.
Resting(c) ==
    /\ MayRest(c.index)
    /\ c.restored => AllReached
    /\ c.pause = 0 => MessageIndex(c.index) \in Noticed

OnPath(c, run) ==
    ~c.completing =>
        /\ c.index \in Reached /\ c.retaddr \in Noticed
        /\ Resends(c.retrans)
        /\ c.pause # 0 => MessageIndex(c.pause) \in Noticed
        /\ run => (c.restored => MayPass(c.index))
        /\ ~run => Resting(c)

Walks(c, run) == DOMAIN c = Fields /\ OnPath(c, run)

PathInv == Live => Walks(call, running)

LEMMA ReachedSteps ==
    /\ Resolved /\ Reached \subseteq 1..End /\ 1 \in Reached /\ 0 \in Noticed
    /\ \A i \in Reached : i < End => i \in Reached \cap DOMAIN Steps
  <1>1. Resolved /\ Reached \subseteq 1..End /\ 1 \in Reached /\ 0 \in Noticed
    BY TheSteps, ReachedIsClosed
  <1>2. \A i \in 1..End : i < End => i \in DOMAIN Steps
    BY TheSteps
  <1> QED BY <1>1, <1>2

LEMMA NewCallRuns == Walks(NewCall, TRUE)
  <1>1. /\ DOMAIN NewCall = Fields /\ NewCall.index = 1 /\ NewCall.retaddr = 0
        /\ NewCall.retrans = None /\ NewCall.pause = 0 /\ ~NewCall.restored
    BY DEF NewCall, Fields
  <1> QED BY <1>1, ReachedSteps DEF Walks, OnPath, Resends

LEMMA EndsPath == ASSUME NEW o, Ends(o) PROVE PathInv'
  BY DEF Ends, PathInv, Live

LEMMA ContinuesPath == ASSUME NEW c, Continues(c), Walks(c, running') PROVE PathInv'
  BY DEF Continues, PathInv

\* The step a running call is at.
LEMMA RunningPath ==
    ASSUME Types, PathInv, running
    PROVE  /\ DOMAIN call = Fields /\ OnPath(call, TRUE)
           /\ ~call.completing /\ call.index < End => call.index \in Reached \cap DOMAIN Steps
  BY ReachedSteps DEF Types, PathInv, Walks, OnPath

LEMMA RunSkippedPath == ASSUME Types, PathInv, RunSkipped PROVE PathInv'
  <1> DEFINE d == [call EXCEPT !.index = @ + 1]
             i == call.index
  <1>1. running /\ ~call.restored /\ i < End /\ Steps[i].cond /\ Continues(d) /\ running'
    BY DEF RunSkipped, Here
  <1>2. /\ DOMAIN call = Fields /\ OnPath(call, TRUE)
        /\ ~call.completing => i \in Reached \cap DOMAIN Steps
    BY <1>1, RunningPath
  <1>3. /\ DOMAIN d = Fields /\ d.index = i + 1 /\ d.completing = call.completing
        /\ d.retaddr = call.retaddr /\ d.retrans = call.retrans /\ d.pause = call.pause
        /\ d.restored = call.restored
    BY <1>2 DEF Fields
  <1>4. ~call.completing => i + 1 \in Reached
    BY <1>1, <1>2, ReachedSteps, ReachedLeads
  <1> HIDE DEF d, i
  <1>5. OnPath(d, running')
    BY <1>1, <1>2, <1>3, <1>4 DEF OnPath
  <1> QED BY <1>1, <1>3, <1>5, ContinuesPath DEF Walks

LEMMA RunRestoredPath == ASSUME Types, PathInv, RunRestored PROVE PathInv'
  <1> DEFINE i == call.index
             c == [call EXCEPT !.restored = FALSE, !.index = @ + 1]
             d(g, t) == [c EXCEPT !.gen = g, !.pause = call.index, !.timer = t]
  <1>1. running /\ call.restored /\ i < End
    BY DEF RunRestored
  <1>2. \/ Continues(c) /\ running' = running
        \/ \E g, t : Continues(d(g, t)) /\ running' = FALSE
    BY DEF RunRestored
  <1>3. /\ DOMAIN call = Fields /\ OnPath(call, TRUE)
        /\ ~call.completing => i \in Reached \cap DOMAIN Steps
    BY <1>1, RunningPath
  <1>4. /\ DOMAIN c = Fields /\ c.index = i + 1 /\ c.completing = call.completing
        /\ c.retaddr = call.retaddr /\ c.retrans = call.retrans /\ c.pause = call.pause
        /\ ~c.restored
    BY <1>3 DEF Fields
  <1>5. ASSUME NEW g, NEW t
        PROVE  /\ DOMAIN d(g, t) = Fields /\ d(g, t).index = i + 1 /\ d(g, t).completing = call.completing
               /\ d(g, t).retaddr = call.retaddr /\ d(g, t).retrans = call.retrans
               /\ d(g, t).pause = i /\ ~d(g, t).restored
    <2> HIDE DEF c
    <2> QED BY <1>4 DEF Fields
  <1>6. ~call.completing => MayRest(i + 1) /\ MessageIndex(i) \in Noticed
    BY <1>1, <1>3 DEF OnPath, MayPass
  <1> HIDE DEF c, d, i
  <1>7. OnPath(c, TRUE)
    BY <1>3, <1>4, <1>6 DEF OnPath, MayRest
  <1>8. ASSUME NEW g, NEW t PROVE OnPath(d(g, t), FALSE)
    <2>1. ~call.completing => i # 0
      BY <1>3, TheSteps
    <2> QED BY <1>3, <1>5, <1>6, <2>1 DEF OnPath, MayRest, Resting
  <1>9. CASE Continues(c) /\ running' = running
    BY <1>1, <1>4, <1>7, <1>9, ContinuesPath DEF Walks, Types
  <1>10. ASSUME NEW g, NEW t, Continues(d(g, t)), running' = FALSE PROVE PathInv'
    BY <1>5, <1>8, <1>10, ContinuesPath DEF Walks
  <1> QED BY <1>2, <1>9, <1>10

\* Where a step's actions leave a running call.
LEMMA OnwardPath ==
    ASSUME Types, PathInv, running, call.index < End, ~call.completing,
           Here.kind \notin {"label", "recv", "recvCmd"}, Here.kind = "timewait" => Jumps(call.index)
    PROVE  Onward \subseteq Onto(call.index, Noticed)
  <1>1. call.index \in Reached \cap DOMAIN Steps /\ call.retaddr \in Noticed
    BY RunningPath DEF OnPath
  <1> QED BY <1>1, DestinationsAreOnto DEF Onward, Here

\* The call goes on at once, a restored pause first.
LEMMA GoesOnPath ==
    ASSUME Types, PathInv, running, call.index < End, NEW d, DOMAIN d = Fields, running',
           Continues(d), d.completing = call.completing, d.retaddr = call.retaddr,
           d.pause = call.pause, d.restored = Restores(call.index),
           ~call.completing => /\ d.index \in Onto(call.index, Noticed)
                               /\ Here.kind \notin {"pause", "timewait"}
                               /\ Resends(d.retrans)
    PROVE  PathInv'
  <1>1. /\ OnPath(call, TRUE)
        /\ ~call.completing => call.index \in Reached \cap DOMAIN Steps
    BY RunningPath
  <1>2. ~call.completing => d.index \in Reached /\ (Steps[call.index].restores => MayPass(d.index))
    BY <1>1, ReachedSteps, OntoGoes DEF Here
  <1>3. d.restored => Steps[call.index].restores
    BY DEF Restores
  <1>4. OnPath(d, TRUE)
    BY <1>1, <1>2, <1>3 DEF OnPath
  <1> QED BY <1>4, ContinuesPath DEF Walks, OnPath

LEMMA RunOnPath == ASSUME Types, PathInv, RunOn PROVE PathInv'
  <1> DEFINE d(at) == [call EXCEPT !.index = at, !.restored = Restores(call.index)]
  <1>1. running /\ call.index < End /\ Here.kind \in {"nop", "sendCmd", "label"} /\ running'
    BY DEF RunOn, At, Here
  <1>2. DOMAIN call = Fields /\ OnPath(call, TRUE)
    BY <1>1, RunningPath
  <1>3. PICK at \in IF At("label") THEN {call.index + 1} ELSE Onward : Continues(d(at))
    BY DEF RunOn
  <1>4. ~call.completing => at \in Onto(call.index, Noticed)
    <2>1. CASE Here.kind = "label"
      BY <1>1, <1>3, <2>1 DEF At, Here, Onto, RunOn
    <2>2. CASE Here.kind # "label"
      <3>1. at \in Onward
        BY <1>3, <2>2 DEF At, Here
      <3> QED BY <1>1, <2>2, <3>1, OnwardPath
    <2> QED BY <2>1, <2>2
  <1>5. /\ DOMAIN d(at) = Fields /\ d(at).index = at /\ d(at).completing = call.completing
        /\ d(at).retaddr = call.retaddr /\ d(at).retrans = call.retrans /\ d(at).pause = call.pause
        /\ d(at).restored = Restores(call.index)
    BY <1>2 DEF Fields
  <1> HIDE DEF d
  <1>6. ~call.completing => Resends(d(at).retrans)
    BY <1>2, <1>5 DEF OnPath
  <1>7. Here.kind \notin {"pause", "timewait"}
    BY <1>1
  <1> QED BY <1>1, <1>3, <1>4, <1>5, <1>6, <1>7, GoesOnPath

LEMMA RunSendPath == ASSUME Types, PathInv, RunSend PROVE PathInv'
  <1> DEFINE s(at) == [Sent(call) EXCEPT !.index = at, !.restored = Restores(call.index)]
             q(g, id) == [id |-> id, step |-> call.index, attempt |-> 1]
             d(at, g, r) == [s(at) EXCEPT !.gen = g, !.retrans = r]
             n(at) == [s(at) EXCEPT !.retrans = None]
  <1>1. running /\ call.index < End /\ Here.kind = "send" /\ running'
    BY DEF RunSend, At, Here
  <1>2. /\ DOMAIN call = Fields /\ OnPath(call, TRUE)
        /\ ~call.completing => call.index \in Reached \cap DOMAIN Steps
    BY <1>1, RunningPath
  <1>3. PICK at \in Onward : (\E g, id : Continues(d(at, g, q(g, id)))) \/ Continues(n(at))
    BY DEF RunSend
  <1>4. ~call.completing => at \in Onto(call.index, Noticed)
    BY <1>1, OnwardPath
  <1>5. /\ DOMAIN s(at) = Fields /\ s(at).index = at /\ s(at).completing = call.completing
        /\ s(at).retaddr = call.retaddr /\ s(at).pause = call.pause
        /\ s(at).restored = Restores(call.index)
    <2>1. /\ DOMAIN Sent(call) = Fields /\ Sent(call).completing = call.completing
          /\ Sent(call).retaddr = call.retaddr /\ Sent(call).pause = call.pause
      BY <1>2 DEF Sent, Fields
    <2> QED BY <2>1 DEF Fields
  <1> HIDE DEF s
  <1>6. ASSUME NEW g, NEW r
        PROVE  /\ DOMAIN d(at, g, r) = Fields /\ d(at, g, r).index = at
               /\ d(at, g, r).completing = call.completing /\ d(at, g, r).retaddr = call.retaddr
               /\ d(at, g, r).pause = call.pause /\ d(at, g, r).restored = Restores(call.index)
               /\ d(at, g, r).retrans = r
    BY <1>5 DEF Fields
  <1>7. /\ DOMAIN n(at) = Fields /\ n(at).index = at
        /\ n(at).completing = call.completing /\ n(at).retaddr = call.retaddr
        /\ n(at).pause = call.pause /\ n(at).restored = Restores(call.index)
        /\ n(at).retrans = None
    BY <1>5 DEF Fields
  <1>8. ~call.completing => Resends(None) /\ \A g, id : Resends(q(g, id))
    BY <1>1, <1>2 DEF Resends, Here
  <1>9. Here.kind \notin {"pause", "timewait"}
    BY <1>1
  <1> HIDE DEF d, n, q
  <1>10. ASSUME NEW g, NEW id, Continues(d(at, g, q(g, id))) PROVE PathInv'
    BY <1>1, <1>4, <1>6, <1>8, <1>9, <1>10, GoesOnPath
  <1>11. CASE Continues(n(at))
    BY <1>1, <1>4, <1>7, <1>8, <1>9, <1>11, GoesOnPath
  <1> QED BY <1>3, <1>10, <1>11

\* The call rests where it came to.
LEMMA RestsPath ==
    ASSUME Types, PathInv, running, call.index < End, NEW d, DOMAIN d = Fields, ~running',
           Continues(d), d.retaddr = call.retaddr, d.retrans = call.retrans, ~d.restored,
           ~d.completing => /\ ~call.completing /\ MayRest(d.index)
                            /\ d.pause # 0 => MessageIndex(d.pause) \in Noticed
                            /\ d.pause = 0 => MessageIndex(d.index) \in Noticed
    PROVE  PathInv'
  <1>1. OnPath(call, TRUE)
    BY RunningPath
  <1>2. OnPath(d, FALSE)
    BY <1>1 DEF OnPath, Resting, MayRest
  <1> QED BY <1>2, ContinuesPath DEF Walks, OnPath

LEMMA ArmRecvPath ==
    ASSUME Types, PathInv, running, ~call.restored, call.index < End, Here.kind \in {"recv", "recvCmd"},
           NEW c, DOMAIN c = Fields, c.index = call.index, c.completing = call.completing,
           c.retaddr = call.retaddr, c.retrans = call.retrans, c.pause = call.pause,
           c.restored = call.restored, NEW timed, ArmRecv(c, timed), running' = FALSE
    PROVE  PathInv'
  <1> DEFINE d(g, t) == [c EXCEPT !.deadline = TRUE, !.gen = g, !.timer = t]
             n == [c EXCEPT !.deadline = FALSE]
  <1>1. (\E g, t : Continues(d(g, t))) \/ Continues(n)
    BY DEF ArmRecv
  <1>2. /\ OnPath(call, TRUE)
        /\ ~call.completing => call.index \in Reached \cap DOMAIN Steps
    BY RunningPath
  <1>3. ~call.completing => MayRest(call.index) /\ MessageIndex(call.index) \in Noticed
    BY <1>2, ReachedSteps, ReachedLeads, ReachedMarks DEF Here, MayRest, Answers
  <1>4. ASSUME NEW e, DOMAIN e = Fields, e.index = c.index, e.completing = c.completing,
               e.retaddr = c.retaddr, e.retrans = c.retrans, e.pause = c.pause,
               e.restored = c.restored, Continues(e)
        PROVE  PathInv'
    BY <1>2, <1>3, <1>4, RestsPath DEF OnPath
  <1>5. ASSUME NEW g, NEW t
        PROVE  /\ DOMAIN d(g, t) = Fields /\ d(g, t).index = c.index /\ d(g, t).completing = c.completing
               /\ d(g, t).retaddr = c.retaddr /\ d(g, t).retrans = c.retrans
               /\ d(g, t).pause = c.pause /\ d(g, t).restored = c.restored
    BY DEF Fields
  <1>6. /\ DOMAIN n = Fields /\ n.index = c.index /\ n.completing = c.completing
        /\ n.retaddr = c.retaddr /\ n.retrans = c.retrans
        /\ n.pause = c.pause /\ n.restored = c.restored
    BY DEF Fields
  <1> HIDE DEF d, n
  <1>7. CASE Continues(n)
    BY <1>4, <1>6, <1>7
  <1>8. ASSUME NEW g, NEW t, Continues(d(g, t)) PROVE PathInv'
    BY <1>4, <1>5, <1>8
  <1> QED BY <1>1, <1>7, <1>8

LEMMA RunRecvPath == ASSUME Types, PathInv, RunRecv \/ RunRecvCmd PROVE PathInv'
  <1> DEFINE c == [call EXCEPT !.waiting = TRUE]
             o == (call.waiting \/ Here.optional)
             k == [call EXCEPT !.awaitingCmd = TRUE, !.waiting = o]
  <1>1. /\ running /\ ~call.restored /\ call.index < End /\ Here.kind \in {"recv", "recvCmd"}
        /\ running' = FALSE
    BY DEF RunRecv, RunRecvCmd, At, Here
  <1>2. ArmRecv(c, Here.timed) \/ ArmRecv(k, Here.timed)
    BY DEF RunRecv, RunRecvCmd
  <1>3. DOMAIN call = Fields
    BY <1>1, RunningPath
  <1>4. /\ DOMAIN c = Fields /\ c.index = call.index /\ c.completing = call.completing
        /\ c.retaddr = call.retaddr /\ c.retrans = call.retrans /\ c.pause = call.pause
        /\ c.restored = call.restored
    BY <1>3 DEF Fields
  <1> HIDE DEF o
  <1>5. /\ DOMAIN k = Fields /\ k.index = call.index /\ k.completing = call.completing
        /\ k.retaddr = call.retaddr /\ k.retrans = call.retrans /\ k.pause = call.pause
        /\ k.restored = call.restored
    BY <1>3 DEF Fields
  <1> HIDE DEF c, k
  <1> QED BY <1>1, <1>2, <1>4, <1>5, ArmRecvPath

LEMMA LingersPath ==
    ASSUME Types, PathInv, running, call.index < End, NEW c, DOMAIN c = Fields,
           NEW kind, Lingers(c, kind), c.retaddr = call.retaddr, c.retrans = call.retrans, ~c.restored,
           ~c.completing => /\ ~call.completing /\ MayRest(c.index)
                            /\ c.pause # 0 => MessageIndex(c.pause) \in Noticed
                            /\ c.pause = 0 => MessageIndex(c.index) \in Noticed
    PROVE  PathInv'
  <1> DEFINE d(g, t) == [c EXCEPT !.gen = g, !.timer = t]
  <1>1. PICK g, t : Continues(d(g, t))
    BY DEF Lingers
  <1>2. running' = FALSE
    BY DEF Lingers
  <1>3. /\ DOMAIN d(g, t) = Fields /\ d(g, t).index = c.index /\ d(g, t).completing = c.completing
        /\ d(g, t).retaddr = c.retaddr /\ d(g, t).retrans = c.retrans
        /\ d(g, t).pause = c.pause /\ d(g, t).restored = c.restored
    BY DEF Fields
  <1> HIDE DEF d
  <1> QED BY <1>1, <1>2, <1>3, RestsPath

LEMMA RunPausePath == ASSUME Types, PathInv, RunPause PROVE PathInv'
  <1> DEFINE c(at) == [call EXCEPT !.index = at, !.pause = call.index]
  <1>1. running /\ ~call.restored /\ call.index < End /\ Here.kind = "pause"
    BY DEF RunPause, At, Here
  <1>2. /\ DOMAIN call = Fields
        /\ ~call.completing => call.index \in Reached \cap DOMAIN Steps
    BY <1>1, RunningPath
  <1>3. PICK at \in Onward : Lingers(c(at), "pause")
    BY DEF RunPause
  <1>4. /\ DOMAIN c(at) = Fields /\ c(at).index = at /\ c(at).completing = call.completing
        /\ c(at).retaddr = call.retaddr /\ c(at).retrans = call.retrans
        /\ c(at).pause = call.index /\ c(at).restored = call.restored
    BY <1>2 DEF Fields
  <1>5. ~call.completing => at \in Onto(call.index, Noticed)
    BY <1>1, OnwardPath
  <1>6. ~call.completing => /\ MayRest(at) /\ MessageIndex(call.index) \in Noticed
                            /\ call.index # 0
    BY <1>1, <1>2, <1>5, ReachedSteps, OntoGoes, ReachedMarks, TheSteps DEF Here
  <1> HIDE DEF c
  <1> QED BY <1>1, <1>3, <1>4, <1>6, LingersPath

LEMMA RunTimewaitPath == ASSUME Types, PathInv, RunTimewait PROVE PathInv'
  <1> DEFINE c(at) == [call EXCEPT !.index = at]
             e == [call EXCEPT !.completing = TRUE, !.index = @ + 1]
  <1>1. running /\ ~call.restored /\ call.index < End /\ Here.kind = "timewait"
    BY DEF RunTimewait, At, Here
  <1>2. /\ DOMAIN call = Fields /\ OnPath(call, TRUE)
        /\ ~call.completing => call.index \in Reached \cap DOMAIN Steps
    BY <1>1, RunningPath
  <1>3. \/ Jumps(call.index) /\ \E at \in Onward : Lingers(c(at), "pause")
        \/ Lingers(e, "timewait")
    BY DEF RunTimewait
  <1>4. ASSUME NEW at \in Onward, Jumps(call.index), Lingers(c(at), "pause") PROVE PathInv'
    <2>1. /\ DOMAIN c(at) = Fields /\ c(at).index = at /\ c(at).completing = call.completing
          /\ c(at).retaddr = call.retaddr /\ c(at).retrans = call.retrans
          /\ c(at).pause = call.pause /\ c(at).restored = call.restored
      BY <1>2 DEF Fields
    <2>2. ~call.completing => at \in Onto(call.index, Noticed)
      BY <1>1, <1>4, OnwardPath
    <2>3. ~call.completing => MayRest(at) /\ MessageIndex(at) \in Noticed
      BY <1>1, <1>2, <2>2, ReachedSteps, OntoGoes, ReachedMarks DEF Here
    <2>4. ~call.completing /\ call.pause # 0 => MessageIndex(call.pause) \in Noticed
      BY <1>2 DEF OnPath
    <2> HIDE DEF c
    <2> QED BY <1>1, <1>4, <2>1, <2>3, <2>4, LingersPath
  <1>5. /\ DOMAIN e = Fields /\ e.completing = TRUE
        /\ e.retaddr = call.retaddr /\ e.retrans = call.retrans /\ e.restored = call.restored
    BY <1>2 DEF Fields
  <1> HIDE DEF c, e
  <1>6. CASE Lingers(e, "timewait")
    BY <1>1, <1>5, <1>6, LingersPath
  <1> QED BY <1>3, <1>4, <1>6

LEMMA AdvancePath == ASSUME Types, PathInv, Advance PROVE PathInv'
  <1>1. RunEnd \/ RunFailing \/ RunSendFails => PathInv'
    BY EndsPath DEF RunEnd, RunFailing, RunSendFails
  <1> QED BY <1>1, RunSkippedPath, RunRestoredPath, RunSendPath, RunRecvPath, RunPausePath,
             RunTimewaitPath, RunOnPath DEF Advance

(* The handlers.                                                           *)

\* The message of an opening request is taken by a receive of the first steps.
LEMMA OpensPath == ASSUME NEW m, Opens(m) PROVE OnPath(NewCall, FALSE)
  <1>1. Resolved /\ 1 \in 1..End /\ 1 \in DOMAIN Steps
    BY TheSteps
  <1>2. Scan(Steps, {}, 1, TRUE, m, NoGuard).found = "forward"
    BY DEF Opens
  <1>3. \E j \in Window(Steps, 1) : Steps[j].kind = "recv"
    <2>1. Scan(Steps, {}, 1, TRUE, m, NoGuard).at
             \in {j \in Window(Steps, 1) \cap DOMAIN Steps : Steps[j].kind = "recv"}
      BY <1>1, <1>2, ForwardScans
    <2> QED BY <2>1
  <1>4. MayRest(1) /\ MessageIndex(1) \in Noticed
    BY <1>1, <1>3, ReachedSteps, WindowIsReached
  <1>5. /\ NewCall.index = 1 /\ NewCall.retaddr = 0
        /\ NewCall.retrans = None /\ NewCall.pause = 0 /\ ~NewCall.restored
    BY DEF NewCall
  <1> QED BY <1>4, <1>5, ReachedSteps DEF OnPath, Resends, Resting

\* A call that waited goes on, whatever it was restored to.
LEMMA ResumesPath ==
    ASSUME NEW c, OnPath(c, FALSE), NEW d, DOMAIN d = Fields, Continues(d), running' = TRUE,
           d.completing = c.completing, d.retaddr = c.retaddr,
           d.restored = c.restored,
           ~c.completing => /\ d.index \in Reached /\ Resends(d.retrans)
                            /\ d.pause # 0 => d.pause = c.pause
    PROVE  PathInv'
  <1>1. ~c.completing /\ c.restored => MayPass(d.index)
    BY ReachedSteps, AllMay DEF OnPath, Resting
  <1>2. OnPath(d, TRUE)
    BY <1>1 DEF OnPath
  <1> QED BY <1>2, ContinuesPath DEF Walks

\* It goes where a step that took a message or a command leads.
LEMMA TakenPath ==
    ASSUME NEW c, OnPath(c, FALSE), ~c.completing, NEW i \in Reached \cap DOMAIN Steps,
           Steps[i].kind = "recv" \/ Steps[i].kind = "recvCmd", NEW at \in Onto(i, Noticed)
    PROVE  at \in Reached /\ (StillRestored(c, i) => MayPass(at))
  <1>1. at \in Reached /\ (Steps[i].restores => MayPass(at))
    BY ReachedSteps, OntoGoes
  <1>2. StillRestored(c, i) => Steps[i].restores \/ c.restored
    BY DEF StillRestored
  <1>3. c.restored => MayPass(at)
    BY <1>1, ReachedSteps, AllMay DEF OnPath, Resting
  <1> QED BY <1>1, <1>2, <1>3

\* It waits on.
LEMMA WaitsOnPath ==
    ASSUME NEW c, OnPath(c, FALSE), ~c.completing, NEW si \in Reached \cap DOMAIN Steps,
           Steps[si].kind = "recv", Unset(si), NEW wait \in Waits(si, c),
           NEW d, DOMAIN d = Fields, Continues(d), running' = FALSE,
           d.completing = c.completing, d.retaddr = c.retaddr, d.pause = c.pause,
           d.restored = StillRestored(c, si), d.retrans = None, d.index = wait.index
    PROVE  PathInv'
  <1>1. \/ wait.index = c.index
        \/ \E target \in Targets(si, c.retaddr) : wait.index = WaitAfterJump(target)
    BY DEF Waits, Moved
  <1>2. c.retaddr \in Noticed /\ Resting(c) /\ c.index \in Reached
    BY DEF OnPath
  <1>3. d.restored => AllReached
    <2>1. Steps[si].restores => AllReached
      BY ReachedSteps, AnywhereIsAll DEF Anywhere
    <2> QED BY <1>2, <2>1 DEF StillRestored, Resting
  <1>4. Resends(None)
    BY DEF Resends
  <1>5. CASE wait.index = c.index
    <2>1. OnPath(d, FALSE)
      BY <1>2, <1>3, <1>4, <1>5 DEF OnPath, Resting
    <2> QED BY <2>1, ContinuesPath DEF Walks
  <1>6. ASSUME NEW target \in Targets(si, c.retaddr), wait.index = WaitAfterJump(target) PROVE PathInv'
    <2>1. MayRest(d.index) /\ MessageIndex(d.index) \in Noticed
      BY <1>2, <1>6, ReachedSteps, WaitsRest
    <2>2. OnPath(d, FALSE)
      BY <1>2, <1>3, <1>4, <2>1 DEF OnPath, Resting, MayRest
    <2> QED BY <2>2, ContinuesPath DEF Walks
  <1> QED BY <1>1, <1>5, <1>6

LEMMA OnMatchedPath ==
    ASSUME NEW c, DOMAIN c = Fields, OnPath(c, FALSE), ~c.completing,
           NEW si \in Window(Steps, c.index) \cap DOMAIN Steps, Steps[si].kind = "recv",
           NEW m, OnMatched(c, si, m)
    PROVE  PathInv'
  <1> DEFINE done == Matched(c, si, m)
             on(at) == [done EXCEPT !.index = at]
             w(wait) == [done EXCEPT !.index = wait.index, !.waiting = wait.waiting,
                                     !.awaitingCmd = wait.awaitingCmd]
             t(wait, g, h) == [w(wait) EXCEPT !.gen = g, !.timer = h]
  <1>1. \/ (\E at \in MovesOn(si) : Continues(on(at))) /\ running' = TRUE
        \/ Unset(si) /\ (\E wait \in Waits(si, c) : Resumed(done, wait)) /\ running' = FALSE
        \/ Ends("failed")
    BY DEF OnMatched
  <1>2. /\ DOMAIN done = Fields /\ done.completing = c.completing /\ done.retaddr = c.retaddr
        /\ done.pause = c.pause /\ done.retrans = None /\ done.restored = StillRestored(c, si)
    <2>1. PICK n : n = (IF m.request /\ m.name = "INVITE" THEN m.num ELSE c.inviteNum)
      OBVIOUS
    <2>2. PICK f : f = (IF Steps[si].txn # 0 THEN c.finals \cup {m} ELSE c.finals)
      OBVIOUS
    <2>3. PICK r : r = StillRestored(c, si)
      OBVIOUS
    <2>4. done = [c EXCEPT !.retrans = None, !.timer = None, !.gen = @ + 1,
                           !.waiting = FALSE, !.awaitingCmd = FALSE, !.index = si + 1,
                           !.lastKey = m, !.restored = r, !.inviteNum = n, !.finals = f]
      BY <2>1, <2>2, <2>3 DEF Matched
    <2> HIDE DEF done
    <2>5. /\ DOMAIN done = Fields /\ done.completing = c.completing /\ done.retaddr = c.retaddr
          /\ done.pause = c.pause
      BY <2>4 DEF Fields
    <2>6. done.retrans = None /\ done.restored = r
      BY <2>4 DEF Fields
    <2> QED BY <2>3, <2>5, <2>6
  <1>3. si \in Reached \cap DOMAIN Steps
    <2>1. c.index \in Reached \cap DOMAIN Steps
      <3>1. c.index \in Reached /\ si \in c.index..Len(Steps)
        BY DEF OnPath, Window
      <3>2. c.index \in 1..End /\ End \in Nat /\ End = Len(Steps) + 1 /\ Len(Steps) \in Nat
        BY <3>1, ReachedSteps, TheSteps
      <3>3. c.index < End
        BY <3>1, <3>2
      <3> QED BY <3>1, <3>3, ReachedSteps
    <2> QED BY <2>1, ReachedSteps, WindowIsReached
  <1>4. Resends(None)
    BY DEF Resends
  <1> HIDE DEF done
  <1>5. ASSUME NEW at \in MovesOn(si), Continues(on(at)), running' = TRUE PROVE PathInv'
    <2>1. /\ DOMAIN on(at) = Fields /\ on(at).completing = c.completing /\ on(at).retaddr = c.retaddr
          /\ on(at).pause = c.pause /\ on(at).retrans = None /\ on(at).index = at
          /\ on(at).restored = StillRestored(c, si)
      BY <1>2 DEF Fields
    <2>2. at \in Onto(si, Noticed)
      BY DEF Onto
    <2>3. at \in Reached /\ (StillRestored(c, si) => MayPass(at))
      BY <1>3, <2>2, TakenPath
    <2> HIDE DEF on
    <2>4. OnPath(on(at), TRUE)
      BY <1>4, <2>1, <2>3 DEF OnPath
    <2> QED BY <1>5, <2>1, <2>4, ContinuesPath DEF Walks
  <1>6. ASSUME NEW wait \in Waits(si, c), Unset(si), Resumed(done, wait), running' = FALSE PROVE PathInv'
    <2>1. Continues(w(wait)) \/ \E g, h : Continues(t(wait, g, h))
      BY <1>6 DEF Resumed
    <2>2. /\ DOMAIN w(wait) = Fields /\ w(wait).completing = c.completing
          /\ w(wait).retaddr = c.retaddr /\ w(wait).pause = c.pause /\ w(wait).retrans = None
          /\ w(wait).index = wait.index /\ w(wait).restored = StillRestored(c, si)
      BY <1>2 DEF Fields
    <2> HIDE DEF w
    <2>3. ASSUME NEW g, NEW h
          PROVE  /\ DOMAIN t(wait, g, h) = Fields /\ t(wait, g, h).completing = c.completing
                 /\ t(wait, g, h).retaddr = c.retaddr /\ t(wait, g, h).pause = c.pause
                 /\ t(wait, g, h).retrans = None /\ t(wait, g, h).index = wait.index
                 /\ t(wait, g, h).restored = StillRestored(c, si)
      BY <2>2 DEF Fields
    <2> HIDE DEF t
    <2>4. CASE Continues(w(wait))
      BY <1>3, <1>6, <2>2, <2>4, WaitsOnPath
    <2>5. ASSUME NEW g, NEW h, Continues(t(wait, g, h)) PROVE PathInv'
      BY <1>3, <1>6, <2>3, <2>5, WaitsOnPath
    <2> QED BY <2>1, <2>4, <2>5
  <1> QED BY <1>1, <1>5, <1>6, EndsPath

\* An unexpected message sends it to the handler, to return to where it is.
LEMMA OnInterruptedPath ==
    ASSUME NEW c, DOMAIN c = Fields, OnPath(c, FALSE), Handler # 0, OnInterrupted(c)
    PROVE  PathInv'
  <1> DEFINE at == IF c.pause # 0 THEN c.pause ELSE c.index
             d == Interrupted(c)
  <1>1. Continues(d) /\ running' = TRUE
    BY DEF OnInterrupted
  <1>2. PICK r : r = (IF Retaddr THEN MessageIndex(at) ELSE c.retaddr)
    OBVIOUS
  <1>3. PICK p : p = (Pausedaddr /\ c.pause # 0)
    OBVIOUS
  <1>4. d = [c EXCEPT !.retaddr = r, !.pausedaddr = p,
                      !.timer = None, !.gen = @ + 1, !.pause = 0,
                      !.waiting = FALSE, !.awaitingCmd = FALSE, !.index = Handler]
    BY <1>2, <1>3 DEF Interrupted
  <1>5. ~c.completing => r \in Noticed
    BY <1>2 DEF OnPath, Resting
  <1> HIDE DEF d, at
  <1>6. /\ DOMAIN d = Fields /\ d.completing = c.completing /\ d.retaddr = r /\ d.pause = 0
        /\ d.retrans = c.retrans /\ d.restored = c.restored /\ d.index = Handler
    BY <1>4 DEF Fields
  <1>7. Handler \in Reached
    BY TheSteps, ReachedIsClosed
  <1>8. ~c.completing /\ c.restored => MayPass(Handler)
    BY <1>7, ReachedSteps, AllMay DEF OnPath, Resting
  <1>9. OnPath(d, TRUE)
    BY <1>5, <1>6, <1>7, <1>8 DEF OnPath
  <1> QED BY <1>1, <1>6, <1>9, ContinuesPath DEF Walks

LEMMA DeliverPath ==
    ASSUME Types, ~running, NEW c, DOMAIN c = Fields, OnPath(c, FALSE), ~c.completing,
           NEW m, Deliver(c, m)
    PROVE  PathInv'
  <1> DEFINE d == [c EXCEPT !.lastKey = m]
             scan == ScanCall(c, m)
  <1>1. \/ scan.found = "forward" /\ OnMatched(c, scan.at, m)
        \/ (Continues(c) \/ Continues(d)) /\ running' = running
        \/ Handler # 0 /\ OnInterrupted(c)
        \/ \E o : Ends(o)
    BY DEF Deliver, OnUnexpected
  <1>2. /\ DOMAIN d = Fields /\ d.completing = c.completing /\ d.retaddr = c.retaddr
        /\ d.pause = c.pause /\ d.retrans = c.retrans /\ d.restored = c.restored
        /\ d.index = c.index
    BY DEF Fields
  <1>3. scan.found = "forward" =>
            scan.at \in Window(Steps, c.index) \cap DOMAIN Steps /\ Steps[scan.at].kind = "recv"
    <2>1. PICK waiting : waiting = (c.waiting \/ c.index = 1)
      OBVIOUS
    <2>2. waiting \in BOOLEAN
      BY <2>1
    <2>3. scan = Scan(Steps, c.branched, c.index, waiting, m, c.inviteNum)
      BY <2>1 DEF ScanCall
    <2>4. c.index \in 1..End
      BY ReachedSteps DEF OnPath
    <2> HIDE DEF scan
    <2> QED BY <2>2, <2>3, <2>4, ReachedSteps, ForwardScans
  <1> HIDE DEF d, scan
  <1>4. CASE (Continues(c) \/ Continues(d)) /\ running' = running
    <2>1. OnPath(d, FALSE)
      BY <1>2 DEF OnPath, Resting
    <2>2. running' = FALSE
      BY <1>4 DEF Types
    <2> QED BY <1>2, <1>4, <2>1, <2>2, ContinuesPath DEF Walks
  <1> QED BY <1>1, <1>3, <1>4, OnMatchedPath, OnInterruptedPath, EndsPath

LEMMA PacketPath ==
    ASSUME Types, PathInv, OnPacketNoCall \/ OnPacket
    PROVE  PathInv'
  <1> DEFINE m == Head(events).msg
  <1>1. ~running
    BY DEF OnPacketNoCall, OnPacket, Receives
  <1>2. CASE Ignore
    BY <1>2 DEF Ignore, PathInv, Live
  <1>3. CASE ~Ignore /\ OnPacketNoCall
    <2>1. Opens(m) /\ Deliver(NewCall, m)
      BY <1>3 DEF OnPacketNoCall
    <2>2. DOMAIN NewCall = Fields /\ ~NewCall.completing
      BY DEF NewCall, Fields
    <2> QED BY <1>1, <2>1, <2>2, OpensPath, DeliverPath
  <1>4. CASE ~Ignore /\ OnPacket
    <2>1. Live /\ ~Absorbs(call, m) /\ Deliver(call, m)
      BY <1>4 DEF OnPacket
    <2>2. ~call.completing
      BY <2>1 DEF Absorbs
    <2>3. DOMAIN call = Fields /\ OnPath(call, FALSE)
      BY <1>1, <2>1 DEF PathInv, Walks, OnPath
    <2> QED BY <1>1, <2>1, <2>2, <2>3, DeliverPath
  <1> QED BY <1>2, <1>3, <1>4

\* A call goes to the label of a timeout.
LEMMA TimesOutPath ==
    ASSUME NEW b, OnPath(b, FALSE), NEW c, DOMAIN c = Fields, c.completing = b.completing,
           c.retaddr = b.retaddr, c.restored = b.restored, c.pause \in {0, b.pause},
           NEW label, TimesOut(c, label),
           ~b.completing => Resends(c.retrans) /\ (label # 0 => label \in Reached)
    PROVE  PathInv'
  <1> DEFINE d == [c EXCEPT !.waiting = FALSE, !.awaitingCmd = FALSE, !.index = label]
  <1>1. Ends("failed") \/ (label # 0 /\ Continues(d) /\ running' = TRUE)
    BY DEF TimesOut
  <1>2. /\ DOMAIN d = Fields /\ d.completing = c.completing /\ d.retaddr = c.retaddr
        /\ d.pause = c.pause /\ d.retrans = c.retrans /\ d.restored = c.restored
        /\ d.index = label
    BY DEF Fields
  <1> HIDE DEF d
  <1> QED BY <1>1, <1>2, EndsPath, ResumesPath

LEMMA OnWaitTimerPath == ASSUME Types, PathInv, OnWaitTimer PROVE PathInv'
  <1> DEFINE c == [call EXCEPT !.timer = None]
             p == [c EXCEPT !.pause = 0]
             w == [c EXCEPT !.waiting = FALSE, !.awaitingCmd = FALSE]
  <1>1. ~running
    BY DEF OnWaitTimer, Receives
  <1>2. CASE Ignore
    BY <1>2 DEF Ignore, PathInv, Live
  <1>3. CASE ~Ignore
    <2>1. Live
      BY <1>3 DEF OnWaitTimer, Stale
    <2>2. DOMAIN call = Fields /\ OnPath(call, FALSE)
      BY <1>1, <2>1 DEF PathInv, Walks, OnPath
    <2>3. /\ DOMAIN c = Fields /\ c.completing = call.completing /\ c.retaddr = call.retaddr
          /\ c.pause = call.pause /\ c.retrans = call.retrans /\ c.restored = call.restored
          /\ c.index = call.index
      BY <2>2 DEF Fields
    <2>4. \/ OnRecvTimeout(c)
          \/ Continues(p) /\ running' = TRUE
          \/ Ends("successful")
      BY <1>3 DEF OnWaitTimer
    <2> HIDE DEF c
    <2>5. /\ DOMAIN p = Fields /\ p.completing = c.completing /\ p.retaddr = c.retaddr
          /\ p.pause = 0 /\ p.retrans = c.retrans /\ p.restored = c.restored
          /\ p.index = c.index
      BY <2>3 DEF Fields
    <2>6. /\ DOMAIN w = Fields /\ w.completing = c.completing /\ w.retaddr = c.retaddr
          /\ w.pause = c.pause /\ w.retrans = c.retrans /\ w.restored = c.restored
          /\ w.index = c.index
      BY <2>3 DEF Fields
    <2>7. OnPath(c, FALSE)
      BY <2>2, <2>3 DEF OnPath, Resting
    <2>8. ~c.completing => c.index \in Reached /\ Resends(c.retrans)
      BY <2>7 DEF OnPath
    <2> HIDE DEF p, w
    <2>9. CASE OnRecvTimeout(c)
      <3>1. \/ /\ c.index < End /\ Steps[c.index].kind \in {"recv", "recvCmd"}
               /\ TimesOut(c, Steps[c.index].ontimeout)
            \/ Continues(w) /\ running' = TRUE
        BY <2>9 DEF OnRecvTimeout, w
      <3>2. CASE /\ c.index < End /\ Steps[c.index].kind \in {"recv", "recvCmd"}
                 /\ TimesOut(c, Steps[c.index].ontimeout)
        <4>1. ~c.completing /\ Steps[c.index].ontimeout # 0 => Steps[c.index].ontimeout \in Reached
          BY <2>8, <3>2, ReachedSteps, ReachedLeads
        <4> QED BY <2>3, <2>7, <2>8, <3>2, <4>1, TimesOutPath
      <3>3. CASE Continues(w) /\ running' = TRUE
        BY <2>6, <2>7, <2>8, <3>3, ResumesPath
      <3> QED BY <3>1, <3>2, <3>3
    <2>10. CASE Continues(p) /\ running' = TRUE
      BY <2>5, <2>7, <2>8, <2>10, ResumesPath
    <2> QED BY <2>4, <2>9, <2>10, EndsPath
  <1> QED BY <1>2, <1>3

LEMMA OnRetransTimerPath == ASSUME Types, PathInv, OnRetransTimer PROVE PathInv'
  <1> DEFINE e == Head(events)
             t == Timer("retrans", e.gen)
             c == [call EXCEPT !.retrans = None, !.timer = None, !.gen = @ + 1,
                               !.deadline = FALSE, !.pause = 0]
             q == [call.retrans EXCEPT !.attempt = @ + 1, !.id = t.id]
             r == [call EXCEPT !.retrans = q]
  <1>1. ~running
    BY DEF OnRetransTimer, Receives
  <1>2. CASE Ignore
    BY <1>2 DEF Ignore, PathInv, Live
  <1>3. CASE ~Ignore
    <2>1. Live /\ call.retrans # None
      BY <1>3 DEF OnRetransTimer
    <2>2. DOMAIN call = Fields /\ OnPath(call, FALSE)
      BY <1>1, <2>1 DEF PathInv, Walks, OnPath
    <2>3. [call EXCEPT !.retrans.attempt = @ + 1, !.retrans.id = t.id] = r
      <3> HIDE DEF t
      <3> QED BY <2>2 DEF Fields
    <2>4. \/ TimesOut(c, Steps[call.retrans.step].ontimeout)
          \/ Continues(r) /\ running' = running
          \/ Ends("failed")
      BY <1>3, <2>3 DEF OnRetransTimer, OnRetransExhausted
    <2> HIDE DEF t, e
    <2>5. /\ DOMAIN c = Fields /\ c.completing = call.completing /\ c.retaddr = call.retaddr
          /\ c.pause = 0 /\ c.retrans = None /\ c.restored = call.restored
          /\ c.index = call.index
      BY <2>2 DEF Fields
    <2> HIDE DEF q
    <2>6. /\ DOMAIN r = Fields /\ r.completing = call.completing /\ r.retaddr = call.retaddr
          /\ r.pause = call.pause /\ r.retrans = q /\ r.restored = call.restored
          /\ r.index = call.index
      BY <2>2 DEF Fields
    <2> HIDE DEF c, r
    <2>7. ~call.completing => Resends(call.retrans)
      BY <2>2 DEF OnPath
    <2>8. ~call.completing => Resends(q)
      BY <2>1, <2>7 DEF q, Resends
    <2>9. CASE TimesOut(c, Steps[call.retrans.step].ontimeout)
      <3> DEFINE label == Steps[call.retrans.step].ontimeout
      <3>1. ~call.completing /\ label # 0 => label \in Reached
        BY <2>1, <2>7, ReachedSteps, ReachedLeads DEF Resends
      <3>2. TimesOut(c, label) /\ Resends(None)
        BY <2>9 DEF Resends
      <3> HIDE DEF label
      <3> QED BY <2>2, <2>5, <3>1, <3>2, TimesOutPath
    <2>10. CASE Continues(r) /\ running' = running
      <3>1. OnPath(r, FALSE)
        BY <2>2, <2>6, <2>8 DEF OnPath, Resting
      <3>2. running' = FALSE
        BY <1>1, <2>10 DEF Types
      <3> QED BY <2>6, <2>10, <3>1, <3>2, ContinuesPath DEF Walks
    <2> QED BY <2>4, <2>9, <2>10, EndsPath
  <1> QED BY <1>2, <1>3

LEMMA OnTwinCmdPath == ASSUME Types, PathInv, OnTwinCmd PROVE PathInv'
  <1> DEFINE d(at, r) == [call EXCEPT !.awaitingCmd = FALSE, !.waiting = FALSE, !.timer = None,
                                      !.gen = @ + 1, !.restored = r, !.index = at]
  <1>1. ~running
    BY DEF OnTwinCmd, Receives
  <1>2. CASE Ignore
    BY <1>2 DEF Ignore, PathInv, Live
  <1>3. CASE ~Ignore
    <2>1. Live
      BY <1>3 DEF OnTwinCmd
    <2>2. DOMAIN call = Fields /\ OnPath(call, FALSE)
      BY <1>1, <2>1 DEF PathInv, Walks, OnPath
    <2>3. \/ Ends("failed")
          \/ \E i \in TakesCmd(call.index) : \E at \in NextSteps(i) :
                Continues(d(at, StillRestored(call, i))) /\ running' = TRUE
      BY <1>3 DEF OnTwinCmd
    <2>4. ASSUME NEW at, NEW r
          PROVE  /\ DOMAIN d(at, r) = Fields /\ d(at, r).completing = call.completing
                 /\ d(at, r).retaddr = call.retaddr /\ d(at, r).pause = call.pause
                 /\ d(at, r).retrans = call.retrans /\ d(at, r).restored = r /\ d(at, r).index = at
      BY <2>2 DEF Fields
    <2> HIDE DEF d
    <2>5. ASSUME NEW i \in TakesCmd(call.index), NEW at \in NextSteps(i), running' = TRUE,
                 Continues(d(at, StillRestored(call, i)))
          PROVE  PathInv'
      <3>1. Steps[i].kind = "recvCmd" /\ at \in Onto(i, Noticed)
        BY DEF TakesCmd, Onto
      <3>2. ~call.completing => i \in Reached \cap DOMAIN Steps
        <4>1. ~call.completing => i \in Reached /\ i \in call.index..Len(Steps) /\ call.index \in Reached
          BY <2>2 DEF OnPath, Resting, MayRest, TakesCmd
        <4>2. ~call.completing => i \in DOMAIN Steps
          BY <4>1, ReachedSteps, TheSteps
        <4> QED BY <4>1, <4>2
      <3>3. ~call.completing => at \in Reached /\ (StillRestored(call, i) => MayPass(at))
        BY <2>2, <3>1, <3>2, TakenPath
      <3> DEFINE e == d(at, StillRestored(call, i))
      <3>4. /\ DOMAIN e = Fields /\ e.completing = call.completing /\ e.retaddr = call.retaddr
            /\ e.pause = call.pause /\ e.retrans = call.retrans
            /\ e.restored = StillRestored(call, i) /\ e.index = at
        BY <2>4
      <3> HIDE DEF e
      <3>5. OnPath(e, TRUE)
        BY <2>2, <3>3, <3>4 DEF OnPath
      <3> QED BY <2>5, <3>4, <3>5, ContinuesPath DEF Walks, e
    <2> QED BY <2>3, <2>5, EndsPath
  <1> QED BY <1>2, <1>3

LEMMA NextPath == ASSUME Types, PathInv, [Next]_vars PROVE PathInv'
  <1>1. CASE Advance
    BY <1>1, AdvancePath
  <1>2. CASE OnPacketNoCall \/ OnPacket \/ OnWaitTimer \/ OnRetransTimer \/ OnTwinCmd
    BY <1>2, PacketPath, OnWaitTimerPath, OnRetransTimerPath, OnTwinCmdPath
  <1>3. CASE OnClosed
    <2>1. Ignore => UNCHANGED <<call, running>>
      BY DEF Ignore
    <2> QED BY <1>3, <2>1, EndsPath DEF OnClosed, PathInv, Live
  <1>4. CASE UNCHANGED <<call, running>>
    BY <1>4 DEF PathInv, Live
  <1>5. PeerSends \/ TwinSends \/ ConnectionCloses \/ Fire \/ DeadExpires \/ Rest \/ UNCHANGED vars
           => UNCHANGED <<call, running>>
    BY DEF PeerSends, TwinSends, ConnectionCloses, Arrives, Fire, DeadExpires, Rest, vars
  <1> QED BY <1>1, <1>2, <1>3, <1>4, <1>5 DEF Next, Handle

(* Whatever order its messages, commands and timers come in, and however     *)
(* often its Call-ID is used, a call executes or waits at a step that the    *)
(* scenario leads to, which is what the lints on unreachable steps and the   *)
(* scenario's author go by.                                                  *)
THEOREM CallsAlwaysStayOnTheirPath == Spec => []CallsStayOnTheirPath
  <1>1. Init => CountInv /\ PathInv
    <2>1. Init => PathInv
      BY NewCallRuns DEF Init, PathInv, Live
    <2> QED BY <2>1, InitCounts
  <1>2. CountInv /\ PathInv /\ [Next]_vars => CountInv' /\ PathInv'
    <2>1. CountInv => Types
      BY DEF CountInv
    <2> QED BY <2>1, NextCounts, NextPath
  <1>3. PathInv => CallsStayOnTheirPath
    BY DEF PathInv, Walks, OnPath, CallsStayOnTheirPath
  <1> QED BY <1>1, <1>2, <1>3, PTL DEF Spec

-----------------------------------------------------------------------------
(* Restored pauses.                                                        *)

\* A scenario whose handlers, as in the corpus' unexp_handler.xml, end by restoring
\* the pause and returning at one nop; no message's `next` leads away before a pause.
Restoring ==
    /\ Retaddr
    /\ \A i \in DOMAIN Steps :
          /\ Steps[i].restores => /\ Steps[i].kind = "nop" /\ Steps[i].returns
                                  /\ Steps[i].jump = 0
          /\ Steps[i].kind = "pause" => MessageBefore(i) = 0 \/ ~Branches(MessageBefore(i))

IsPause(i) == i \in DOMAIN Steps /\ Steps[i].kind = "pause"

\* What an entry holds of pauses: the one that runs, the one interrupted, and
\* that it is about to serve.
Resumes(c, run) ==
    /\ c.pause # 0 => IsPause(c.pause)
    /\ c.pausedaddr => \E i : IsPause(i) /\ c.retaddr = MessageIndex(i)
    /\ c.restored =>
          run /\ (c.index < End => IsPause(c.index) /\ MessageIndex(c.index) = c.retaddr)

ResumeInv == Live => Resumes(call, running)

\* A message is told from the others by how many there are before it.
LEMMA MessagesAreCounted ==
    ASSUME NEW i \in DOMAIN Steps, IsMessage(i), NEW j \in 1..End, i < j
    PROVE  MessageIndex(i) < MessageIndex(j)
  <1>1. Len(Steps) \in Nat /\ DOMAIN Steps = 1..Len(Steps) /\ End = Len(Steps) + 1
    BY TheSteps
  <1>2. MessagesBefore(i) \subseteq MessagesBefore(j) /\ i \in MessagesBefore(j)
        /\ i \notin MessagesBefore(i) /\ MessagesBefore(j) \subseteq 1..Len(Steps)
    BY <1>1 DEF MessagesBefore
  <1>3. IsFiniteSet(MessagesBefore(j))
    <2>1. IsFiniteSet(1..Len(Steps))
      BY <1>1, FS_Interval
    <2> QED BY <1>2, <2>1, FS_Subset
  <1>4. /\ Cardinality(MessagesBefore(i)) <= Cardinality(MessagesBefore(j))
        /\ Cardinality(MessagesBefore(i)) # Cardinality(MessagesBefore(j))
        /\ IsFiniteSet(MessagesBefore(i))
    BY <1>2, <1>3, FS_Subset
  <1>5. Cardinality(MessagesBefore(i)) \in Nat /\ Cardinality(MessagesBefore(j)) \in Nat
    BY <1>3, <1>4, FS_CardinalityType
  <1> QED BY <1>4, <1>5 DEF MessageIndex

LEMMA MessageIsFound ==
    ASSUME NEW i \in DOMAIN Steps, IsMessage(i)
    PROVE  StepOfMessage(MessageIndex(i)) = i
  <1>1. i \in 1..End /\ DOMAIN Steps = 1..End - 1 /\ End \in Nat
    BY TheSteps
  <1>2. ASSUME NEW j \in 1..End, MessageIndex(j) = MessageIndex(i), j = End \/ IsMessage(j)
        PROVE  j = i
    <2>1. MessageIndex(i) \in Nat
      BY <1>1, TheSteps, MessagesBeforeLand
    <2>2. ~(i < j)
      BY <1>2, <2>1, MessagesAreCounted
    <2>3. ~(j < i)
      <3>1. SUFFICES ASSUME j < i PROVE FALSE
        OBVIOUS
      <3>2. j \in DOMAIN Steps /\ IsMessage(j)
        BY <1>1, <1>2, <3>1
      <3> QED BY <1>1, <1>2, <2>1, <3>1, <3>2, MessagesAreCounted
    <2> QED BY <1>1, <2>2, <2>3
  <1> QED BY <1>1, <1>2 DEF StepOfMessage

LEMMA EndsResumes == ASSUME NEW o, Ends(o) PROVE ResumeInv'
  BY DEF Ends, ResumeInv, Live

LEMMA ContinuesResumes ==
    ASSUME NEW d, Continues(d), Resumes(d, running')
    PROVE  ResumeInv'
  BY DEF Continues, ResumeInv, Live

\* Nothing of it is touched.
Keeps(c, d) ==
    /\ d.pause \in {0, c.pause} /\ d.pausedaddr = c.pausedaddr /\ d.retaddr = c.retaddr
    /\ ~d.restored

LEMMA KeepsResumes ==
    ASSUME NEW c, NEW run, Resumes(c, run), NEW d, Keeps(c, d), Continues(d)
    PROVE  ResumeInv'
  BY ContinuesResumes DEF Keeps, Resumes

\* Where the handler's last nop returns to.
LEMMA ReturnsToPause ==
    ASSUME Restoring, NEW c, Resumes(c, TRUE), c.pausedaddr, NEW n \in DOMAIN Steps,
           Steps[n].restores, NEW at \in Destinations(n, c.retaddr)
    PROVE  IsPause(at) /\ MessageIndex(at) = c.retaddr
  <1>1. PICK i : IsPause(i) /\ c.retaddr = MessageIndex(i)
    BY DEF Resumes
  <1>2. StepOfMessage(c.retaddr) = i
    BY <1>1, MessageIsFound DEF IsPause, IsMessage
  <1>3. Jumps(n) /\ Targets(n, c.retaddr) = {i}
    BY <1>2 DEF Restoring, Jumps, Targets
  <1>4. AfterJump(i) = {i}
    BY <1>1 DEF Restoring, AfterJump, IsPause
  <1>5. at = i
    BY <1>3, <1>4 DEF Destinations
  <1> QED BY <1>1, <1>5

LEMMA RunSendResumes ==
    ASSUME Restoring, DOMAIN call = Fields, Resumes(call, TRUE), call.index \in DOMAIN Steps, RunSend
    PROVE  ResumeInv'
  <1> DEFINE d(at) == [Sent(call) EXCEPT !.index = at, !.restored = Restores(call.index)]
  <1>1. ~Restores(call.index)
    BY DEF Restoring, Restores, RunSend, At
  <1>2. PICK at : \/ \E g, r : Continues([d(at) EXCEPT !.gen = g, !.retrans = r])
                  \/ Continues([d(at) EXCEPT !.retrans = None])
    BY DEF RunSend
  <1>3. /\ d(at).pause = call.pause /\ d(at).pausedaddr = call.pausedaddr
        /\ d(at).retaddr = call.retaddr /\ ~d(at).restored /\ DOMAIN d(at) = Fields
    <2>1. /\ DOMAIN Sent(call) = Fields /\ Sent(call).pausedaddr = call.pausedaddr
          /\ Sent(call).retaddr = call.retaddr /\ Sent(call).pause = call.pause
      BY DEF Sent, Fields
    <2> QED BY <1>1, <2>1 DEF Fields
  <1> HIDE DEF d
  <1>4. /\ \A g, r : Keeps(call, [d(at) EXCEPT !.gen = g, !.retrans = r])
        /\ Keeps(call, [d(at) EXCEPT !.retrans = None])
    BY <1>3 DEF Keeps, Fields
  <1> QED BY <1>2, <1>4, KeepsResumes

LEMMA RunRecvResumes ==
    ASSUME DOMAIN call = Fields, Resumes(call, TRUE), RunRecv \/ RunRecvCmd
    PROVE  ResumeInv'
  <1> DEFINE c(w, a) == [call EXCEPT !.waiting = w, !.awaitingCmd = a]
             r == [call EXCEPT !.waiting = TRUE]
  <1>1. ~call.restored
    BY DEF RunRecv, RunRecvCmd, At
  <1>2. \/ \E timed : ArmRecv(r, timed)
        \/ \E w, timed : ArmRecv([call EXCEPT !.awaitingCmd = TRUE, !.waiting = w], timed)
    BY DEF RunRecv, RunRecvCmd
  <1>3. ASSUME NEW d, DOMAIN d = Fields, d.pause = call.pause, d.pausedaddr = call.pausedaddr,
               d.retaddr = call.retaddr, ~d.restored, NEW timed, ArmRecv(d, timed)
        PROVE  ResumeInv'
    <2>1. \/ \E g, t : Continues([d EXCEPT !.deadline = TRUE, !.gen = g, !.timer = t])
          \/ Continues([d EXCEPT !.deadline = FALSE])
      BY <1>3 DEF ArmRecv
    <2>2. /\ \A g, t : Keeps(call, [d EXCEPT !.deadline = TRUE, !.gen = g, !.timer = t])
          /\ Keeps(call, [d EXCEPT !.deadline = FALSE])
      BY <1>3 DEF Keeps, Fields
    <2> QED BY <2>1, <2>2, KeepsResumes
  <1>4. CASE \E timed : ArmRecv(r, timed)
    <2>1. /\ DOMAIN r = Fields /\ r.pause = call.pause /\ r.pausedaddr = call.pausedaddr
          /\ r.retaddr = call.retaddr /\ ~r.restored
      BY <1>1 DEF Fields
    <2> HIDE DEF r
    <2> QED BY <1>3, <1>4, <2>1
  <1>5. CASE \E w, timed : ArmRecv([call EXCEPT !.awaitingCmd = TRUE, !.waiting = w], timed)
    <2>1. PICK w : \E timed : ArmRecv([call EXCEPT !.awaitingCmd = TRUE, !.waiting = w], timed)
      BY <1>5
    <2> DEFINE d == [call EXCEPT !.awaitingCmd = TRUE, !.waiting = w]
    <2>2. /\ DOMAIN d = Fields /\ d.pause = call.pause /\ d.pausedaddr = call.pausedaddr
          /\ d.retaddr = call.retaddr /\ ~d.restored
      BY <1>1 DEF Fields
    <2> HIDE DEF d
    <2> QED BY <1>3, <2>1, <2>2 DEF d
  <1> QED BY <1>2, <1>4, <1>5

LEMMA LingersResumes ==
    ASSUME NEW c, DOMAIN c = Fields, Resumes(c, FALSE), NEW kind, Lingers(c, kind)
    PROVE  ResumeInv'
  <1>1. PICK g, t : Continues([c EXCEPT !.gen = g, !.timer = t])
    BY DEF Lingers
  <1>2. running' = FALSE
    BY DEF Lingers
  <1>3. Resumes([c EXCEPT !.gen = g, !.timer = t], FALSE)
    BY DEF Resumes, Fields
  <1> QED BY <1>1, <1>2, <1>3, ContinuesResumes

\* A restored pause, and the steps that linger.
LEMMA LingeringResumes ==
    ASSUME DOMAIN call = Fields, Resumes(call, TRUE), call.index < End => call.index \in DOMAIN Steps,
           RunRestored \/ RunPause \/ RunTimewait
    PROVE  ResumeInv'
  <1> DEFINE i == call.index
             t == Timer("pause", call.gen + 1)
             h == [id |-> t.id, kind |-> t.kind]
             c == [call EXCEPT !.restored = FALSE, !.index = @ + 1]
             d == [c EXCEPT !.gen = t.gen, !.pause = i, !.timer = h]
             paused(at) == [call EXCEPT !.index = at, !.pause = i]
             moved(at) == [call EXCEPT !.index = at]
             over == [call EXCEPT !.completing = TRUE, !.index = @ + 1]
  <1>1. CASE RunRestored
    <2>1. call.restored /\ i < End /\ (Continues(c) \/ Continues(d))
      BY <1>1 DEF RunRestored
    <2>2. DOMAIN c = Fields /\ Keeps(call, c)
      BY DEF Keeps, Fields
    <2> HIDE DEF c, t, h
    <2>3. /\ d.pause = i /\ d.pausedaddr = call.pausedaddr /\ d.retaddr = call.retaddr
          /\ ~d.restored
      BY <2>2 DEF Keeps, Fields
    <2> HIDE DEF d
    <2>4. Resumes(d, running')
      BY <2>1, <2>3 DEF Resumes
    <2> QED BY <2>1, <2>2, <2>4, KeepsResumes, ContinuesResumes
  <1>2. CASE RunPause
    <2>1. ~call.restored /\ IsPause(i)
      BY <1>2 DEF RunPause, At, IsPause
    <2>2. PICK at : Lingers(paused(at), "pause")
      BY <1>2 DEF RunPause
    <2>3. DOMAIN paused(at) = Fields /\ Resumes(paused(at), FALSE)
      BY <2>1 DEF Resumes, Fields
    <2> HIDE DEF paused
    <2> QED BY <2>2, <2>3, LingersResumes
  <1>3. CASE RunTimewait
    <2>1. ~call.restored
      BY <1>3 DEF RunTimewait, At
    <2>2. (\E at : Lingers(moved(at), "pause")) \/ Lingers(over, "timewait")
      BY <1>3 DEF RunTimewait
    <2>3. /\ \A at : DOMAIN moved(at) = Fields /\ Resumes(moved(at), FALSE)
          /\ DOMAIN over = Fields /\ Resumes(over, FALSE)
      BY <2>1 DEF Resumes, Fields
    <2> HIDE DEF moved, over
    <2> QED BY <2>2, <2>3, LingersResumes
  <1> QED BY <1>1, <1>2, <1>3

LEMMA RunOnResumes ==
    ASSUME Restoring, DOMAIN call = Fields, Resumes(call, TRUE), call.index \in DOMAIN Steps, RunOn
    PROVE  ResumeInv'
  <1> DEFINE d(at) == [call EXCEPT !.index = at, !.restored = Restores(call.index)]
  <1>1. running' /\ Here.kind \in {"nop", "sendCmd", "label"} /\ running' = running
    BY DEF RunOn, At, Here
  <1>2. PICK at \in IF At("label") THEN {call.index + 1} ELSE Onward : Continues(d(at))
    BY DEF RunOn
  <1>3. /\ d(at).pause = call.pause /\ d(at).pausedaddr = call.pausedaddr /\ d(at).index = at
        /\ d(at).retaddr = call.retaddr /\ d(at).restored = Restores(call.index)
    BY DEF Fields
  <1> HIDE DEF d
  <1>4. CASE ~Restores(call.index)
    <2>1. Keeps(call, d(at))
      BY <1>3, <1>4 DEF Keeps
    <2> QED BY <1>2, <2>1, KeepsResumes
  <1>5. CASE Restores(call.index)
    <2>1. Steps[call.index].restores /\ call.pausedaddr /\ ~At("label")
      BY <1>5 DEF Restores, Restoring, At
    <2>2. at \in Destinations(call.index, call.retaddr)
      BY <1>2, <2>1 DEF Onward
    <2>3. IsPause(at) /\ MessageIndex(at) = call.retaddr
      BY <2>1, <2>2, ReturnsToPause
    <2>4. Resumes(d(at), running')
      BY <1>1, <1>3, <2>3 DEF Resumes
    <2> QED BY <1>2, <2>4, ContinuesResumes
  <1> QED BY <1>4, <1>5

LEMMA AdvanceResumes ==
    ASSUME Restoring, Types, HeldInv, ResumeInv, Advance
    PROVE  ResumeInv'
  <1>1. running = TRUE /\ Live
    BY AdvanceRuns DEF Types
  <1>2. /\ DOMAIN call = Fields /\ Resumes(call, TRUE)
        /\ call.index < End => call.index \in DOMAIN Steps
    <2>1. call \in CallType /\ Resumes(call, TRUE)
      BY <1>1 DEF HeldInv, Fitting, ResumeInv
    <2>2. call.index \in 1..End /\ DOMAIN call = Fields
      BY <2>1 DEF CallType, Fields
    <2>3. End = Len(Steps) + 1 /\ DOMAIN Steps = 1..Len(Steps) /\ Len(Steps) \in Nat
      BY TheSteps
    <2>4. call.index < End => call.index \in DOMAIN Steps
      BY <2>2, <2>3
    <2> QED BY <2>1, <2>2, <2>4
  <1>3. CASE RunEnd \/ RunFailing \/ RunSendFails
    BY <1>3, EndsResumes DEF RunEnd, RunFailing, RunSendFails
  <1>4. CASE RunSkipped
    <2>1. ~call.restored /\ Continues([call EXCEPT !.index = @ + 1])
      BY <1>4 DEF RunSkipped
    <2>2. Keeps(call, [call EXCEPT !.index = @ + 1])
      BY <1>2, <2>1 DEF Keeps, Fields
    <2> QED BY <1>2, <2>1, <2>2, KeepsResumes
  <1>5. RunSend \/ RunOn => call.index < End
    BY DEF RunSend, RunOn, At
  <1> QED BY <1>2, <1>3, <1>4, <1>5, RunSendResumes, RunRecvResumes, LingeringResumes,
             RunOnResumes DEF Advance

\* The handlers: a call that waits restores nothing, and a receive neither.
LEMMA InterruptedResumes ==
    ASSUME Restoring, NEW c, DOMAIN c = Fields, Resumes(c, FALSE), OnInterrupted(c)
    PROVE  ResumeInv'
  <1> DEFINE d(r, p) == [c EXCEPT !.retaddr = r, !.pausedaddr = p, !.timer = None, !.gen = @ + 1,
                                  !.pause = 0, !.waiting = FALSE, !.awaitingCmd = FALSE,
                                  !.index = Handler]
             at == IF c.pause # 0 THEN c.pause ELSE c.index
  <1>1. Continues(d(MessageIndex(at), Pausedaddr /\ c.pause # 0))
    BY DEF OnInterrupted, Interrupted, Restoring
  <1>2. PICK r, p : Continues(d(r, p)) /\ r = MessageIndex(at) /\ p = (Pausedaddr /\ c.pause # 0)
    BY <1>1
  <1>3. /\ d(r, p).retaddr = r /\ d(r, p).pausedaddr = p /\ d(r, p).pause = 0 /\ ~d(r, p).restored
    BY DEF Fields, Resumes
  <1>4. p => IsPause(c.pause) /\ r = MessageIndex(c.pause)
    BY <1>2 DEF Resumes
  <1> HIDE DEF d, at
  <1>5. Resumes(d(r, p), running')
    BY <1>3, <1>4 DEF Resumes
  <1> QED BY <1>2, <1>5, ContinuesResumes

LEMMA MatchedResumes ==
    ASSUME Restoring, NEW c, DOMAIN c = Fields, Resumes(c, FALSE), NEW si, NEW m,
           si \in DOMAIN Steps /\ Steps[si].kind = "recv", OnMatched(c, si, m)
    PROVE  ResumeInv'
  <1> DEFINE d == Matched(c, si, m)
             onward(at) == [d EXCEPT !.index = at]
             waits(w) == [d EXCEPT !.index = w.index, !.waiting = w.waiting,
                                   !.awaitingCmd = w.awaitingCmd]
  <1>1. ~StillRestored(c, si)
    BY DEF StillRestored, Restoring, Resumes
  <1>2. /\ d.pause = c.pause /\ d.pausedaddr = c.pausedaddr /\ d.retaddr = c.retaddr
        /\ ~d.restored /\ DOMAIN d = Fields
    <2>1. PICK r : r = StillRestored(c, si)
      OBVIOUS
    <2>2. PICK n, f : d = [c EXCEPT !.retrans = None, !.timer = None, !.gen = @ + 1,
                                    !.waiting = FALSE, !.awaitingCmd = FALSE, !.index = si + 1,
                                    !.lastKey = m, !.restored = r, !.inviteNum = n, !.finals = f]
      BY <2>1 DEF Matched
    <2> HIDE DEF d
    <2> QED BY <1>1, <2>1, <2>2 DEF Fields
  <1>3. \/ \E at : Continues(onward(at))
        \/ \E wait : Resumed(d, wait)
        \/ Ends("failed")
    BY DEF OnMatched
  <1> HIDE DEF d
  <1>4. ASSUME NEW w, Resumed(d, w) PROVE \E e : Continues(e) /\ Keeps(c, e)
    <2>1. \/ \E g, t : Continues([waits(w) EXCEPT !.gen = g, !.timer = t])
          \/ Continues(waits(w))
      BY <1>4 DEF Resumed
    <2>2. DOMAIN waits(w) = Fields /\ Keeps(c, waits(w))
      BY <1>2 DEF Keeps, Fields
    <2> HIDE DEF waits
    <2>3. \A g, t : Keeps(c, [waits(w) EXCEPT !.gen = g, !.timer = t])
      BY <2>2 DEF Keeps, Fields
    <2> QED BY <2>1, <2>2, <2>3
  <1>5. \A at : Keeps(c, onward(at))
    BY <1>2 DEF Keeps, Fields
  <1> HIDE DEF onward
  <1> QED BY <1>3, <1>4, <1>5, KeepsResumes, EndsResumes

LEMMA DeliverResumes ==
    ASSUME Restoring, Types, NEW c \in CallType, Resumes(c, FALSE), NEW m, Deliver(c, m)
    PROVE  ResumeInv'
  <1> DEFINE d == [c EXCEPT !.lastKey = m]
             scan == ScanCall(c, m)
  <1>1. \/ scan.found = "forward" /\ OnMatched(c, scan.at, m)
        \/ Continues(c) \/ Continues(d)
        \/ OnInterrupted(c)
        \/ \E o : Ends(o)
    BY DEF Deliver, OnUnexpected
  <1>2. DOMAIN c = Fields /\ c.index \in 1..End
    BY DEF CallType, Fields
  <1>3. scan.found = "forward" => scan.at \in DOMAIN Steps /\ Steps[scan.at].kind = "recv"
    <2>1. PICK waiting : waiting = (c.waiting \/ c.index = 1)
      OBVIOUS
    <2>2. waiting \in BOOLEAN
      BY <2>1
    <2>3. scan = Scan(Steps, c.branched, c.index, waiting, m, c.inviteNum)
      BY <2>1 DEF ScanCall
    <2> HIDE DEF scan
    <2> QED BY <1>2, <2>2, <2>3, TheSteps, ForwardScans
  <1>4. Keeps(c, c) /\ Keeps(c, d)
    BY <1>2 DEF Keeps, Resumes, Fields
  <1> HIDE DEF d, scan
  <1> QED BY <1>1, <1>2, <1>3, <1>4, MatchedResumes, InterruptedResumes, KeepsResumes, EndsResumes

LEMMA TimesOutResumes ==
    ASSUME NEW c, NEW run, Resumes(c, run), NEW d, DOMAIN d = Fields, Keeps(c, d), NEW label,
           TimesOut(d, label)
    PROVE  ResumeInv'
  <1> DEFINE e == [d EXCEPT !.waiting = FALSE, !.awaitingCmd = FALSE, !.index = label]
  <1>1. Ends("failed") \/ Continues(e)
    BY DEF TimesOut
  <1>2. Keeps(c, e)
    BY DEF Keeps, Fields
  <1> HIDE DEF e
  <1> QED BY <1>1, <1>2, KeepsResumes, EndsResumes

LEMMA HandleResumes ==
    ASSUME Restoring, Types, HeldInv, ResumeInv, Handle
    PROVE  ResumeInv'
  <1>1. running = FALSE
    BY DEF Types, Handle, OnPacketNoCall, OnPacket, OnWaitTimer, OnRetransTimer, OnTwinCmd,
           OnClosed, Receives
  <1>2. Live => call \in CallType /\ DOMAIN call = Fields /\ Resumes(call, FALSE)
    BY <1>1 DEF HeldInv, Fitting, ResumeInv, CallType, Fields
  <1>3. CASE Ignore
    BY <1>3 DEF Ignore, ResumeInv, Live
  <1>4. CASE OnPacketNoCall /\ ~Ignore
    <2>1. \E m : Deliver(NewCall, m)
      BY <1>4 DEF OnPacketNoCall
    <2>2. NewCall \in CallType /\ Resumes(NewCall, FALSE)
      <3>1. NewCall \in CallType
        BY NewCallFits DEF Fitting
      <3> QED BY <3>1 DEF Resumes, NewCall
    <2> QED BY <2>1, <2>2, DeliverResumes
  <1>5. CASE OnPacket /\ ~Ignore
    <2>1. Live /\ \E m : Deliver(call, m)
      BY <1>5 DEF OnPacket
    <2> QED BY <1>2, <2>1, DeliverResumes
  <1>6. CASE OnWaitTimer /\ ~Ignore
    <2> DEFINE c == [call EXCEPT !.timer = None]
               w == [c EXCEPT !.waiting = FALSE, !.awaitingCmd = FALSE]
               p == [c EXCEPT !.pause = 0]
    <2>1. Live
      BY <1>6 DEF OnWaitTimer, Stale
    <2>2. (\E label : TimesOut(c, label)) \/ Continues(w) \/ Continues(p) \/ Ends("successful")
      BY <1>6 DEF OnWaitTimer, OnRecvTimeout
    <2>3. DOMAIN c = Fields /\ Keeps(call, c)
      BY <1>2, <2>1 DEF Keeps, Fields, Resumes
    <2> HIDE DEF c
    <2>4. Keeps(call, w) /\ Keeps(call, p)
      BY <2>3 DEF Keeps, Fields
    <2> HIDE DEF w, p
    <2> QED BY <1>2, <2>1, <2>2, <2>3, <2>4, TimesOutResumes, KeepsResumes, EndsResumes
  <1>7. CASE OnRetransTimer /\ ~Ignore
    <2> DEFINE c == [call EXCEPT !.retrans = None, !.timer = None, !.gen = @ + 1,
                                 !.deadline = FALSE, !.pause = 0]
               d(id) == [call EXCEPT !.retrans.attempt = @ + 1, !.retrans.id = id]
    <2>1. Live
      BY <1>7 DEF OnRetransTimer
    <2>2. (\E label : TimesOut(c, label)) \/ (\E id : Continues(d(id))) \/ Ends("failed")
      BY <1>7 DEF OnRetransTimer, OnRetransExhausted
    <2>3. DOMAIN c = Fields /\ Keeps(call, c)
      BY <1>2, <2>1 DEF Keeps, Fields, Resumes
    <2>4. \A id : Keeps(call, d(id))
      BY <1>2, <2>1 DEF Keeps, Fields, Resumes
    <2> HIDE DEF c, d
    <2> QED BY <1>2, <2>1, <2>2, <2>3, <2>4, TimesOutResumes, KeepsResumes, EndsResumes
  <1>8. CASE OnTwinCmd /\ ~Ignore
    <2> DEFINE d(at, r) == [call EXCEPT !.awaitingCmd = FALSE, !.waiting = FALSE,
                                  !.timer = None, !.gen = @ + 1, !.restored = r, !.index = at]
    <2>1. Live
      BY <1>8 DEF OnTwinCmd
    <2>2. \/ Ends("failed")
          \/ \E i \in TakesCmd(call.index) : \E at : Continues(d(at, StillRestored(call, i)))
      BY <1>8 DEF OnTwinCmd
    <2>3. \A i \in TakesCmd(call.index) : ~StillRestored(call, i)
      <3>1. call.index \in 1..End
        BY <1>2, <2>1 DEF CallType
      <3>2. \A i \in TakesCmd(call.index) : i \in DOMAIN Steps /\ Steps[i].kind = "recvCmd"
        BY <3>1, TheSteps DEF TakesCmd
      <3> QED BY <1>2, <2>1, <3>2 DEF StillRestored, Restoring, Resumes
    <2>4. ASSUME NEW at, NEW r, ~r PROVE Keeps(call, d(at, r))
      BY <1>2, <2>1, <2>4 DEF Keeps, Fields
    <2> HIDE DEF d
    <2> QED BY <1>2, <2>1, <2>2, <2>3, <2>4, KeepsResumes, EndsResumes
  <1>9. CASE OnClosed /\ ~Ignore
    BY <1>9, EndsResumes DEF OnClosed
  <1> QED BY <1>3, <1>4, <1>5, <1>6, <1>7, <1>8, <1>9 DEF Handle

LEMMA NextResumes ==
    ASSUME Restoring, Types, HeldInv, ResumeInv, [Next]_vars
    PROVE  ResumeInv'
  <1>1. CASE ~Advance /\ ~Handle
    <2>1. UNCHANGED <<call, running>>
      BY <1>1 DEF Next, PeerSends, TwinSends, ConnectionCloses, Arrives, Fire, DeadExpires, Rest, vars
    <2> QED BY <2>1 DEF ResumeInv, Live
  <1> QED BY <1>1, AdvanceResumes, HandleResumes

(* In a scenario whose handlers of unexpected messages end by restoring the *)
(* pause and returning, the deadline they bring back is served in place of  *)
(* the pause they return to, and of no other step, whatever interrupts the  *)
(* call, and wherever.                                                      *)
THEOREM PausesAreAlwaysRestored == ASSUME Distinct, Restoring PROVE Spec => []PauseIsRestored
  <1> DEFINE I == TimersAreThere /\ ResumeInv
  <1>1. Init => I
    <2>1. Init => ResumeInv
      BY DEF Init, ResumeInv, Resumes, Live, NewCall
    <2> QED BY <2>1, InitFits
  <1>2. I /\ [Next]_vars => I'
    <2>1. TimersAreThere => Types /\ HeldInv
      BY DEF TimersAreThere, IInv, CountInv
    <2> QED BY <2>1, NextTimers, NextResumes
  <1>3. I => PauseIsRestored
    BY DEF ResumeInv, Resumes, IsPause, PauseIsRestored
  <1> QED BY <1>1, <1>2, <1>3, PTL DEF Spec

-----------------------------------------------------------------------------
(* The schedule of an unanswered message (RetransSchedule).                *)

Rt(T2, MaxShift) == INSTANCE RetransSchedule

\* What no prover computes of powers.
Doubles == 2 ^ 0 = 1 /\ \A n \in Nat : 2 ^ n \in Nat /\ 2 ^ (n + 1) = 2 * 2 ^ n

Schedules == [base : Nat, invite : BOOLEAN, maxRetrans : Nat, enabled : BOOLEAN]
Courses == [sent : Seq(Nat), attempt : Nat \ {0}, now : Nat, over : BOOLEAN]

\* The wait doubles up to the shift's bound; past it, what it was doubled from stays.
LEMMA WaitDoubles ==
    ASSUME NEW T2 \in Nat \ {0}, NEW MS \in Nat, Doubles, T2 <= 2 ^ MS,
           NEW s \in Schedules, s.base # 0
    PROVE  LET W(k) == Rt(T2, MS)!Wait(s, k)
               cap == IF s.base < T2 THEN T2 ELSE s.base
           IN  /\ W(1) = s.base
               /\ \A n \in Nat \ {0} : W(n) \in Nat
               /\ \A n \in Nat \ {0, 1} :
                     W(n) = IF ~s.invite /\ 2 * W(n - 1) > cap THEN cap
                            ELSE IF n > MS + 1 THEN W(n - 1) ELSE 2 * W(n - 1)
  <1> DEFINE W(k) == Rt(T2, MS)!Wait(s, k)
             cap == IF s.base < T2 THEN T2 ELSE s.base
             P(k) == 2 ^ (IF k < MS THEN k ELSE MS)
             I(k) == s.base * P(k - 1)
  <1>0. s.base \in Nat \ {0} /\ s.invite \in BOOLEAN /\ cap \in Nat \ {0}
    BY DEF Schedules
  <1>1. \A k : W(k) = IF s.invite THEN I(k)
                      ELSE IF I(k) < cap THEN I(k) ELSE cap
    BY <1>0 DEF Rt!Wait, Rt!Lesser, Rt!Greater
  <1>2. \A k \in Nat : P(k) \in Nat
    BY DEF Doubles
  <1>3. P(0) = 1
    <2>1. CASE MS = 0
      BY <2>1 DEF Doubles
    <2>2. CASE 0 < MS
      BY <2>2 DEF Doubles
    <2> QED BY <2>1, <2>2
  <1>4. \A k \in Nat : P(k + 1) = IF k < MS THEN 2 * P(k) ELSE P(k)
    <2> SUFFICES ASSUME NEW k \in Nat PROVE P(k + 1) = IF k < MS THEN 2 * P(k) ELSE P(k)
      OBVIOUS
    <2>1. CASE k + 1 < MS
      BY <2>1 DEF Doubles
    <2>2. CASE k + 1 = MS
      BY <2>2 DEF Doubles
    <2>3. CASE k >= MS
      BY <2>3
    <2> QED BY <2>1, <2>2, <2>3
  <1>5. P(MS) = 2 ^ MS
    OBVIOUS
  <1>6. \A k \in Nat : k >= MS => P(k) = 2 ^ MS
    OBVIOUS
  <1> HIDE DEF W, P, cap
  <1>7. \A k \in Nat \ {0} : I(k) \in Nat
    BY <1>0, <1>2
  <1>8. I(1) = s.base
    BY <1>0, <1>3
  <1>9. \A n \in Nat \ {0, 1} : I(n) = IF n <= MS + 1 THEN 2 * I(n - 1) ELSE I(n - 1)
    <2> SUFFICES ASSUME NEW n \in Nat \ {0, 1}
                 PROVE  I(n) = IF n <= MS + 1 THEN 2 * I(n - 1) ELSE I(n - 1)
      OBVIOUS
    <2>1. n - 2 \in Nat /\ (n - 2) + 1 = n - 1 /\ (n - 1) - 1 = n - 2
      OBVIOUS
    <2>2. P(n - 1) = IF n - 2 < MS THEN 2 * P(n - 2) ELSE P(n - 2)
      BY <1>4, <2>1
    <2>3. P(n - 2) \in Nat
      BY <1>2, <2>1
    <2> QED BY <1>0, <2>1, <2>2, <2>3
  <1>10. \A n \in Nat \ {0} : n > MS => I(n) >= cap
    <2> SUFFICES ASSUME NEW n \in Nat \ {0}, n > MS PROVE I(n) >= cap
      OBVIOUS
    <2>1. P(n - 1) = 2 ^ MS /\ P(n - 1) \in Nat /\ P(n - 1) >= T2
      BY <1>2, <1>6 DEF Doubles
    <2>2. \A a, b \in Nat \ {0} : a * b >= a /\ a * b >= b
      <3> SUFFICES ASSUME NEW a \in Nat \ {0}, NEW b \in Nat \ {0} PROVE a * b >= a /\ a * b >= b
        OBVIOUS
      <3>1. PICK c \in Nat, d \in Nat : a = c + 1 /\ b = d + 1
        <4>1. a - 1 \in Nat /\ b - 1 \in Nat /\ a = (a - 1) + 1 /\ b = (b - 1) + 1
          OBVIOUS
        <4> QED BY <4>1
      <3>2. a * b = c * d + c + d + 1 /\ c * d \in Nat
        BY <3>1
      <3> QED BY <3>1, <3>2
    <2>3. P(n - 1) \in Nat \ {0}
      BY <2>1
    <2>4. I(n) >= s.base /\ I(n) >= P(n - 1)
      BY <1>0, <2>2, <2>3
    <2>5. I(n) \in Nat
      BY <1>7
    <2> HIDE DEF I
    <2> QED BY <1>0, <2>1, <2>4, <2>5 DEF cap
  <1> HIDE DEF I
  <1>11. W(1) = s.base
    BY <1>0, <1>1, <1>8 DEF cap
  <1>12. \A n \in Nat \ {0} : W(n) \in Nat
    BY <1>0, <1>1, <1>7
  <1>13. ASSUME NEW n \in Nat \ {0, 1}
         PROVE  W(n) = IF ~s.invite /\ 2 * W(n - 1) > cap THEN cap
                       ELSE IF n > MS + 1 THEN W(n - 1) ELSE 2 * W(n - 1)
    <2>1. n - 1 \in Nat \ {0} /\ I(n) \in Nat /\ I(n - 1) \in Nat /\ n \in Nat \ {0}
      BY <1>7
    <2>2. I(n) = IF n <= MS + 1 THEN 2 * I(n - 1) ELSE I(n - 1)
      BY <1>9
    <2>3. n > MS + 1 => I(n) >= cap /\ I(n - 1) >= cap
      BY <1>10, <2>1
    <2> QED BY <1>0, <1>1, <2>1, <2>2, <2>3
  <1> QED BY <1>11, <1>12, <1>13 DEF W, cap


LEMMA WaitIsNumber ==
    ASSUME NEW T2 \in Nat, NEW MS \in Nat, Doubles, NEW s \in Schedules, NEW k \in Nat \ {0}
    PROVE  Rt(T2, MS)!Wait(s, k) \in Nat
  <1> DEFINE e == IF k - 1 < MS THEN k - 1 ELSE MS
             p == 2 ^ e
  <1>1. s.base \in Nat /\ e \in Nat
    BY DEF Schedules
  <1>2. p \in Nat
    <2> HIDE DEF e
    <2> QED BY <1>1 DEF Doubles
  <1>3. Rt(T2, MS)!Wait(s, k) = IF s.invite THEN s.base * p
            ELSE IF s.base * p < (IF T2 < s.base THEN s.base ELSE T2) THEN s.base * p
            ELSE IF T2 < s.base THEN s.base ELSE T2
    BY DEF Rt!Wait, Rt!Lesser, Rt!Greater
  <1>4. s.base * p \in Nat
    <2> HIDE DEF p
    <2> QED BY <1>1, <1>2
  <1> HIDE DEF p
  <1> QED BY <1>1, <1>3, <1>4

\* A fire of the timer, where the message is not given up yet.
Fired(T2, MS, s, c) == IF c.over THEN c ELSE Rt(T2, MS)!OnRetransTimer(s, c)

LEMMA FiresStay ==
    ASSUME NEW T2 \in Nat, NEW MS \in Nat, Doubles, NEW s \in Schedules, NEW c \in Courses
    PROVE  Fired(T2, MS, s, c) \in Courses
  <1> DEFINE w == Rt(T2, MS)!Wait(s, c.attempt)
             now == c.now + w
  <1>1. c.attempt \in Nat \ {0} /\ c.now \in Nat /\ c.sent \in Seq(Nat) /\ c.over \in BOOLEAN
    BY DEF Courses
  <1>2. w \in Nat
    BY <1>1, WaitIsNumber
  <1> HIDE DEF w
  <1>3. now \in Nat
    BY <1>1, <1>2
  <1>4. Rt(T2, MS)!OnRetransTimer(s, c) =
            IF Rt(T2, MS)!Allows(s, c.attempt)
            THEN [sent |-> Append(c.sent, now), attempt |-> c.attempt + 1, now |-> now, over |-> FALSE]
            ELSE [c EXCEPT !.now = now, !.over = TRUE]
    BY DEF Rt!OnRetransTimer, w
  <1> HIDE DEF now
  <1>5. Append(c.sent, now) \in Seq(Nat) /\ c.attempt + 1 \in Nat \ {0}
    BY <1>1, <1>3
  <1>6. [sent |-> Append(c.sent, now), attempt |-> c.attempt + 1, now |-> now, over |-> FALSE] \in Courses
    BY <1>3, <1>5 DEF Courses
  <1>7. [c EXCEPT !.now = now, !.over = TRUE] \in Courses
    BY <1>3 DEF Courses
  <1> QED BY <1>4, <1>6, <1>7 DEF Fired

\* A message from its first copy on, fire by fire.
Course(v, T2, MS, s) ==
    /\ v \in [Nat -> Courses] /\ v[0] = Rt(T2, MS)!Sent(s)
    /\ \A n \in Nat : v[n + 1] = Fired(T2, MS, s, v[n])

\* What becomes of an unanswered message is such a course.
LEMMA UnansweredIs ==
    ASSUME NEW T2 \in Nat, NEW MS \in Nat, Doubles, NEW s \in Schedules
    PROVE  \E v : Course(v, T2, MS, s) /\ Rt(T2, MS)!Unanswered(s) = v[s.maxRetrans + 2]
  <1> DEFINE first == Rt(T2, MS)!Sent(s)
             F == [c \in Courses |-> Fired(T2, MS, s, c)]
             next(w, n) == IF n = 0 THEN first ELSE Fired(T2, MS, s, w[n - 1])
             Solves(w) == w = [n \in Nat |-> next(w, n)]
             course == CHOOSE w : Solves(w)
  <1>1. first \in Courses
    <2>1. <<0>> \in Seq(Nat) /\ (~s.enabled) \in BOOLEAN
      BY DEF Schedules
    <2> QED BY <2>1 DEF Rt!Sent, Courses
  <1>2. \A c \in Courses : F[c] = Fired(T2, MS, s, c) /\ F[c] \in Courses
    BY FiresStay
  <1>3. PICK v : Iteration(v, Courses, F, first)
    <2>1. \A c \in Courses : F[c] \in Courses
      BY <1>2
    <2> HIDE DEF F, first, next, Solves
    <2> QED BY <1>1, <2>1, IterationExists
  <1>4. \A n \in Nat : v[n] = next(v, n)
    <2>1. ASSUME NEW n \in Nat, n # 0 PROVE v[n] = Fired(T2, MS, s, v[n - 1])
      <3>1. n - 1 \in Nat /\ v[n - 1] \in Courses
        BY <1>3, <2>1 DEF Iteration
      <3>2. v[n] = F[v[n - 1]]
        BY <1>3, <2>1 DEF Iteration
      <3> HIDE DEF F
      <3> QED BY <1>2, <3>1, <3>2
    <2> HIDE DEF F
    <2> QED BY <1>3, <2>1 DEF Iteration
  <1>5. Solves(v)
    <2>1. v = [n \in Nat |-> v[n]]
      BY <1>3 DEF Iteration
    <2> HIDE DEF next
    <2> QED BY <1>4, <2>1
  <1>6. Rt(T2, MS)!Unanswered(s) = course[s.maxRetrans + 2]
    BY DEF Rt!Unanswered, Fired
  <1>7. Solves(course)
    <2> HIDE DEF Solves
    <2> QED BY <1>5
  <1> HIDE DEF course
  <1>8. \A n \in Nat : course[n] = next(course, n)
    BY <1>7
  <1>9. course[0] = first
    BY <1>8
  <1>10. \A n \in Nat : course[n + 1] = Fired(T2, MS, s, course[n])
    <2>1. \A n \in Nat : n + 1 \in Nat /\ n + 1 # 0 /\ (n + 1) - 1 = n
      OBVIOUS
    <2> QED BY <1>8, <2>1
  <1> HIDE DEF Solves, next, first, F
  <1>11. \A n \in Nat : course[n] \in Courses
    <2> DEFINE T == {n \in Nat : course[n] \notin Courses}
    <2>1. SUFFICES ASSUME T # {} PROVE FALSE
      OBVIOUS
    <2>2. PICK n \in T : \A k \in T : n <= k
      <3>1. T \in SUBSET Nat
        OBVIOUS
      <3> HIDE DEF T
      <3> QED BY <2>1, <3>1, LeastNatural
    <2>3. n \in Nat /\ course[n] \notin Courses /\ n # 0
      BY <1>1, <1>9, <2>2
    <2>4. n - 1 \in Nat /\ (n - 1) + 1 = n /\ ~(n <= n - 1)
      BY <2>3
    <2>5. course[n - 1] \in Courses
      BY <2>2, <2>4
    <2> HIDE DEF T
    <2> QED BY <1>10, <2>3, <2>4, <2>5, FiresStay
  <1>12. course \in [Nat -> Courses]
    <2>1. course = [n \in Nat |-> course[n]]
      BY <1>7 DEF Solves
    <2> QED BY <1>11, <2>1
  <1>13. Course(course, T2, MS, s)
    BY <1>9, <1>10, <1>12 DEF Course, first
  <1> QED BY <1>6, <1>13

LEMMA Appended ==
    ASSUME NEW q \in Seq(Nat), NEW x \in Nat
    PROVE  /\ Len(Append(q, x)) = Len(q) + 1 /\ Append(q, x)[Len(q) + 1] = x
           /\ \A k \in 1..Len(q) : Append(q, x)[k] = q[k] /\ q[k] \in Nat
  OBVIOUS

\* The copies that went out before the n-th fire, each its wait after the one before.
Copies(v, T2, MS, s, n) ==
    /\ v[n].over = FALSE /\ v[n].attempt = n + 1
    /\ Len(v[n].sent) = n + 1 /\ v[n].sent[1] = 0 /\ v[n].now = v[n].sent[n + 1]
    /\ \A k \in 1..n : v[n].sent[k + 1] - v[n].sent[k] = Rt(T2, MS)!Wait(s, k)

LEMMA CopyFollows ==
    ASSUME NEW T2 \in Nat, NEW MS \in Nat, Doubles, NEW s \in Schedules, s.enabled,
           NEW v, Course(v, T2, MS, s), NEW n \in 1..s.maxRetrans, Copies(v, T2, MS, s, n - 1)
    PROVE  Copies(v, T2, MS, s, n)
  <1> DEFINE c == v[n - 1]
             w == Rt(T2, MS)!Wait(s, n)
             now == c.now + w
             sent == Append(c.sent, now)
  <1>1. n \in Nat \ {0} /\ n - 1 \in Nat /\ (n - 1) + 1 = n /\ 1 \in 1..n /\ n \in 1..n
    BY DEF Schedules
  <1>2. c \in Courses /\ c.sent \in Seq(Nat) /\ c.now \in Nat
    BY <1>1 DEF Courses, Course
  <1>3. w \in Nat
    BY <1>1, WaitIsNumber
  <1>4. /\ c.over = FALSE /\ c.attempt = n /\ Len(c.sent) = n /\ c.sent[1] = 0 /\ c.now = c.sent[n]
        /\ \A k \in 1..n - 1 : c.sent[k + 1] - c.sent[k] = Rt(T2, MS)!Wait(s, k)
    BY <1>1 DEF Copies
  <1>5. Rt(T2, MS)!Allows(s, n)
    BY DEF Rt!Allows
  <1>6. v[n] = Fired(T2, MS, s, c)
    BY <1>1 DEF Course
  <1> HIDE DEF c
  <1>7. v[n] = [sent |-> sent, attempt |-> n + 1, now |-> now, over |-> FALSE]
    BY <1>4, <1>5, <1>6 DEF Fired, Rt!OnRetransTimer
  <1> HIDE DEF w
  <1>8. now \in Nat
    BY <1>2, <1>3
  <1> HIDE DEF now
  <1>9. /\ Len(sent) = n + 1 /\ sent[n + 1] = now
        /\ \A k \in 1..n : sent[k] = c.sent[k] /\ c.sent[k] \in Nat
    <2>1. /\ Len(sent) = Len(c.sent) + 1 /\ sent[Len(c.sent) + 1] = now
          /\ \A k \in 1..Len(c.sent) : sent[k] = c.sent[k] /\ c.sent[k] \in Nat
      BY <1>2, <1>8, Appended
    <2> QED BY <1>4, <2>1
  <1> HIDE DEF sent
  <1>10. \A k \in 1..n : sent[k + 1] - sent[k] = Rt(T2, MS)!Wait(s, k)
    <2> SUFFICES ASSUME NEW k \in 1..n PROVE sent[k + 1] - sent[k] = Rt(T2, MS)!Wait(s, k)
      OBVIOUS
    <2>1. CASE k = n
      <3>1. sent[n + 1] - sent[n] = w
        BY <1>1, <1>2, <1>3, <1>4, <1>9 DEF now
      <3> QED BY <2>1, <3>1 DEF w
    <2>2. CASE k # n
      <3>1. k \in 1..n - 1 /\ k + 1 \in 1..n
        BY <1>1, <2>2
      <3> QED BY <1>4, <1>9, <3>1
    <2> QED BY <2>1, <2>2
  <1>11. sent[1] = 0
    BY <1>1, <1>4, <1>9
  <1>12. v[n].sent = sent /\ v[n].attempt = n + 1 /\ v[n].now = now /\ v[n].over = FALSE
    BY <1>7
  <1> QED BY <1>9, <1>10, <1>11, <1>12 DEF Copies

LEMMA CopiesFollow ==
    ASSUME NEW T2 \in Nat, NEW MS \in Nat, Doubles, NEW s \in Schedules, s.enabled,
           NEW v, Course(v, T2, MS, s)
    PROVE  \A n \in 0..s.maxRetrans : Copies(v, T2, MS, s, n)
  <1> DEFINE R == s.maxRetrans
             T == {n \in 0..R : ~Copies(v, T2, MS, s, n)}
  <1>0. R \in Nat
    BY DEF Schedules
  <1>1. SUFFICES ASSUME T # {} PROVE FALSE
    OBVIOUS
  <1>2. PICK n \in T : \A k \in T : n <= k
    <2>1. T \in SUBSET Nat
      OBVIOUS
    <2> HIDE DEF T
    <2> QED BY <1>1, <2>1, LeastNatural
  <1>3. Copies(v, T2, MS, s, 0)
    <2>1. v[0] = [sent |-> <<0>>, attempt |-> 1, now |-> 0, over |-> FALSE]
      BY DEF Course, Rt!Sent
    <2>2. v[0].sent = <<0>> /\ v[0].attempt = 1 /\ v[0].now = 0 /\ v[0].over = FALSE
      BY <2>1
    <2> QED BY <2>2 DEF Copies
  <1>4. n \in 0..R /\ ~Copies(v, T2, MS, s, n) /\ n # 0
    BY <1>2, <1>3
  <1>5. n \in 1..R /\ n - 1 \in 0..R /\ ~(n <= n - 1)
    BY <1>0, <1>4
  <1>6. Copies(v, T2, MS, s, n - 1)
    BY <1>2, <1>5
  <1> QED BY <1>4, <1>5, <1>6, CopyFollows

\* An unanswered message goes out at the instants its schedule says, whatever its base
\* and its caps: each gap is twice the one before it, or the cap; as many copies are
\* sent as both caps allow; and it is given up a last gap after its last copy
\* (RetransSchedule, on_retrans_timer).  The bound of the doublings is not in the
\* way, as T2 is smaller: 4000 ms against 2 ^ 16.
THEOREM SendsAreAlwaysInTime ==
    ASSUME NEW T2 \in Nat \ {0}, NEW MS \in Nat, Doubles, T2 <= 2 ^ MS,
           NEW base \in Nat, NEW invite \in BOOLEAN, NEW noRetrans \in BOOLEAN,
           NEW caps \in [invite : Nat, nonInvite : Nat, global : Nat \cup {-1}]
    PROVE  Rt(T2, MS)!SendsInTime(base, invite, caps, noRetrans)
  <1> DEFINE s == Rt(T2, MS)!RetransScheduleOf(base, invite, caps, noRetrans)
             W(k) == Rt(T2, MS)!Wait(s, k)
             R == s.maxRetrans
             kind == IF invite THEN caps.invite ELSE caps.nonInvite
             cap == IF base < T2 THEN T2 ELSE base
             course == Rt(T2, MS)!Unanswered(s)
             at == Append(course.sent, course.now)
             gap(n) == at[n + 1] - at[n]
  <1>1. /\ s \in Schedules /\ s.base = base /\ s.invite = invite
        /\ s.enabled = (~noRetrans /\ base # 0)
        /\ s.maxRetrans = IF caps.global \in 0..kind THEN caps.global ELSE kind
    BY DEF Rt!RetransScheduleOf, Rt!Lesser, Rt!NoCap, Schedules
  <1>2. R \in Nat
    BY <1>1 DEF Schedules
  <1> HIDE DEF s
  <1>3. PICK v : Course(v, T2, MS, s) /\ course = v[R + 2]
    <2>1. T2 \in Nat
      OBVIOUS
    <2> QED BY <1>1, <2>1, UnansweredIs
  <1>4. CASE ~s.enabled
    <2> DEFINE T == {n \in Nat : v[n] # v[0]}
    <2>1. v[0].over /\ v[0].sent = <<0>> /\ v[0].now = 0
      <3>1. v[0] = [sent |-> <<0>>, attempt |-> 1, now |-> 0, over |-> TRUE]
        BY <1>3, <1>4 DEF Course, Rt!Sent
      <3> QED BY <3>1
    <2>2. T = {}
      <3>1. SUFFICES ASSUME T # {} PROVE FALSE
        OBVIOUS
      <3>2. PICK n \in T : \A k \in T : n <= k
        <4>1. T \in SUBSET Nat
          OBVIOUS
        <4> HIDE DEF T
        <4> QED BY <3>1, <4>1, LeastNatural
      <3>3. n \in Nat /\ n # 0 /\ v[n] # v[0]
        BY <3>2
      <3>4. n - 1 \in Nat /\ (n - 1) + 1 = n /\ ~(n <= n - 1)
        BY <3>3
      <3>5. v[n - 1] = v[0]
        BY <3>2, <3>4
      <3>6. v[n] = Fired(T2, MS, s, v[0])
        BY <1>3, <3>4, <3>5 DEF Course
      <3> QED BY <2>1, <3>3, <3>6 DEF Fired
    <2>3. R + 2 \in Nat
      BY <1>2
    <2>4. course = v[0]
      BY <1>3, <2>2, <2>3
    <2> HIDE DEF course
    <2> QED BY <1>1, <1>4, <2>1, <2>4 DEF Rt!SendsInTime, course, s
  <1>5. CASE s.enabled
    <2> DEFINE c == v[R]
    <2>0. Copies(v, T2, MS, s, R)
      <3>1. R \in 0..R /\ T2 \in Nat
        BY <1>2
      <3> QED BY <1>1, <1>3, <1>5, <3>1, CopiesFollow
    <2>1. /\ c.over = FALSE /\ c.attempt = R + 1
          /\ Len(c.sent) = R + 1 /\ c.sent[1] = 0 /\ c.now = c.sent[R + 1]
          /\ \A k \in 1..R : c.sent[k + 1] - c.sent[k] = W(k)
      BY <2>0 DEF Copies
    <2>2. c \in Courses /\ c.sent \in Seq(Nat) /\ c.now \in Nat
      BY <1>2, <1>3 DEF Courses, Course
    <2>3. ~Rt(T2, MS)!Allows(s, R + 1)
      BY <1>2 DEF Rt!Allows
    <2>4. v[R + 1] = [c EXCEPT !.now = c.now + W(R + 1), !.over = TRUE]
      <3>1. v[R + 1] = Fired(T2, MS, s, c)
        BY <1>2, <1>3 DEF Course
      <3> HIDE DEF c
      <3> QED BY <2>1, <2>3, <3>1 DEF Fired, Rt!OnRetransTimer
    <2>5. v[R + 1].over /\ v[R + 1].sent = c.sent /\ v[R + 1].now = c.now + W(R + 1)
      <3> HIDE DEF c, W
      <3> QED BY <2>2, <2>4 DEF Courses
    <2>6. course = v[R + 1]
      <3>1. R + 1 \in Nat /\ (R + 1) + 1 = R + 2
        BY <1>2
      <3>2. v[R + 2] = Fired(T2, MS, s, v[R + 1])
        BY <1>3, <3>1 DEF Course
      <3> QED BY <1>3, <2>5, <3>2 DEF Fired
    <2>7. course.over /\ course.sent = c.sent /\ course.now = c.now + W(R + 1)
      BY <2>5, <2>6
    <2> HIDE DEF course, W, R, c
    <2>8. /\ W(1) = base
          /\ \A n \in Nat \ {0} : W(n) \in Nat
          /\ \A n \in Nat \ {0, 1} :
                W(n) = IF ~invite /\ 2 * W(n - 1) > cap THEN cap
                       ELSE IF n > MS + 1 THEN W(n - 1) ELSE 2 * W(n - 1)
      <3>1. s.base # 0
        BY <1>1, <1>5
      <3> QED BY <1>1, <3>1, WaitDoubles DEF W
    <2>9. course.sent \in Seq(Nat) /\ Len(course.sent) = R + 1 /\ course.now \in Nat
      <3>1. R + 1 \in Nat \ {0}
        BY <1>2
      <3> QED BY <2>1, <2>2, <2>7, <2>8, <3>1
    <2>10. \A n \in 1..R + 1 : gap(n) = W(n)
      <3> SUFFICES ASSUME NEW n \in 1..R + 1 PROVE gap(n) = W(n)
        OBVIOUS
      <3>1. at[n] = c.sent[n] /\ c.sent[n] \in Nat /\ (n <= R => at[n + 1] = c.sent[n + 1])
        <4>1. c.sent = course.sent
          BY <2>7
        <4> HIDE DEF gap
        <4> QED BY <1>2, <2>9, <4>1
      <3>2. at[R + 2] = course.now
        BY <1>2, <2>9
      <3> HIDE DEF at
      <3>3. CASE n = R + 1
        <4>1. at[n + 1] = c.now + W(n) /\ c.now = c.sent[n] /\ W(n) \in Nat
          BY <1>2, <2>1, <2>7, <2>8, <3>2, <3>3
        <4> QED BY <3>1, <4>1
      <3>4. CASE n # R + 1
        <4>1. n \in 1..R
          BY <1>2, <3>4
        <4> QED BY <2>1, <3>1, <4>1
      <3> QED BY <3>3, <3>4
    <2> HIDE DEF at, gap
    <2>11. gap(1) = base
      BY <1>2, <2>8, <2>10
    <2>12. ASSUME NEW n \in 2..R + 1
           PROVE  gap(n) = IF ~invite /\ 2 * gap(n - 1) > cap THEN cap
                           ELSE IF n > MS + 1 THEN gap(n - 1) ELSE 2 * gap(n - 1)
      <3>1. n \in 1..R + 1 /\ n - 1 \in 1..R + 1 /\ n \in Nat \ {0, 1}
        BY <1>2
      <3> QED BY <2>8, <2>10, <3>1
    <2>13. R + 1 = 1 + (IF caps.global \in 0..kind THEN caps.global ELSE kind)
      <3>1. R = IF caps.global \in 0..kind THEN caps.global ELSE kind
        BY <1>1 DEF R
      <3> QED BY <1>2, <3>1
    <2>14. ~noRetrans /\ base # 0
      BY <1>1, <1>5
    <2> HIDE DEF kind, cap
    <2> QED BY <2>7, <2>9, <2>11, <2>12, <2>13, <2>14
            DEF Rt!SendsInTime, course, at, gap, s, kind, cap
  <1> QED BY <1>4, <1>5
=============================================================================
