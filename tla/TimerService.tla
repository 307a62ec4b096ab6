---------------------------- MODULE TimerService ----------------------------
(***************************************************************************)
(* The timer service of crates/sipr-net/src/timer.rs: the engine's thread  *)
(* arms and cancels timers in a queue behind a mutex, and a driver thread  *)
(* sleeps on a condition variable until the next deadline and sends what   *)
(* is due into the engine's event channel.  The engine only notifies the   *)
(* driver of a timer that is due before the driver would wake by itself    *)
(* (wakes_at), so the question is whether a wakeup can be lost.            *)
(*                                                                         *)
(* The driver holds the mutex while pc = "send"; every other critical      *)
(* section is one action.  Notifications are sent outside the mutex, as    *)
(* the code does.  The channel's receiver outlives the service (it is the  *)
(* later field of Engine), so sends do not fail.                           *)
(***************************************************************************)
EXTENDS Integers, Sequences, TimerQueue

CONSTANTS
    MaxTimers,   \* bound: timers armed in a behaviour
    MaxTime      \* bound: the clock's last instant

ASSUME MaxTimersAssumption == MaxTimers \in Nat
ASSUME MaxTimeAssumption == MaxTime \in Nat

VARIABLES
    now,         \* Instant::now()
    queue,       \* QueueState.queue
    wakesAt,     \* QueueState.wakes_at
    shutdown,    \* QueueState.shutdown
    pc,          \* the driver: "look", "send", "asleep" or "done"
    lookedAt,    \* its `now`, read when it took the mutex
    batch,       \* what pop_due handed it and it has not sent yet
    sleepUntil,  \* when its wait times out
    overshoot,   \* the time that passed between its look and its wait
    notified,    \* a notification reached it while it slept
    epc,         \* the engine: "idle", "notify", "dropping", "join" or "gone"
    held,        \* the ids it was given and did not cancel
    sink         \* the ids sent into the channel

driverVars == <<pc, lookedAt, batch, sleepUntil, overshoot>>
engineVars == <<epc, held>>
vars == <<now, queue, wakesAt, shutdown, driverVars, notified, engineVars, sink>>

TypeOK ==
    /\ now \in Nat
    /\ queue \in Queue
    /\ wakesAt \in Nat \cup {Never}
    /\ shutdown \in BOOLEAN
    /\ pc \in {"look", "send", "asleep", "done"}
    /\ lookedAt \in Nat
    /\ batch \in SUBSET Entry
    /\ sleepUntil \in Nat \cup {Never}
    /\ overshoot \in Nat
    /\ notified \in BOOLEAN
    /\ epc \in {"idle", "notify", "dropping", "join", "gone"}
    /\ held \in SUBSET Nat
    /\ sink \in Seq(Nat)

Before(t, at) == at = Never \/ t < at

\* TimerService::start: the driver's first look at the queue is immediate.
Init ==
    /\ now = 0
    /\ queue = NewQueue
    /\ wakesAt = 0
    /\ shutdown = FALSE
    /\ pc = "look"
    /\ lookedAt = 0
    /\ batch = {}
    /\ sleepUntil = Never
    /\ overshoot = 0
    /\ notified = FALSE
    /\ epc = "idle"
    /\ held = {}
    /\ sink = <<>>

Tick ==
    /\ now < MaxTime
    /\ now' = now + 1
    /\ UNCHANGED <<queue, wakesAt, shutdown, driverVars, notified, engineVars, sink>>

-----------------------------------------------------------------------------
(* The engine's thread.                                                    *)

MutexFree == pc # "send"

\* A mutant of Sooner: a driver that sleeps until notified is taken for one that
\* wakes before every deadline.
SoonerThanSome(deadline) == deadline < wakesAt

Sooner(deadline) == Before(deadline, wakesAt)

ArmAt(deadline) ==
    /\ epc = "idle"
    /\ MutexFree
    /\ queue.nextId < MaxTimers
    /\ queue' = Arm(queue, deadline)
    /\ held' = held \cup {queue'.nextId}
    /\ wakesAt' = IF Sooner(deadline) THEN deadline ELSE wakesAt
    /\ epc' = IF Sooner(deadline) THEN "notify" ELSE "idle"
    /\ UNCHANGED <<now, shutdown, driverVars, notified, sink>>

\* Condvar::notify_one: lost on a driver that does not sleep.
NotifyOne == notified' = (notified \/ pc = "asleep")

Notify ==
    /\ epc = "notify"
    /\ NotifyOne
    /\ epc' = "idle"
    /\ UNCHANGED <<now, queue, wakesAt, shutdown, driverVars, held, sink>>

\* The engine takes the id out of the call before it cancels it; the timer may
\* have fired already.
CancelTimer(id) ==
    /\ epc = "idle"
    /\ MutexFree
    /\ id \in held
    /\ held' = held \ {id}
    /\ queue' = Cancel(queue, id)
    /\ UNCHANGED <<now, wakesAt, shutdown, driverVars, notified, epc, sink>>

DropBegin ==
    /\ epc = "idle"
    /\ MutexFree
    /\ shutdown' = TRUE
    /\ epc' = "dropping"
    /\ UNCHANGED <<now, queue, wakesAt, driverVars, notified, held, sink>>

\* A mutant of DropNotify: the flag alone is to stop the driver.
DropQuietly ==
    /\ epc = "dropping"
    /\ epc' = "join"
    /\ UNCHANGED <<now, queue, wakesAt, shutdown, driverVars, notified, held, sink>>

DropNotify ==
    /\ epc = "dropping"
    /\ NotifyOne
    /\ epc' = "join"
    /\ UNCHANGED <<now, queue, wakesAt, shutdown, driverVars, held, sink>>

DropJoin ==
    /\ epc = "join"
    /\ pc = "done"
    /\ epc' = "gone"
    /\ UNCHANGED <<now, queue, wakesAt, shutdown, driverVars, notified, held, sink>>

Engine ==
    \/ \E deadline \in 0..MaxTime : ArmAt(deadline)
    \/ Notify
    \/ \E id \in held : CancelTimer(id)
    \/ DropBegin
    \/ DropNotify
    \/ DropJoin

-----------------------------------------------------------------------------
(* The driver thread: run().                                               *)

DriverStop ==
    /\ pc = "look"
    /\ shutdown
    /\ pc' = "done"
    /\ UNCHANGED <<now, queue, wakesAt, shutdown, lookedAt, batch, sleepUntil,
                   overshoot, notified, engineVars, sink>>

DriverLook ==
    /\ pc = "look"
    /\ ~shutdown
    /\ lookedAt' = now
    /\ batch' = Fired(queue, now)
    /\ queue' = PopDue(queue, now)
    /\ pc' = "send"
    /\ UNCHANGED <<now, wakesAt, shutdown, sleepUntil, overshoot, notified,
                   engineVars, sink>>

DriverSend ==
    /\ pc = "send"
    /\ batch # {}
    /\ batch' = batch \ {First(batch)}
    /\ sink' = Append(sink, First(batch).id)
    /\ UNCHANGED <<now, queue, wakesAt, shutdown, pc, lookedAt, sleepUntil,
                   overshoot, notified, engineVars>>

\* wait_timeout counts its timeout from the call, and the timeout was computed
\* from the time of the look.
WaitEnd(deadline) ==
    IF deadline = Never THEN Never
    ELSE IF deadline > lookedAt THEN now + (deadline - lookedAt)
    ELSE now

DriverSleep ==
    /\ pc = "send"
    /\ batch = {}
    /\ queue' = DropDeadHead(queue)
    /\ wakesAt' = NextDeadline(queue)
    /\ sleepUntil' = WaitEnd(NextDeadline(queue))
    /\ overshoot' = now - lookedAt
    /\ notified' = FALSE
    /\ pc' = "asleep"
    /\ UNCHANGED <<now, shutdown, lookedAt, batch, engineVars, sink>>

\* The clock's last instant stands for every later time.
TimedOut == sleepUntil # Never /\ (now >= sleepUntil \/ now = MaxTime)

DriverWake ==
    /\ pc = "asleep"
    /\ notified \/ TimedOut
    /\ pc' = "look"
    /\ UNCHANGED <<now, queue, wakesAt, shutdown, lookedAt, batch, sleepUntil,
                   overshoot, notified, engineVars, sink>>

\* A condition variable may wake its waiter for no reason.
DriverSpuriousWake ==
    /\ pc = "asleep"
    /\ pc' = "look"
    /\ UNCHANGED <<now, queue, wakesAt, shutdown, lookedAt, batch, sleepUntil,
                   overshoot, notified, engineVars, sink>>

Driver ==
    \/ DriverStop
    \/ DriverLook
    \/ DriverSend
    \/ DriverSleep
    \/ DriverWake

\* Both threads have ended.
Ended == epc = "gone" /\ UNCHANGED vars

Next == Tick \/ Engine \/ Driver \/ DriverSpuriousWake \/ Ended

\* The clock runs, the driver is scheduled, and the engine finishes a call of
\* the service it has begun; nothing makes it begin one.
Fairness ==
    /\ WF_vars(Tick)
    /\ WF_vars(Driver)
    /\ WF_vars(Notify \/ DropNotify \/ DropJoin)

Spec == Init /\ [][Next]_vars

FairSpec == Spec /\ Fairness

-----------------------------------------------------------------------------
(* Properties.                                                             *)


\* No wakeup is lost: while the driver sleeps and no notification is under way,
\* its wait ends for every live timer, late at most by the time it spent
\* between its look at the queue and its wait.  arm_at wakes it only for a
\* timer due before wakes_at, and cancel never does.
NoLostWakeup ==
    pc = "asleep" /\ ~notified /\ epc # "notify" =>
        \A e \in Live(queue) :
            /\ sleepUntil # Never
            /\ sleepUntil <= e.deadline + overshoot

\* No shutdown is lost either: a driver that sleeps past Drop's notification,
\* while Drop joins it, has been notified.
NoLostShutdown == pc = "asleep" /\ epc = "join" => notified

\* What fires and when: the service implements TimerContract, with the entries
\* that pop_due handed to the driver still counted as armed.
Contract == INSTANCE TimerContract
              WITH armed <- Live(queue) \cup batch, used <- queue.nextId

ImplementsContract == Contract!CSpec

\* The inductive invariant of the proofs, in named parts.  Ids are handed out
\* once, so an entry is in one place only.
Pending == queue.heap \cup batch

UniqueIds ==
    /\ \A e, f \in Pending : e.id = f.id => e = f
    /\ queue.heap \cap batch = {}
    /\ \A e \in Pending : e.id <= queue.nextId
    /\ \A id \in held : id <= queue.nextId
    /\ \A id \in queue.cancelled : id <= queue.nextId
    /\ \A e \in batch : e.id \notin queue.cancelled

\* While the driver holds the mutex, what it popped was due at its look and
\* what it left was not.
LookSplitsPending ==
    /\ lookedAt <= now
    /\ pc # "send" => batch = {}
    /\ pc = "send" => /\ \A e \in batch : e.deadline <= lookedAt
                      /\ \A e \in queue.heap : e.deadline > lookedAt

\* wakes_at never lies beyond a deadline, and the wait never beyond wakes_at
\* unless a notification is under way.
WakesAtCovers ==
    pc = "asleep" =>
        /\ \A e \in queue.heap : wakesAt # Never /\ wakesAt <= e.deadline
        /\ ~notified /\ epc # "notify" =>
              IF wakesAt = Never
                THEN sleepUntil = Never
                ELSE sleepUntil # Never /\ sleepUntil <= wakesAt + overshoot

ShutdownNotified ==
    /\ epc \in {"dropping", "join", "gone"} => shutdown
    /\ pc = "send" => ~shutdown
    /\ pc = "asleep" /\ epc = "join" => notified
    /\ epc = "gone" => pc = "done"

IInv ==
    /\ TypeOK
    /\ UniqueIds
    /\ LookSplitsPending
    /\ WakesAtCovers
    /\ ShutdownNotified

\* Every armed timer fires, unless it is cancelled or the service is dropped.
EveryTimerFires ==
    \A id \in 1..MaxTimers :
        id \in Ids(Live(queue)) ~> \/ \E i \in DOMAIN sink : sink[i] = id
                                   \/ id \notin held
                                   \/ shutdown

\* Drop returns: the driver notices the shutdown and is joined.
DropReturns == epc = "dropping" ~> epc = "gone"

\* Whatever the engine does meanwhile, the driver gets on: timers fire, Drop returns.
DriverGetsOn == EveryTimerFires /\ DropReturns
=============================================================================
