------------------------- MODULE TimerServiceProofs -------------------------
(* Proofs about TimerService, for any number of timers and any clock.      *)
EXTENDS TimerService, WellFoundedInduction, TLAPS

-----------------------------------------------------------------------------
(* The order of the heap.                                                  *)

\* A nonempty set of naturals has a least element.
LEMMA LeastNatural ==
    ASSUME NEW T \in SUBSET Nat, T # {}
    PROVE  \E m \in T : \A n \in T : m <= n
  <1> DEFINE R == OpToRel(<, Nat)
  <1>1. IsWellFoundedOn(R, Nat)
    BY NatLessThanWellFounded
  <1>2. PICK m \in T : \A n \in T : ~ (<<n, m>> \in R)
    BY <1>1, WFMin
  <1>3. \A n, k \in Nat : n < k => <<n, k>> \in R
    BY DEF OpToRel
  <1> HIDE DEF R
  <1>4. \A n \in T : m <= n
    <2> SUFFICES ASSUME NEW n \in T PROVE m <= n
      OBVIOUS
    <2>1. n \in Nat /\ m \in Nat
      OBVIOUS
    <2>2. ~ (n < m)
      BY <1>2, <1>3, <2>1, Zenon
    <2> QED BY <2>1, <2>2
  <1> QED BY <1>4

\* Distinct entries of a heap have distinct ids, so a nonempty set of them has
\* exactly one that First can choose.
LEMMA FirstIsLeast ==
    ASSUME NEW E \in SUBSET Entry, E # {},
           \A e, f \in E : e.id = f.id => e = f
    PROVE  /\ First(E) \in E
           /\ \A f \in E \ {First(E)} : Precedes(First(E), f)
  <1>1. PICK d \in {e.deadline : e \in E} : \A n \in {e.deadline : e \in E} : d <= n
    <2>1. {e.deadline : e \in E} \in SUBSET Nat /\ {e.deadline : e \in E} # {}
      BY DEF Entry
    <2> QED BY <2>1, LeastNatural
  <1>2. PICK i \in {e.id : e \in {f \in E : f.deadline = d}} :
            \A n \in {e.id : e \in {f \in E : f.deadline = d}} : i <= n
    <2> DEFINE I == {e.id : e \in {f \in E : f.deadline = d}}
    <2>1. I \in SUBSET Nat /\ I # {}
      BY <1>1 DEF Entry
    <2> HIDE DEF I
    <2>2. \E i \in I : \A n \in I : i <= n
      BY <2>1, LeastNatural
    <2> QED BY <2>2 DEF I
  <1>3. PICK e \in E : e.deadline = d /\ e.id = i
    BY <1>2
  <1>4. \A f \in E \ {e} : Precedes(e, f)
    <2> SUFFICES ASSUME NEW f \in E \ {e} PROVE Precedes(e, f)
      OBVIOUS
    <2>1. f.id # i /\ d <= f.deadline /\ f.deadline \in Nat /\ f.id \in Nat
      BY <1>1, <1>3 DEF Entry
    <2>2. f.deadline = d => i <= f.id
      BY <1>2
    <2> QED BY <1>3, <2>1, <2>2 DEF Precedes, Entry
  <1> QED BY <1>3, <1>4 DEF First

-----------------------------------------------------------------------------
(* The driver's next deadline.                                             *)

\* next_deadline is the least deadline of the live entries, and what it drops
\* on its way is tombstones only.
LEMMA NextDeadlineIsLeast ==
    ASSUME NEW q \in Queue,
           \A e, f \in q.heap : e.id = f.id => e = f
    PROVE  /\ NextDeadline(q) \in Nat \cup {Never}
           /\ NextDeadline(q) = Never => Live(q) = {}
           /\ \A e \in Live(q) : NextDeadline(q) # Never /\ NextDeadline(q) <= e.deadline
  <1>1. Live(q) \in SUBSET Entry /\ \A e, f \in Live(q) : e.id = f.id => e = f
    BY DEF Live, Queue
  <1>2. CASE Live(q) = {}
    BY <1>2 DEF NextDeadline
  <1>3. CASE Live(q) # {}
    <2>1. /\ First(Live(q)) \in Live(q)
          /\ \A f \in Live(q) \ {First(Live(q))} : Precedes(First(Live(q)), f)
      BY <1>1, <1>3, FirstIsLeast
    <2>2. NextDeadline(q) = First(Live(q)).deadline
      BY <1>3 DEF NextDeadline
    <2>3. First(Live(q)) \in Entry
      BY <1>1, <2>1
    <2>4. First(Live(q)).deadline \in Nat
      BY <2>3 DEF Entry
    <2>5. \A e \in Live(q) : First(Live(q)).deadline <= e.deadline
      BY <1>1, <2>1, <2>3 DEF Precedes, Entry
    <2> QED BY <2>2, <2>4, <2>5, <1>3 DEF Never
  <1> QED BY <1>2, <1>3

\* Dropping the dead head leaves the live entries, and nothing that is left is
\* due before the first of them.
LEMMA DropKeepsLive ==
    ASSUME NEW q \in Queue,
           \A e, f \in q.heap : e.id = f.id => e = f
    PROVE  /\ DropDeadHead(q) \in Queue
           /\ DropDeadHead(q).heap \subseteq q.heap
           /\ DropDeadHead(q).cancelled \subseteq q.cancelled
           /\ DropDeadHead(q).nextId = q.nextId
           /\ Live(DropDeadHead(q)) = Live(q)
           /\ \A e \in DropDeadHead(q).heap :
                 NextDeadline(q) # Never /\ NextDeadline(q) <= e.deadline
  <1> DEFINE r == DropDeadHead(q)
  <1>1. /\ r \in Queue
        /\ r.heap = q.heap \ DeadHead(q)
        /\ r.cancelled = q.cancelled \ Ids(DeadHead(q))
        /\ r.nextId = q.nextId
    BY DEF DropDeadHead, Queue
  <1>2. DeadHead(q) \subseteq q.heap /\ DeadHead(q) \cap Live(q) = {}
    BY DEF DeadHead, Live
  <1>3. \A e \in r.heap : e.id \in q.cancelled => e.id \in r.cancelled
    BY <1>1, <1>2 DEF Ids
  <1>4. Live(r) = Live(q)
    <2>1. \A e \in Live(r) : e \in Live(q)
      BY <1>1, <1>3 DEF Live
    <2>2. \A e \in Live(q) : e \in Live(r)
      BY <1>1, <1>2 DEF Live
    <2> QED BY <2>1, <2>2
  <1>5. \A e \in r.heap : NextDeadline(q) # Never /\ NextDeadline(q) <= e.deadline
    <2> SUFFICES ASSUME NEW e \in r.heap
                 PROVE  NextDeadline(q) # Never /\ NextDeadline(q) <= e.deadline
      OBVIOUS
    <2>1. e \in q.heap /\ e \notin DeadHead(q) /\ e \in Entry
      BY <1>1 DEF Queue
    <2>2. CASE e \in Live(q)
      BY <2>2, NextDeadlineIsLeast
    <2>3. CASE e \notin Live(q)
      <3>1. PICK f \in Live(q) : ~Precedes(e, f)
        BY <2>1, <2>3 DEF DeadHead, Live
      <3>2. f \in Entry
        BY DEF Live, Queue
      <3>3. f.deadline <= e.deadline
        BY <2>1, <3>1, <3>2 DEF Precedes, Entry
      <3>4. NextDeadline(q) # Never /\ NextDeadline(q) <= f.deadline
        BY NextDeadlineIsLeast
      <3>5. NextDeadline(q) \in Nat
        BY <3>4, NextDeadlineIsLeast
      <3> QED BY <2>1, <3>2, <3>3, <3>4, <3>5 DEF Entry
    <2> QED BY <2>2, <2>3
  <1> HIDE DEF r
  <1> QED BY <1>1, <1>4, <1>5 DEF r

-----------------------------------------------------------------------------
(* The inductive invariant.                                                *)

LEMMA InitInv == Init => IInv
  <1> SUFFICES ASSUME Init PROVE IInv
    OBVIOUS
  <1>1. TypeOK
    <2>1. NewQueue \in Queue
      BY DEF NewQueue, Queue
    <2>2. {} \in SUBSET Entry /\ {} \in SUBSET Nat /\ <<>> \in Seq(Nat)
      OBVIOUS
    <2> QED BY <2>1, <2>2 DEF Init, TypeOK
  <1>2. UniqueIds /\ LookSplitsPending /\ WakesAtCovers /\ ShutdownNotified
    BY DEF Init, UniqueIds, Pending, NewQueue, LookSplitsPending, WakesAtCovers,
           ShutdownNotified
  <1> QED BY <1>1, <1>2 DEF IInv

\* One case per action.
LEMMA StepInv == IInv /\ [Next]_vars => IInv'
  <1> SUFFICES ASSUME IInv, [Next]_vars PROVE IInv'
    OBVIOUS
  <1> USE DEF IInv
  <1>1. CASE Tick
    <2>1. TypeOK'
      BY <1>1 DEF TypeOK, Tick, driverVars, engineVars
    <2>2. UniqueIds'
      BY <1>1 DEF UniqueIds, Pending, Tick, driverVars, engineVars
    <2>3. LookSplitsPending'
      BY <1>1 DEF LookSplitsPending, TypeOK, Tick, driverVars, engineVars
    <2>4. WakesAtCovers' /\ ShutdownNotified'
      BY <1>1 DEF WakesAtCovers, ShutdownNotified, Tick, driverVars, engineVars
    <2> QED BY <2>1, <2>2, <2>3, <2>4
  <1>2. ASSUME NEW deadline \in 0..MaxTime, ArmAt(deadline)
        PROVE  IInv'
    <2> DEFINE new == [id |-> queue.nextId + 1, deadline |-> deadline]
    <2>a. deadline \in Nat /\ queue \in Queue
      BY MaxTimeAssumption DEF TypeOK
    <2>b. new \in Entry
      BY <2>a DEF Entry, Queue
    <2>c. queue' = [queue EXCEPT !.heap = @ \cup {new}, !.nextId = @ + 1]
      BY <1>2 DEF ArmAt, Arm
    <2>1. /\ queue' \in Queue
          /\ queue'.heap = queue.heap \cup {new}
          /\ queue'.nextId = queue.nextId + 1
          /\ queue'.cancelled = queue.cancelled
          /\ new \in Entry
          /\ deadline \in Nat
      <3> HIDE DEF new
      <3>1. /\ queue'.heap = queue.heap \cup {new}
            /\ queue'.nextId = queue.nextId + 1
            /\ queue'.cancelled = queue.cancelled
        BY <2>a, <2>c DEF Queue
      <3>2. queue' = [heap |-> queue.heap \cup {new}, cancelled |-> queue.cancelled,
                      nextId |-> queue.nextId + 1]
        BY <2>a, <2>c DEF Queue
      <3>3. queue' \in Queue
        BY <2>a, <2>b, <3>2 DEF Queue
      <3> QED BY <2>a, <2>b, <3>1, <3>3
    <2>2. TypeOK'
      BY <1>2, <2>1 DEF TypeOK, ArmAt, driverVars, Queue
    <2>3. UniqueIds'
      <3>1. \A e \in Pending : e.id # new.id
        BY DEF UniqueIds, Pending, TypeOK, Queue, Entry
      <3>2. Pending' = Pending \cup {new} /\ new \notin Pending
        BY <1>2, <2>1, <3>1 DEF Pending, ArmAt, driverVars
      <3>3. /\ \A e \in Pending' : e.id <= queue'.nextId
            /\ \A id \in held' : id <= queue'.nextId
            /\ \A id \in queue'.cancelled : id <= queue'.nextId
        BY <1>2, <2>1, <3>2 DEF UniqueIds, TypeOK, Queue, ArmAt, Entry, Pending
      <3> QED BY <1>2, <2>1, <3>1, <3>2, <3>3 DEF UniqueIds, ArmAt, driverVars, Pending
    <2>4. LookSplitsPending'
      BY <1>2, <2>1 DEF LookSplitsPending, ArmAt, MutexFree, driverVars, engineVars
    <2>5. WakesAtCovers'
      BY <1>2, <2>1 DEF WakesAtCovers, ArmAt, Sooner, Before, driverVars, TypeOK, Never,
                        Queue, Entry
    <2>6. ShutdownNotified'
      BY <1>2 DEF ShutdownNotified, ArmAt, driverVars
    <2> QED BY <2>2, <2>3, <2>4, <2>5, <2>6
  <1>3. CASE Notify
    <2>1. TypeOK'
      BY <1>3 DEF TypeOK, Notify, NotifyOne, driverVars
    <2>2. UniqueIds' /\ LookSplitsPending'
      BY <1>3 DEF UniqueIds, Pending, LookSplitsPending, Notify, driverVars
    <2>3. WakesAtCovers' /\ ShutdownNotified'
      BY <1>3 DEF WakesAtCovers, ShutdownNotified, Notify, NotifyOne, driverVars
    <2> QED BY <2>1, <2>2, <2>3
  <1>4. ASSUME NEW id \in held, CancelTimer(id)
        PROVE  IInv'
    <2>1. /\ queue' \in Queue
          /\ queue'.heap = queue.heap
          /\ queue'.nextId = queue.nextId
          /\ queue'.cancelled \subseteq queue.cancelled \cup {id}
      BY <1>4 DEF CancelTimer, Cancel, Queue, TypeOK
    <2>2. TypeOK'
      BY <1>4, <2>1 DEF TypeOK, CancelTimer, driverVars
    <2>3. batch = {}
      BY <1>4 DEF LookSplitsPending, CancelTimer, MutexFree
    <2>4. UniqueIds' /\ LookSplitsPending'
      BY <1>4, <2>1, <2>3 DEF UniqueIds, Pending, LookSplitsPending, CancelTimer, driverVars,
                         MutexFree
    <2>5. WakesAtCovers' /\ ShutdownNotified'
      BY <1>4, <2>1 DEF WakesAtCovers, ShutdownNotified, CancelTimer, driverVars
    <2> QED BY <2>2, <2>4, <2>5
  <1>5. CASE DropBegin \/ DropNotify \/ DropJoin
    <2>1. TypeOK'
      BY <1>5 DEF TypeOK, DropBegin, DropNotify, DropJoin, NotifyOne, driverVars
    <2>2. UniqueIds' /\ LookSplitsPending'
      BY <1>5 DEF UniqueIds, Pending, LookSplitsPending, DropBegin, DropNotify, DropJoin,
                  driverVars
    <2>3. WakesAtCovers'
      BY <1>5 DEF WakesAtCovers, DropBegin, DropNotify, DropJoin, NotifyOne, driverVars
    <2>4. ShutdownNotified'
      <3>1. CASE DropBegin
        BY <3>1 DEF ShutdownNotified, DropBegin, MutexFree, driverVars
      <3>2. CASE DropNotify
        BY <3>2 DEF ShutdownNotified, DropNotify, NotifyOne, driverVars
      <3>3. CASE DropJoin
        BY <3>3 DEF ShutdownNotified, DropJoin, driverVars
      <3> QED BY <1>5, <3>1, <3>2, <3>3
    <2> QED BY <2>1, <2>2, <2>3, <2>4
  <1>6. CASE DriverStop
    BY <1>6 DEF DriverStop, TypeOK, UniqueIds, Pending, LookSplitsPending, WakesAtCovers,
                ShutdownNotified, engineVars
  <1>7. CASE DriverLook
    <2> DEFINE due == Due(queue, now)
    <2>1. /\ queue' \in Queue
          /\ queue'.heap = queue.heap \ due
          /\ queue'.nextId = queue.nextId
          /\ queue'.cancelled \subseteq queue.cancelled
          /\ batch' = {e \in due : e.id \notin queue.cancelled}
          /\ due \subseteq queue.heap
      BY <1>7 DEF DriverLook, PopDue, Fired, Due, Queue, TypeOK
    <2>2. TypeOK'
      BY <1>7, <2>1 DEF TypeOK, DriverLook, engineVars, Queue
    <2>3. Pending' \subseteq Pending
      BY <2>1 DEF Pending
    <2>4. UniqueIds'
      BY <1>7, <2>1, <2>3 DEF UniqueIds, DriverLook, engineVars
    <2>5. LookSplitsPending'
      BY <1>7, <2>1 DEF LookSplitsPending, DriverLook, Due, TypeOK, Queue, Entry
    <2>6. WakesAtCovers' /\ ShutdownNotified'
      BY <1>7 DEF WakesAtCovers, ShutdownNotified, DriverLook, engineVars
    <2> QED BY <2>2, <2>4, <2>5, <2>6
  <1>8. CASE DriverSend
    <2>1. First(batch) \in batch
      BY <1>8, FirstIsLeast DEF DriverSend, UniqueIds, Pending, TypeOK
    <2>2. First(batch).id \in Nat
      BY <2>1 DEF TypeOK, Entry
    <2>3. TypeOK'
      BY <1>8, <2>2 DEF TypeOK, DriverSend, engineVars
    <2>4. UniqueIds' /\ LookSplitsPending'
      BY <1>8 DEF UniqueIds, Pending, LookSplitsPending, DriverSend, engineVars
    <2>5. WakesAtCovers' /\ ShutdownNotified'
      BY <1>8 DEF WakesAtCovers, ShutdownNotified, DriverSend, engineVars
    <2> QED BY <2>3, <2>4, <2>5
  <1>9. CASE DriverSleep
    <2>1. queue \in Queue /\ \A e, f \in queue.heap : e.id = f.id => e = f
      BY DEF TypeOK, UniqueIds, Pending
    <2>2. /\ queue' \in Queue
          /\ queue'.heap \subseteq queue.heap
          /\ queue'.cancelled \subseteq queue.cancelled
          /\ queue'.nextId = queue.nextId
          /\ \A e \in queue'.heap : wakesAt' # Never /\ wakesAt' <= e.deadline
      BY <1>9, <2>1, DropKeepsLive DEF DriverSleep
    <2>3. wakesAt' \in Nat \cup {Never}
      BY <1>9, <2>1, NextDeadlineIsLeast DEF DriverSleep
    <2>4. /\ overshoot' = now - lookedAt /\ overshoot' \in Nat
          /\ lookedAt <= now /\ lookedAt \in Nat /\ now \in Nat
      BY <1>9 DEF DriverSleep, LookSplitsPending, TypeOK
    <2>5. wakesAt' # Never => wakesAt' > lookedAt
      <3>1. SUFFICES ASSUME wakesAt' # Never PROVE wakesAt' > lookedAt
        OBVIOUS
      <3>2. Live(queue) # {} /\ wakesAt' = First(Live(queue)).deadline
        BY <1>9, <3>1 DEF DriverSleep, NextDeadline
      <3>3. Live(queue) \in SUBSET Entry /\ Live(queue) \subseteq queue.heap
        BY <2>1 DEF Live, Queue
      <3>4. First(Live(queue)) \in queue.heap
        BY <2>1, <3>2, <3>3, FirstIsLeast
      <3> QED BY <1>9, <3>2, <3>4 DEF LookSplitsPending, DriverSleep
    <2>6. /\ wakesAt' = Never => sleepUntil' = Never
          /\ wakesAt' # Never => /\ sleepUntil' \in Nat
                                 /\ sleepUntil' = wakesAt' + overshoot'
      <3>1. sleepUntil' = WaitEnd(wakesAt')
        BY <1>9 DEF DriverSleep, WaitEnd
      <3>2. wakesAt' = Never => sleepUntil' = Never
        BY <3>1 DEF WaitEnd
      <3>3. ASSUME wakesAt' # Never
            PROVE  sleepUntil' = now + (wakesAt' - lookedAt)
        BY <3>1, <3>3, <2>5 DEF WaitEnd
      <3> QED BY <2>3, <2>4, <2>5, <3>2, <3>3
    <2>7. TypeOK'
      BY <1>9, <2>2, <2>3, <2>4, <2>6 DEF TypeOK, DriverSleep, engineVars
    <2>8. UniqueIds'
      BY <1>9, <2>2 DEF UniqueIds, Pending, DriverSleep, engineVars
    <2>9. LookSplitsPending'
      BY <1>9, <2>2 DEF LookSplitsPending, DriverSleep, engineVars
    <2>10. WakesAtCovers'
      BY <1>9, <2>2, <2>3, <2>4, <2>6 DEF WakesAtCovers, DriverSleep, Never
    <2>11. ShutdownNotified'
      BY <1>9 DEF ShutdownNotified, DriverSleep, engineVars
    <2> QED BY <2>7, <2>8, <2>9, <2>10, <2>11
  <1>10. CASE DriverWake \/ DriverSpuriousWake
    BY <1>10 DEF DriverWake, DriverSpuriousWake, TypeOK, UniqueIds, Pending,
                 LookSplitsPending, WakesAtCovers, ShutdownNotified, engineVars
  <1>11. CASE UNCHANGED vars
    BY <1>11 DEF vars, driverVars, engineVars, TypeOK, UniqueIds, Pending,
                 LookSplitsPending, WakesAtCovers, ShutdownNotified
  <1> QED BY <1>1, <1>2, <1>3, <1>4, <1>5, <1>6, <1>7, <1>8, <1>9, <1>10, <1>11
          DEF Next, Engine, Driver, Ended

THEOREM InvariantHolds == Spec => []IInv
  <1> QED BY InitInv, StepInv, PTL DEF Spec

\* Every variable keeps its type.
THEOREM TypeCorrect == Spec => []TypeOK
  <1>1. IInv => TypeOK
    BY DEF IInv
  <1> QED BY <1>1, InvariantHolds, PTL

\* No wakeup is lost: arm_at may skip the notification, and cancel always does,
\* yet the driver's wait never outlasts a live timer's deadline by more than
\* the time it spent between its look and its wait.
THEOREM WakeupsAreNotLost == Spec => []NoLostWakeup
  <1>1. IInv => NoLostWakeup
    <2> SUFFICES ASSUME IInv, pc = "asleep", ~notified, epc # "notify",
                        NEW e \in Live(queue)
                 PROVE  sleepUntil # Never /\ sleepUntil <= e.deadline + overshoot
      BY DEF NoLostWakeup
    <2>1. e \in queue.heap /\ e.deadline \in Nat
      BY DEF IInv, TypeOK, Queue, Entry, Live
    <2>2. wakesAt # Never /\ wakesAt <= e.deadline
      BY <2>1 DEF IInv, WakesAtCovers
    <2>3. sleepUntil # Never /\ sleepUntil <= wakesAt + overshoot
      BY <2>2 DEF IInv, WakesAtCovers
    <2> QED BY <2>1, <2>2, <2>3 DEF IInv, TypeOK
  <1> QED BY <1>1, InvariantHolds, PTL

\* No shutdown is lost: a driver asleep while Drop joins it has been notified.
THEOREM ShutdownIsNotLost == Spec => []NoLostShutdown
  <1>1. IInv => NoLostShutdown
    BY DEF IInv, ShutdownNotified, NoLostShutdown
  <1> QED BY <1>1, InvariantHolds, PTL

-----------------------------------------------------------------------------
(* The refinement of TimerContract.                                        *)

LEMMA InitRefines == Init => Contract!CInit
  BY DEF Init, Contract!CInit, Live, NewQueue

LEMMA StepRefines == IInv /\ [Next]_vars => [Contract!CNext]_(Contract!contractVars)
  <1> SUFFICES ASSUME IInv, [Next]_vars
               PROVE  [Contract!CNext]_(Contract!contractVars)
    OBVIOUS
  <1> DEFINE armed == Live(queue) \cup batch
  <1>a. ASSUME armed' = armed, UNCHANGED <<now, queue.nextId, sink>>
        PROVE  UNCHANGED Contract!contractVars
    BY <1>a DEF Contract!contractVars
  <1>1. CASE Tick
    BY <1>1 DEF Tick, Contract!CNext, Contract!CTick, driverVars
  <1>2. ASSUME NEW deadline \in 0..MaxTime, ArmAt(deadline)
        PROVE  Contract!CArm
    <2> DEFINE new == [id |-> queue.nextId + 1, deadline |-> deadline]
    <2>1. /\ queue'.heap = queue.heap \cup {new}
          /\ queue'.nextId = queue.nextId + 1
          /\ queue'.cancelled = queue.cancelled
      BY <1>2 DEF ArmAt, Arm, IInv, TypeOK, Queue
    <2>2. new.id \notin queue.cancelled
      BY DEF IInv, UniqueIds, TypeOK, Queue
    <2>3. armed' = armed \cup {new} /\ new \notin armed
      BY <1>2, <2>1, <2>2 DEF Live, ArmAt, driverVars, IInv, UniqueIds, Pending, TypeOK,
                              Queue, Entry
    <2>4. deadline \in Nat /\ UNCHANGED <<now, sink>>
      BY <1>2, MaxTimeAssumption DEF ArmAt
    <2> HIDE DEF armed
    <2>5. \E e \in armed' \ armed : /\ e.id = queue.nextId + 1
                                    /\ e.deadline \in Nat
                                    /\ armed' = armed \cup {e}
      BY <2>3, <2>4
    <2> QED BY <2>1, <2>4, <2>5 DEF armed, Contract!CArm
  <1>3. ASSUME NEW id \in held, CancelTimer(id)
        PROVE  [Contract!CNext]_(Contract!contractVars)
    <2>1. /\ batch = {} /\ batch' = {}
          /\ queue'.heap = queue.heap
          /\ queue'.nextId = queue.nextId
          /\ queue.heap # {} => queue'.cancelled = queue.cancelled \cup {id}
          /\ UNCHANGED <<now, sink>>
      BY <1>3 DEF CancelTimer, Cancel, IInv, TypeOK, Queue, LookSplitsPending, MutexFree,
                  driverVars
    <2>2. armed' = {e \in armed : e.id # id}
      BY <2>1 DEF Live
    <2>3. CASE id \in Ids(armed)
      <3> HIDE DEF armed
      <3>1. \E i \in Ids(armed) : armed' = {e \in armed : e.id # i}
        BY <2>2, <2>3
      <3> QED BY <2>1, <3>1 DEF armed, Contract!CNext, Contract!CCancel, Contract!Ids, Ids
    <2>4. CASE id \notin Ids(armed)
      <3>1. armed' = armed
        BY <2>2, <2>4 DEF Ids
      <3> QED BY <3>1, <2>1, <1>a
    <2> QED BY <2>3, <2>4
  <1>4. CASE DriverLook
    <2> DEFINE due == Due(queue, now)
    <2>1. /\ batch = {}
          /\ queue'.heap = queue.heap \ due
          /\ queue'.nextId = queue.nextId
          /\ queue'.cancelled = queue.cancelled \ Ids(due)
          /\ batch' = {e \in due : e.id \notin queue.cancelled}
          /\ due \subseteq queue.heap
          /\ UNCHANGED <<now, sink>>
      BY <1>4 DEF DriverLook, PopDue, Fired, Due, Queue, IInv, TypeOK, LookSplitsPending,
                  engineVars
    <2>2. \A e, f \in queue.heap : e.id = f.id => e = f
      BY DEF IInv, UniqueIds, Pending
    <2>3. \A e \in queue'.heap : e.id \in queue.cancelled <=> e.id \in queue'.cancelled
      BY <2>1, <2>2 DEF Ids
    <2>4. armed' = armed
      BY <2>1, <2>3 DEF Live
    <2> QED BY <2>1, <2>4, <1>a
  <1>5. CASE DriverSend
    <2> DEFINE e == First(batch)
    <2>1. /\ e \in batch
          /\ \A f \in batch \ {e} : Precedes(e, f)
      BY <1>5, FirstIsLeast DEF DriverSend, IInv, UniqueIds, Pending, TypeOK
    <2>2. /\ batch' = batch \ {e}
          /\ sink' = Append(sink, e.id)
          /\ UNCHANGED <<now, queue>>
          /\ pc = "send"
      BY <1>5 DEF DriverSend
    <2>3. e \notin Live(queue)
      BY <2>1 DEF IInv, UniqueIds, Live
    <2>4. armed' = armed \ {e}
      BY <2>2, <2>3 DEF Live
    <2>5. e \in Entry /\ e.deadline <= lookedAt /\ lookedAt <= now
      BY <2>1, <2>2 DEF IInv, TypeOK, LookSplitsPending
    <2>6. e.deadline <= now
      BY <2>5 DEF IInv, TypeOK, Entry
    <2>7. \A f \in Live(queue) : Precedes(e, f)
      BY <2>2, <2>5 DEF IInv, TypeOK, Queue, Entry, LookSplitsPending, Live, Precedes
    <2>8. \A f \in armed \ {e} : Precedes(e, f)
      BY <2>1, <2>7
    <2> HIDE DEF armed, e
    <2>9. e \in armed
      BY <2>1 DEF armed
    <2>10. \E g \in armed : /\ g.deadline <= now
                            /\ \A f \in armed \ {g} : Precedes(g, f)
                            /\ armed' = armed \ {g}
                            /\ sink' = Append(sink, g.id)
      BY <2>2, <2>4, <2>6, <2>8, <2>9
    <2> QED BY <2>2, <2>10 DEF armed, Contract!CNext, Contract!CFire,
                             Contract!Precedes, Precedes
  <1>6. CASE DriverSleep
    <2>1. Live(queue') = Live(queue) /\ queue'.nextId = queue.nextId
      BY <1>6, DropKeepsLive DEF DriverSleep, IInv, TypeOK, UniqueIds, Pending
    <2>2. UNCHANGED <<now, batch, sink>>
      BY <1>6 DEF DriverSleep
    <2>3. armed' = armed
      BY <2>1, <2>2 DEF Live
    <2> QED BY <2>1, <2>2, <2>3, <1>a
  <1>7. CASE \/ Notify \/ DropBegin \/ DropNotify \/ DropJoin
             \/ DriverStop \/ DriverWake \/ DriverSpuriousWake
    BY <1>7, <1>a DEF Notify, DropBegin, DropNotify, DropJoin, DriverStop, DriverWake,
                      DriverSpuriousWake, driverVars
  <1>8. CASE UNCHANGED vars
    BY <1>8, <1>a DEF vars, driverVars
  <1> QED BY <1>1, <1>2, <1>3, <1>4, <1>5, <1>6, <1>7, <1>8
          DEF Next, Engine, Driver, Ended, Contract!CNext

\* The service implements its contract: a timer fires at most once, not before
\* its deadline, not after it was cancelled, and the earliest fires first.
THEOREM ServiceImplementsContract == Spec => ImplementsContract
  <1> QED BY InitRefines, StepRefines, InvariantHolds, PTL
          DEF Spec, ImplementsContract, Contract!CSpec
=============================================================================
