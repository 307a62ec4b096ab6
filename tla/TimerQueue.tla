----------------------------- MODULE TimerQueue -----------------------------
(***************************************************************************)
(* The pure timer queue of crates/sipr-net/src/timer.rs: a min-heap of     *)
(* deadlines whose cancelled entries stay inside it as tombstones until    *)
(* they reach its head.  A queue is the record of TimerQueue's fields; the *)
(* heap is the set of its entries, ordered by Precedes (Entry::cmp), and   *)
(* an entry's event is told apart by the entry's id.                       *)
(***************************************************************************)
EXTENDS Integers, FiniteSets

\* "No deadline": Option<Instant>::None.
Never == -1

Entry == [id : Nat, deadline : Nat]

Queue == [heap : SUBSET Entry, cancelled : SUBSET Nat, nextId : Nat]

\* Entry::cmp, inverted there because BinaryHeap is a max-heap: the earliest
\* deadline first, the earliest armed among equals.
Precedes(e, f) ==
    \/ e.deadline < f.deadline
    \/ e.deadline = f.deadline /\ e.id < f.id

First(entries) == CHOOSE e \in entries : \A f \in entries \ {e} : Precedes(e, f)

Ids(entries) == {e.id : e \in entries}

\* The timers that are armed and not cancelled.
Live(q) == {e \in q.heap : e.id \notin q.cancelled}

NewQueue == [heap |-> {}, cancelled |-> {}, nextId |-> 0]

Arm(q, deadline) ==
    [q EXCEPT !.heap   = @ \cup {[id |-> q.nextId + 1, deadline |-> deadline]},
              !.nextId = @ + 1]

\* A tombstone is planted without a look for the id in the heap; with nothing
\* pending the old ones are swept instead.
Cancel(q, id) ==
    [q EXCEPT !.cancelled = IF q.heap = {} THEN {} ELSE @ \cup {id}]

Due(q, now) == {e \in q.heap : e.deadline <= now}

\* A mutant of Fired: the tombstones are not looked at.
FiredThoughCancelled(q, now) == Due(q, now)

\* pop_due: what it hands out, and the queue it leaves.
Fired(q, now) == {e \in Due(q, now) : e.id \notin q.cancelled}

PopDue(q, now) ==
    [q EXCEPT !.heap      = @ \ Due(q, now),
              !.cancelled = @ \ Ids(Due(q, now))]

\* The tombstones no live entry precedes, which next_deadline pops on its way.
DeadHead(q) ==
    {e \in q.heap : /\ e.id \in q.cancelled
                    /\ \A f \in Live(q) : Precedes(e, f)}

NextDeadline(q) == IF Live(q) = {} THEN Never ELSE First(Live(q)).deadline

DropDeadHead(q) ==
    [q EXCEPT !.heap      = @ \ DeadHead(q),
              !.cancelled = @ \ Ids(DeadHead(q))]
=============================================================================
