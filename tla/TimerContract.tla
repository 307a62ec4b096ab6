--------------------------- MODULE TimerContract ----------------------------
(***************************************************************************)
(* What the timer service promises the engine, whatever its threads do:    *)
(* a timer fires at most once, never before its deadline and never after   *)
(* it was cancelled, and of the timers that are armed the earliest fires   *)
(* first.                                                                  *)
(***************************************************************************)
EXTENDS Integers, Sequences, TimerQueue

VARIABLES
    now,        \* the clock
    armed,      \* the entries that are neither fired nor cancelled
    used,       \* the number of ids handed out
    sink        \* the ids of the timers that fired, in order

contractVars == <<now, armed, used, sink>>

CInit ==
    /\ now = 0
    /\ armed = {}
    /\ used = 0
    /\ sink = <<>>

CTick ==
    /\ now' = now + 1
    /\ UNCHANGED <<armed, used, sink>>

CArm ==
    /\ \E e \in armed' \ armed :
          /\ e.id = used + 1
          /\ e.deadline \in Nat
          /\ armed' = armed \cup {e}
    /\ used' = used + 1
    /\ UNCHANGED <<now, sink>>

CCancel ==
    \E id \in Ids(armed) :
        /\ armed' = {e \in armed : e.id # id}
        /\ UNCHANGED <<now, used, sink>>

CFire ==
    \E e \in armed :
        /\ e.deadline <= now
        /\ \A f \in armed \ {e} : Precedes(e, f)
        /\ armed' = armed \ {e}
        /\ sink' = Append(sink, e.id)
        /\ UNCHANGED <<now, used>>

CNext == CTick \/ CArm \/ CCancel \/ CFire

CSpec == CInit /\ [][CNext]_contractVars
=============================================================================
