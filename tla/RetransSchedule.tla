--------------------------- MODULE RetransSchedule ---------------------------
(* When an unanswered message is sent again (retrans.rs), and the timer that *)
(* follows that schedule for one send (engine.rs).                           *)
EXTENDS Integers, Sequences

CONSTANTS
    T2,         \* the cap of a non-INVITE's interval
    MaxShift    \* how often an interval can double

Lesser(m, n)  == IF m < n THEN m ELSE n
Greater(m, n) == IF m < n THEN n ELSE m

NoCap == -1      \* no -max_retrans
RetransCaps(invite, nonInvite, global) == [invite |-> invite, nonInvite |-> nonInvite, global |-> global]

\* RetransSchedule::new, with the base of the send's retrans=.
RetransScheduleOf(base, invite, caps, noRetrans) ==
    LET kindCap == IF invite THEN caps.invite ELSE caps.nonInvite
    IN  [base |-> base, invite |-> invite,
         maxRetrans |-> IF caps.global = NoCap THEN kindCap ELSE Lesser(kindCap, caps.global),
         enabled |-> ~noRetrans /\ base # 0]

Allows(s, attempt) == s.enabled /\ attempt \in 1..s.maxRetrans

\* Of an enabled schedule.
Wait(s, attempt) ==
    LET interval == s.base * 2 ^ Lesser(attempt - 1, MaxShift)
    IN  IF s.invite THEN interval ELSE Lesser(interval, Greater(T2, s.base))

\* The send arms the first timer; on_retrans_timer sends again or gives up, and
\* arms the next.  The instants at which the message goes out, and the last fire.
Sent(s) == [sent |-> <<0>>, attempt |-> 1, now |-> 0, over |-> ~s.enabled]
OnRetransTimer(s, call) ==
    LET now == call.now + Wait(s, call.attempt)
    IN  IF Allows(s, call.attempt)
        THEN [sent |-> Append(call.sent, now), attempt |-> call.attempt + 1, now |-> now, over |-> FALSE]
        ELSE [call EXCEPT !.now = now, !.over = TRUE]
Unanswered(s) ==
    LET after[n \in Nat] ==
            IF n = 0 THEN Sent(s)
            ELSE IF after[n - 1].over THEN after[n - 1] ELSE OnRetransTimer(s, after[n - 1])
    IN  after[s.maxRetrans + 2]

-----------------------------------------------------------------------------

\* Each gap is twice the one before it, or the cap; as many copies are sent as both
\* caps allow; and the message is given up a last gap after its last copy.
SendsInTime(base, invite, caps, noRetrans) ==
    LET call == Unanswered(RetransScheduleOf(base, invite, caps, noRetrans))
        copies == Len(call.sent)
        at == Append(call.sent, call.now)
        gap(n) == at[n + 1] - at[n]
        cap == IF base < T2 THEN T2 ELSE base
        kind == IF invite THEN caps.invite ELSE caps.nonInvite
    IN  /\ call.over
        /\ noRetrans \/ base = 0 => call.sent = <<0>> /\ call.now = 0
        /\ ~noRetrans /\ base # 0 =>
            /\ copies = 1 + (IF caps.global \in 0..kind THEN caps.global ELSE kind)
            /\ gap(1) = base
            /\ \A n \in 2..copies :
                gap(n) = IF ~invite /\ 2 * gap(n - 1) > cap THEN cap
                         ELSE IF n > MaxShift + 1 THEN gap(n - 1) ELSE 2 * gap(n - 1)
=============================================================================
