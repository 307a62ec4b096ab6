----------------------------- MODULE RecvWindow -----------------------------
(***************************************************************************)
(* Which step of a scenario an incoming message matches: recv_matches and  *)
(* scan_for_match_guarded of crates/sipr-engine/src/engine.rs.             *)
(*                                                                         *)
(* A scenario is a sequence of steps, numbered from 1 (the code counts     *)
(* from 0); a call that is past the last one is over.  A message is told   *)
(* apart by its method or status, by the method and number of its CSeq,    *)
(* and by the named transaction whose Via branch it carries (0: none).     *)
(***************************************************************************)
EXTENDS Integers, Sequences, FiniteSetsExt

\* A step has these fields, of which each kind reads its own.
Step == [kind      : {"send", "recv", "pause", "nop", "sendCmd", "recvCmd",
                      "label", "timewait"},
         name      : STRING,    \* method or status sent or expected
         request   : BOOLEAN,   \* whether `name` is a method
         optional  : BOOLEAN,
         txn       : Nat,       \* start_txn, ack_txn or response_txn; 0: none
         acks      : BOOLEAN,   \* the txn of a send is its ack_txn
         retrans   : BOOLEAN,   \* a send's retrans=
         timed     : BOOLEAN,   \* a recv's timeout, or the global one
         ontimeout : Nat,       \* 0: none
         next      : Nat,       \* 0: none
         test      : BOOLEAN,   \* next depends on a variable
         chance    : BOOLEAN,   \* next depends on a draw
         cond      : BOOLEAN,   \* condexec may skip the step
         jump      : Nat,       \* an action may <jump> there; 0: none
         returns   : BOOLEAN,   \* an action jumps to _unexp.retaddr
         computed  : BOOLEAN,   \* an action jumps to where another variable says
         restores  : BOOLEAN,   \* <pauserestore> of _unexp.pausedaddr
         fails     : BOOLEAN]   \* an action may fail the call

Message == [request : BOOLEAN, name : STRING, cseq : STRING, num : Nat, txn : Nat]

NoGuard == -1

\* precompute_cseq_methods: the requests sent up to a step, less those a named
\* transaction accounts for.
SentMethods(steps, i) ==
    {steps[j].name : j \in {k \in 1..i : /\ steps[k].kind = "send"
                                         /\ steps[k].request
                                         /\ steps[k].txn = 0}}

\* recv_matches for the recv at step i; `branched` holds the transactions whose
\* request was sent.
RecvMatches(steps, branched, i, m) ==
    LET step == steps[i] IN
    /\ step.kind = "recv"
    /\ step.request = m.request
    /\ step.name = m.name
    /\ \/ m.request
       \/ step.txn # 0 /\ step.txn = m.txn /\ step.txn \in branched
       \/ step.txn = 0 /\ \/ i = 1
                          \/ SentMethods(steps, i) = {}
                          \/ m.cseq \in SentMethods(steps, i)

\* What a message may pass over on its way forward.
Skippable(step) ==
    \/ step.kind = "label"
    \/ step.kind \in {"recv", "recvCmd"} /\ step.optional

\* What it may pass over on its way back.
Behind(step) == step.kind = "label" \/ (step.kind = "recv" /\ step.optional)

Forward(i) == [found |-> "forward", at |-> i]
Old(i)     == [found |-> "old", at |-> i]
OldTxn(t)  == [found |-> "oldTxn", at |-> t]
NoMatch    == [found |-> "none", at |-> 0]

HasTransactions(steps) == \E i \in DOMAIN steps : steps[i].txn # 0

\* The `cseq` behavior: an ACK matches only with the number of the last INVITE.
Guarded(m, ackGuard) ==
    ackGuard # NoGuard /\ m.request /\ m.name = "ACK" /\ m.num # ackGuard

\* The scan, step by step as the code walks it.
ScanForward(steps, branched, start, m) ==
    LET walk[i \in start..Len(steps) + 1] ==
            IF i > Len(steps) THEN NoMatch
            ELSE IF RecvMatches(steps, branched, i, m) THEN Forward(i)
            ELSE IF Skippable(steps[i]) THEN walk[i + 1]
            ELSE NoMatch
    IN  walk[start]

ScanBack(steps, branched, start, m) ==
    LET walk[i \in 0..start - 1] ==
            [contig \in BOOLEAN |->
                IF i = 0 \/ (~contig /\ ~HasTransactions(steps)) THEN NoMatch
                ELSE LET still == contig /\ Behind(steps[i])
                     IN  IF RecvMatches(steps, branched, i, m)
                              /\ (still \/ (~steps[i].request /\ steps[i].txn # 0))
                           THEN IF still THEN Old(i) ELSE OldTxn(steps[i].txn)
                           ELSE walk[i - 1][still]]
    IN  walk[start - 1][TRUE]

\* A mutant of Scan: an ACK of an earlier INVITE is not turned away.
ScanUnguarded(steps, branched, start, waiting, m, ackGuard) ==
    IF waiting /\ ScanForward(steps, branched, start, m) # NoMatch
      THEN ScanForward(steps, branched, start, m)
      ELSE ScanBack(steps, branched, start, m)

\* scan_for_match_guarded.
Scan(steps, branched, start, waiting, m, ackGuard) ==
    IF Guarded(m, ackGuard) THEN NoMatch
    ELSE IF waiting /\ ScanForward(steps, branched, start, m) # NoMatch
           THEN ScanForward(steps, branched, start, m)
           ELSE ScanBack(steps, branched, start, m)

-----------------------------------------------------------------------------
(* What the scan is for, stated without a walk.                            *)

Matching(steps, branched, m) == {i \in DOMAIN steps : RecvMatches(steps, branched, i, m)}

\* The steps the window that starts at `start` lets a message reach.
Window(steps, start) ==
    {i \in start..Len(steps) : \A j \in start..i - 1 : Skippable(steps[j])}

\* The optional recvs right behind it.
Passed(steps, start) ==
    {i \in 1..start - 1 : \A j \in i..start - 1 : Behind(steps[j])}

Expected(steps, branched, start, waiting, m, ackGuard) ==
    LET ahead  == Matching(steps, branched, m) \cap Window(steps, start)
        behind == Matching(steps, branched, m) \cap Passed(steps, start)
        txns   == {i \in Matching(steps, branched, m) \cap 1..start - 1 :
                      ~m.request /\ steps[i].txn # 0}
    IN  IF Guarded(m, ackGuard) THEN NoMatch
        ELSE IF waiting /\ ahead # {} THEN Forward(Min(ahead))
        ELSE IF behind # {} THEN Old(Max(behind))
        ELSE IF txns # {} THEN OldTxn(steps[Max(txns)].txn)
        ELSE NoMatch
=============================================================================
