------------------------------- MODULE MCCall -------------------------------
(***************************************************************************)
(* Instances of CallMachine: the scenarios and the messages of the runs.   *)
(***************************************************************************)
EXTENDS CallMachine

Plain == [kind |-> "nop", name |-> "", request |-> FALSE, optional |-> FALSE,
          txn |-> 0, acks |-> FALSE, retrans |-> FALSE, timed |-> FALSE,
          ontimeout |-> 0, next |-> 0, test |-> FALSE, chance |-> FALSE,
          cond |-> FALSE, jump |-> 0, returns |-> FALSE, computed |-> FALSE,
          restores |-> FALSE, fails |-> FALSE]

OfKind(kind) == [Plain EXCEPT !.kind = kind]
Send(name) == [Plain EXCEPT !.kind = "send", !.name = name, !.request = TRUE]
Reply(name) == [Plain EXCEPT !.kind = "send", !.name = name]
Recv(name) == [Plain EXCEPT !.kind = "recv", !.name = name]
Request(name) == [Recv(name) EXCEPT !.request = TRUE]
Optional(step) == [step EXCEPT !.optional = TRUE]
Timed(step) == [step EXCEPT !.timed = TRUE]
Retrans(step) == [step EXCEPT !.retrans = TRUE]
Txn(step) == [step EXCEPT !.txn = 1]
OnTimeout(step, label) == [step EXCEPT !.ontimeout = label]

Response(name, cseq) == [request |-> FALSE, name |-> name, cseq |-> cseq, num |-> 1, txn |-> 0]
Asks(name, num) == [request |-> TRUE, name |-> name, cseq |-> name, num |-> num, txn |-> 0]

\* A 3PCC controller with named transactions and every kind of step: it waits
\* for its twin after a pause, hangs up and lingers, or ends at once.  Each of its waits is timed.
Client ==
    <<OnTimeout(Txn(Retrans(Send("INVITE"))), 12),
      Txn(Optional(Timed(Recv("180")))),
      Txn(Timed(Recv("200"))),
      [Txn(Send("ACK")) EXCEPT !.acks = TRUE],
      OfKind("sendCmd"),
      OfKind("pause"),
      [Optional(Timed(Request("INFO"))) EXCEPT !.next = 8, !.test = TRUE],
      OnTimeout(Timed(OfKind("recvCmd")), 12),
      [OfKind("nop") EXCEPT !.cond = TRUE, !.fails = TRUE],
      Retrans(Send("BYE")),
      OnTimeout(Timed(Recv("200")), 12),
      OfKind("label"),
      [OfKind("timewait") EXCEPT !.jump = 14],
      [OfKind("nop") EXCEPT !.next = 20, !.chance = TRUE],
      OfKind("timewait"),
      OfKind("nop"),                     \* nothing leads here
      OfKind("label"),                   \* _unexp.main
      Timed(Request("INFO")),
      [OfKind("nop") EXCEPT !.restores = TRUE, !.returns = TRUE],
      OfKind("label")>>

ClientPeer == {[Response("180", "INVITE") EXCEPT !.txn = 1],
               [Response("200", "INVITE") EXCEPT !.txn = 1],
               Response("200", "BYE"), Asks("INFO", 1), Asks("PING", 2)}

\* A client whose INVITE is challenged.
Challenged ==
    <<Retrans(Send("INVITE")),
      Timed(Recv("401")),
      Send("ACK"),
      Retrans(Send("INVITE")),
      Timed(Recv("200"))>>

ChallengedPeer == {Response("401", "INVITE"), Response("200", "INVITE")}

\* A server: an INFO in the dialog may be taken any number of times.
Server ==
    <<Request("INVITE"),
      [Reply("180") EXCEPT !.cond = TRUE],
      Retrans(Reply("200")),
      Timed(Request("ACK")),
      [Optional(Timed(Request("INFO"))) EXCEPT !.next = 5, !.test = TRUE, !.jump = 7],
      OnTimeout(Timed(Request("BYE")), 8),
      Reply("200"),
      OfKind("label"),
      OfKind("timewait")>>

ServerPeer == {Asks("INVITE", 1), Asks("ACK", 1), Asks("ACK", 2), Asks("INFO", 3),
               Asks("BYE", 4)}
=============================================================================
