-------------------------- MODULE ConnectionsProofs --------------------------
(* What holds of the connections, and of the calls that use them, for any    *)
(* command line, any number of calls, peers, ports and connections.          *)
(*                                                                           *)
(* Handlers are operators from a state to the states they may leave, and     *)
(* they call each other; so the invariant is a predicate of a state, Sound,  *)
(* that every one of them keeps, and each lemma says what one of them does   *)
(* to the parts that its callers look at.                                    *)
EXTENDS Connections, FiniteSetTheorems, TLAPS

(* Readers end for good, and with the report that is the last of the events. *)
Streams(w) ==
    /\ \A k \in Conns : w.link[k].st \in {"unused", "handshake"} => w.link[k].reader = "none"
    /\ \A i \in DOMAIN w.events :
          w.events[i].type = "down" => w.link[w.events[i].conn].reader = "done"
    /\ \A i, j \in DOMAIN w.events :
          i < j /\ w.events[i].type = "down" => w.events[j].conn # w.events[i].conn

(* A socket is held by calls of the table, is in the pool, and stands.       *)
InUse(w, k) == k \in w.pool /\ w.link[k].st \in {"up", "half", "reset"}
Sockets(w) ==
    /\ \A c \in Calls : w.calls[c].sock # NoConn =>
          c \in InTable(w) /\ InUse(w, w.calls[c].sock)
    /\ Cardinality(Held(w)) <= cfg.cap

(* The report of a lost socket that calls hold is on its way, and it names   *)
(* the port by which they are found.                                         *)
Reported(w, k) ==
    \E i \in DOMAIN w.events : /\ w.events[i].type = "down" /\ w.events[i].conn = k
                               /\ w.events[i].port = w.link[k].port
Losses(w) ==
    cfg.perCall /\ cfg.kind # "udp" =>
        \A k \in Held(w) : w.link[k].reader = "done" => Reported(w, k)

Budget(w) == cfg.max >= 0 => w.left >= 0 /\ w.dials + w.left <= cfg.max

Sound(w) == /\ cfg \in Configs /\ w \in StateType
            /\ Streams(w) /\ Sockets(w) /\ Losses(w) /\ Budget(w)
            /\ w.halted => InTable(w) \subseteq w.end.late
            /\ w.pending # NoPeer => MayReconnect(w.pending)

(* Two more parts, which a handler may suspend until it is done.             *)
Marked(w) == MayReconnect(Target) /\ w.table[Target] = NoConn => w.invalid
CountedOnce(w) ==
    /\ \A c \in Calls :
          IF w.calls[c].st \in {"successful", "failed"}
          THEN w.counted[c] >= 1 /\ (w.counted[c] > 1 => c \in w.end.guilty)
          ELSE w.counted[c] = 0
    /\ w.end.guilty # {} => w.halted

(* The same, but for a call whose own failure is under way.                  *)
CountedBut(w, b) ==
    \A c \in Calls \ {b} :
        IF w.calls[c].st \in {"successful", "failed"}
        THEN w.counted[c] >= 1 /\ (w.counted[c] > 1 => c \in w.end.guilty)
        ELSE w.counted[c] = 0

(* What a handler must not do to lingering calls, in a form that composes.   *)
Spares(w, v) ==
    /\ w.halted => v.halted
    /\ ~v.halted => \A c \in Calls : w.calls[c].st \in {"completing", "successful"}
                                        => v.calls[c].st \in {"completing", "successful"}

(* From a sound state, a handler leaves one, and spoils nothing.             *)
Proper(w, v) == /\ Sound(v) /\ Spares(w, v)
                /\ Marked(w) => Marked(v)
                /\ CountedOnce(w) => CountedOnce(v)

Inv == Sound(sys) /\ Marked(sys) /\ CountedOnce(sys)

LEMMA NoConnIsNone == NoConn \notin Conns /\ IsFiniteSet(Conns)
  BY TransportAssumption, FS_Interval DEF NoConn, Conns

LEMMA Config ==
  ASSUME cfg \in Configs
  PROVE  /\ cfg.cap \in Nat \ {0} /\ cfg.max \in Int
         /\ cfg.client \in BOOLEAN /\ cfg.perCall \in BOOLEAN /\ cfg.kind \in Kinds
  BY ConnectionsAssumption DEF ConfigType

LEMMA SomePortIsOne == SomePort \in Ports /\ Unused \in LinkType
  <1>1. SomePort \in Ports  BY TransportAssumption DEF SomePort
  <1>2. (CHOOSE p \in Peers : TRUE) \in Peers  BY TransportAssumption
  <1>3. << >> \in Seq(Units("ws"))  OBVIOUS
  <1> QED  BY <1>1, <1>2, <1>3 DEF Unused, LinkType

LEMMA ClosedIsShut ==
  ASSUME NEW l \in LinkType, NEW kind
  PROVE  /\ Closed(l, kind) \in LinkType
         /\ Closed(l, kind).st = "shut"
         /\ l.reader = "done" => Closed(l, kind).reader = "done"
  <1> DEFINE u == [Unused EXCEPT !.st = "shut", !.reader = "done"]
  <1> DEFINE s == [l EXCEPT !.st = "shut"]
  <1>1. u \in LinkType /\ u.st = "shut" /\ u.reader = "done"
    BY SomePortIsOne DEF LinkType
  <1>2. s \in LinkType /\ s.st = "shut" /\ s.reader = l.reader
    BY DEF LinkType
  <1>3. Buried(s) = u
    BY <1>2 DEF Buried
  <1>4. Closed(l, kind) = IF kind = "udp" \/ l.reader = "done" THEN u ELSE s
    BY <1>3 DEF Closed
  <1> QED  BY <1>1, <1>2, <1>4

LEMMA Fields ==
  ASSUME NEW w \in StateType
  PROVE  /\ w.link \in [Conns -> LinkType] /\ w.table \in [Peers -> Conns \cup {NoConn}]
         /\ w.calls \in [Calls -> CallType] /\ w.counted \in [Calls -> Nat]
         /\ w.events \in Seq(EventType)
         /\ \A i \in DOMAIN w.events : w.events[i] \in EventType /\ w.events[i].conn \in Conns
  <1>1. w.events \in Seq(EventType)  BY DEF StateType
  <1>2. \A i \in DOMAIN w.events : w.events[i] \in EventType  BY <1>1
  <1>3. \A e \in EventType : e.conn \in Conns  BY DEF EventType
  <1> QED  BY <1>1, <1>2, <1>3 DEF StateType

LEMMA HeldIsFinite ==
  ASSUME NEW w \in StateType
  PROVE  Held(w) \subseteq Conns /\ IsFiniteSet(Held(w)) /\ Cardinality(Held(w)) \in Nat
  <1>1. Held(w) \subseteq Conns  BY DEF Held, StateType, CallType
  <1> QED  BY <1>1, NoConnIsNone, FS_Subset, FS_CardinalityType

-----------------------------------------------------------------------------
(* Sockets close, calls leave.                                               *)

(* States that differ in their connections only.                             *)
SameBut(w, v) ==
    /\ v.table = w.table /\ v.events = w.events
    /\ v.calls = w.calls /\ v.counted = w.counted /\ v.invalid = w.invalid
    /\ v.pending = w.pending /\ v.left = w.left /\ v.dials = w.dials
    /\ v.halted = w.halted /\ v.end = w.end /\ v.pool = w.pool

LEMMA CloseUnheldCloses ==
  ASSUME NEW w \in StateType
  PROVE  LET v == CloseUnheld(w) IN
         /\ v \in StateType /\ SameBut(w, v)
         /\ \A k \in Conns :
               \/ v.link[k] = w.link[k]
               \/ /\ v.link[k].st = "shut" /\ k \notin Held(w)
                  /\ w.link[k].st \in {"up", "half", "reset"}
                  /\ w.link[k].reader = "done" => v.link[k].reader = "done"
  <1> DEFINE idle == {k \in Conns : /\ w.link[k].own
                                    /\ w.link[k].st \in {"up", "half", "reset"}
                                    /\ k \notin Held(w)}
  <1> DEFINE links == [k \in Conns |-> IF k \in idle THEN Closed(w.link[k], cfg.kind)
                                                    ELSE w.link[k]]
  <1>1. CloseUnheld(w) = [w EXCEPT !.link = links]
    BY DEF CloseUnheld
  <1>2. w.link \in [Conns -> LinkType]  BY DEF StateType
  <1>3. links \in [Conns -> LinkType]
    BY <1>2, ClosedIsShut
  <1>4. ASSUME NEW k \in Conns
        PROVE  \/ links[k] = w.link[k]
               \/ /\ links[k].st = "shut" /\ k \notin Held(w)
                  /\ w.link[k].st \in {"up", "half", "reset"}
                  /\ w.link[k].reader = "done" => links[k].reader = "done"
    <2>1. CASE k \in idle
      <3>1. links[k] = Closed(w.link[k], cfg.kind)  BY <2>1
      <3> QED  BY <3>1, <2>1, <1>2, ClosedIsShut
    <2> QED  BY <2>1
  <1> HIDE DEF links, idle
  <1>5. CloseUnheld(w) \in StateType /\ CloseUnheld(w).link = links
    BY <1>1, <1>3 DEF StateType
  <1>6. SameBut(w, CloseUnheld(w))
    BY <1>1 DEF StateType, SameBut
  <1> QED  BY <1>4, <1>5, <1>6

LEMMA CloseUnheldIsSound ==
  ASSUME NEW w, Sound(w)
  PROVE  Sound(CloseUnheld(w))
  <1> DEFINE v == CloseUnheld(w)
  <1>1. /\ w \in StateType /\ v \in StateType /\ SameBut(w, v)
        /\ \A k \in Conns :
              \/ v.link[k] = w.link[k]
              \/ /\ v.link[k].st = "shut" /\ k \notin Held(w)
                 /\ w.link[k].st \in {"up", "half", "reset"}
                 /\ w.link[k].reader = "done" => v.link[k].reader = "done"
    BY CloseUnheldCloses DEF Sound
  <1> HIDE DEF v
  <1>2. Held(v) = Held(w) /\ InTable(v) = InTable(w)  BY <1>1 DEF Held, InTable, SameBut
  <1>3. \A i \in DOMAIN w.events : w.events[i].conn \in Conns
    BY <1>1, Fields
  <1>4. Streams(v)
    BY <1>1, <1>3 DEF Streams, Sound, SameBut
  <1>5. \A k \in Held(w) : k \in Conns /\ v.link[k] = w.link[k]
    BY <1>1, HeldIsFinite
  <1>6. Sockets(v)
    <2>1. ASSUME NEW c \in Calls, w.calls[c].sock # NoConn
          PROVE  w.calls[c].sock \in Held(w)
      BY <2>1 DEF Held
    <2> QED  BY <1>1, <1>2, <1>5, <2>1 DEF Sockets, Sound, SameBut, InUse
  <1>7. Losses(v)
    BY <1>1, <1>2, <1>5 DEF Losses, Reported, Sound, SameBut
  <1>8. Sound(v)  BY <1>1, <1>2, <1>4, <1>6, <1>7 DEF Sound, SameBut, Budget
  <1> QED  BY <1>8 DEF v

(* Calls change, marks change, and at most sockets are let go.               *)
LEMMA LettingGoIsSound ==
  ASSUME NEW w, Sound(w), NEW u \in StateType,
         u.link = w.link, u.events = w.events, u.pool = w.pool,
         u.left = w.left, u.dials = w.dials,
         \A c \in Calls : /\ u.calls[c].sock \in {w.calls[c].sock, NoConn}
                          /\ u.calls[c].sock # NoConn => c \in InTable(u),
         u.halted => InTable(u) \subseteq u.end.late,
         u.pending # NoPeer => MayReconnect(u.pending)
  PROVE  Sound(u)
  <1>1. Held(u) \subseteq Held(w)
    BY DEF Held
  <1>2. Streams(u)
    BY DEF Streams, Sound
  <1>3. Cardinality(Held(u)) <= cfg.cap
    <2>1. Cardinality(Held(u)) \in Nat /\ Cardinality(Held(w)) \in Nat
      BY HeldIsFinite DEF Sound
    <2>2. Cardinality(Held(u)) <= Cardinality(Held(w)) /\ Cardinality(Held(w)) <= cfg.cap
      BY <1>1, HeldIsFinite, FS_Subset DEF Sound, Sockets
    <2>3. cfg.cap \in Nat  BY Config DEF Sound
    <2> QED  BY <2>1, <2>2, <2>3
  <1>4. \A c \in Calls : u.calls[c].sock # NoConn => InUse(u, u.calls[c].sock)
    BY DEF Sound, Sockets, InUse
  <1>5. Losses(u)
    BY <1>1 DEF Losses, Reported, Sound
  <1> QED  BY <1>2, <1>3, <1>4, <1>5 DEF Sound, Sockets, Budget

(* What stays when calls leave.                                              *)
Kept(w, v) ==
    /\ v.table = w.table /\ v.invalid = w.invalid /\ v.pending = w.pending
    /\ v.halted = w.halted /\ v.end = w.end

LEMMA GoneIsGone ==
  ASSUME NEW l \in CallType, NEW how \in {"successful", "failed"}
  PROVE  Gone(l, how) \in CallType /\ Gone(l, how).st = how /\ Gone(l, how).sock = NoConn
  BY DEF Gone, CallType

LEMMA EndedLeaves ==
  ASSUME NEW w \in StateType, NEW ids \in SUBSET Calls, NEW spared
  PROVE  \E u \in StateType :
            /\ Ended(w, ids, spared) = CloseUnheld(u)
            /\ u.link = w.link /\ u.events = w.events /\ u.pool = w.pool
            /\ u.left = w.left /\ u.dials = w.dials /\ Kept(w, u)
            /\ \A c \in Calls :
                  /\ u.counted[c] = IF c \in ids THEN w.counted[c] + 1 ELSE w.counted[c]
                  /\ u.calls[c].st = IF c \in ids THEN Verdict(w.calls[c].st, spared)
                                                  ELSE w.calls[c].st
                  /\ u.calls[c].sock = IF c \in ids THEN NoConn ELSE w.calls[c].sock
  <1> DEFINE counts == [c \in Calls |-> IF c \in ids THEN w.counted[c] + 1 ELSE w.counted[c]]
  <1> DEFINE calls == [c \in Calls |->
        IF c \in ids THEN Gone(w.calls[c], Verdict(w.calls[c].st, spared))
                     ELSE w.calls[c]]
  <1> DEFINE u == [w EXCEPT !.counted = counts, !.calls = calls]
  <1>1. counts \in [Calls -> Nat]  BY Fields
  <1>2. \A c \in Calls :
          /\ calls[c] \in CallType
          /\ c \in ids => /\ calls[c].st = Verdict(w.calls[c].st, spared)
                          /\ calls[c].sock = NoConn
          /\ c \notin ids => calls[c] = w.calls[c]
    BY Fields, GoneIsGone DEF Verdict
  <1>3. calls \in [Calls -> CallType]  BY <1>2
  <1>4. Ended(w, ids, spared) = CloseUnheld(u)  BY DEF Ended
  <1>5. \A c \in Calls : counts[c] = IF c \in ids THEN w.counted[c] + 1 ELSE w.counted[c]
    OBVIOUS
  <1> HIDE DEF counts, calls
  <1>6. u \in StateType /\ u.counted = counts /\ u.calls = calls
    BY <1>1, <1>3 DEF StateType
  <1>7. /\ u.link = w.link /\ u.events = w.events /\ u.pool = w.pool
        /\ u.left = w.left /\ u.dials = w.dials /\ Kept(w, u)
    BY DEF StateType, Kept
  <1> HIDE DEF u
  <1>8. \A c \in Calls :
          /\ u.counted[c] = IF c \in ids THEN w.counted[c] + 1 ELSE w.counted[c]
          /\ u.calls[c].st = IF c \in ids THEN Verdict(w.calls[c].st, spared)
                                          ELSE w.calls[c].st
          /\ u.calls[c].sock = IF c \in ids THEN NoConn ELSE w.calls[c].sock
    BY <1>2, <1>5, <1>6
  <1> QED  BY <1>4, <1>6, <1>7, <1>8

LEMMA EndedEnds ==
  ASSUME NEW w, Sound(w), NEW ids \in SUBSET Calls, NEW spared
  PROVE  LET v == Ended(w, ids, spared) IN
         /\ Sound(v) /\ Kept(w, v)
         /\ \A c \in Calls :
               /\ v.counted[c] = IF c \in ids THEN w.counted[c] + 1 ELSE w.counted[c]
               /\ v.calls[c].st = IF c \in ids THEN Verdict(w.calls[c].st, spared)
                                               ELSE w.calls[c].st
  <1>0. w \in StateType  BY DEF Sound
  <1>1. PICK u \in StateType :
            /\ Ended(w, ids, spared) = CloseUnheld(u)
            /\ u.link = w.link /\ u.events = w.events /\ u.pool = w.pool
            /\ u.left = w.left /\ u.dials = w.dials /\ Kept(w, u)
            /\ \A c \in Calls :
                  /\ u.counted[c] = IF c \in ids THEN w.counted[c] + 1 ELSE w.counted[c]
                  /\ u.calls[c].st = IF c \in ids THEN Verdict(w.calls[c].st, spared)
                                                  ELSE w.calls[c].st
                  /\ u.calls[c].sock = IF c \in ids THEN NoConn ELSE w.calls[c].sock
    BY <1>0, EndedLeaves
  <1>2. InTable(u) \subseteq InTable(w) /\ \A c \in InTable(w) : c \in InTable(u) \/ c \in ids
    BY <1>1 DEF InTable, Verdict
  <1>3. \A c \in Calls : /\ u.calls[c].sock \in {w.calls[c].sock, NoConn}
                         /\ u.calls[c].sock # NoConn => c \in InTable(u)
    BY <1>1, <1>2 DEF Sound, Sockets
  <1>4. Sound(u)
    BY <1>1, <1>2, <1>3, LettingGoIsSound DEF Sound, Kept
  <1>5. Sound(CloseUnheld(u)) /\ SameBut(u, CloseUnheld(u))
    BY <1>4, CloseUnheldIsSound, CloseUnheldCloses
  <1> QED  BY <1>1, <1>5 DEF SameBut, Kept

LEMMA RemovedRemoves ==
  ASSUME NEW w, Sound(w), NEW c \in InTable(w), NEW how \in {"successful", "failed"}
  PROVE  LET v == Removed(w, c, how) IN
         /\ Sound(v) /\ Kept(w, v) /\ v.counted = w.counted
         /\ \A d \in Calls : v.calls[d].st = IF d = c THEN how ELSE w.calls[d].st
  <1> DEFINE e == Gone(w.calls[c], how)
  <1> DEFINE calls == [w.calls EXCEPT ![c] = e]
  <1> DEFINE u == [w EXCEPT !.calls = calls]
  <1>0. w \in StateType /\ c \in Calls  BY DEF Sound, InTable
  <1>1. Removed(w, c, how) = CloseUnheld(u)  BY DEF Removed
  <1>3. e \in CallType /\ e.st = how /\ e.sock = NoConn
    BY <1>0, Fields, GoneIsGone
  <1> HIDE DEF e
  <1>5. calls \in [Calls -> CallType] /\ calls[c] = e /\ \A d \in Calls \ {c} : calls[d] = w.calls[d]
    BY <1>0, <1>3, Fields
  <1> HIDE DEF calls
  <1>7. u \in StateType /\ u.calls = calls
    BY <1>0, <1>5 DEF StateType
  <1>8. /\ u.link = w.link /\ u.events = w.events /\ u.pool = w.pool /\ u.counted = w.counted
        /\ u.left = w.left /\ u.dials = w.dials /\ Kept(w, u)
    BY <1>0 DEF StateType, Kept
  <1> HIDE DEF u
  <1>9. InTable(u) = InTable(w) \ {c}
    BY <1>3, <1>5, <1>7 DEF InTable
  <1>10. \A d \in Calls : /\ u.calls[d].sock \in {w.calls[d].sock, NoConn}
                          /\ u.calls[d].sock # NoConn => d \in InTable(u)
    BY <1>3, <1>5, <1>7, <1>9 DEF Sound, Sockets
  <1>11. Sound(u)
    BY <1>7, <1>8, <1>9, <1>10, LettingGoIsSound DEF Sound, Kept
  <1>12. Sound(CloseUnheld(u))  BY <1>11, CloseUnheldIsSound
  <1>13. SameBut(u, CloseUnheld(u))  BY <1>7, CloseUnheldCloses
  <1> QED  BY <1>0, <1>1, <1>3, <1>5, <1>7, <1>8, <1>12, <1>13 DEF SameBut, Kept

LEMMA CountedCounts ==
  ASSUME NEW w, Sound(w), NEW c \in Calls
  PROVE  LET v == Counted(w, c) IN
         /\ Sound(v) /\ Kept(w, v) /\ v.calls = w.calls /\ InTable(v) = InTable(w)
         /\ \A d \in Calls : v.counted[d] = IF d = c THEN w.counted[d] + 1 ELSE w.counted[d]
  <1> DEFINE u == Counted(w, c)
  <1>0. w \in StateType  BY DEF Sound
  <1>1. u = [w EXCEPT !.counted = [w.counted EXCEPT ![c] = @ + 1]]
    BY <1>0 DEF Counted, StateType
  <1>2. [w.counted EXCEPT ![c] = @ + 1] \in [Calls -> Nat]  BY <1>0, Fields
  <1>3. u \in StateType /\ u.counted = [w.counted EXCEPT ![c] = @ + 1]
    BY <1>0, <1>1, <1>2 DEF StateType
  <1>4. /\ u.link = w.link /\ u.events = w.events /\ u.pool = w.pool /\ u.calls = w.calls
        /\ u.left = w.left /\ u.dials = w.dials /\ Kept(w, u)
    BY <1>0, <1>1 DEF StateType, Kept
  <1>5. \A d \in Calls : u.counted[d] = IF d = c THEN w.counted[d] + 1 ELSE w.counted[d]
    BY <1>0, <1>3, Fields
  <1> HIDE DEF u
  <1>6. InTable(u) = InTable(w)  BY <1>4 DEF InTable
  <1>7. Sound(u)
    BY <1>3, <1>4, <1>6, LettingGoIsSound DEF Sound, Sockets, Kept
  <1> QED  BY <1>4, <1>5, <1>6, <1>7 DEF u

-----------------------------------------------------------------------------
(* What is proper.                                                           *)

LEMMA ProperComposes ==
  ASSUME NEW w, NEW v, NEW u, Proper(w, v), Proper(v, u)
  PROVE  Proper(w, u)
  BY DEF Proper, Spares

LEMMA StayingIsProper ==
  ASSUME NEW w, Sound(w)
  PROVE  Proper(w, w)
  BY DEF Proper, Spares

(* Nothing that is done to a run that is over can be improper, but its       *)
(* counts.                                                                   *)
LEMMA HaltedIsProper ==
  ASSUME NEW w, NEW v, Sound(v), v.halted, Marked(w) => Marked(v),
         CountedOnce(w) => CountedOnce(v)
  PROVE  Proper(w, v)
  BY DEF Proper, Spares

LEMMA ClosesCallsIsProper ==
  ASSUME NEW w, Sound(w), NEW ids \in SUBSET InTable(w)
  PROVE  Proper(w, ClosesCalls(w, ids)) /\ Kept(w, ClosesCalls(w, ids))
  <1> DEFINE v == Ended(w, ids, {"completing"})
  <1>1. /\ Sound(v) /\ Kept(w, v)
        /\ \A c \in Calls :
              /\ v.counted[c] = IF c \in ids THEN w.counted[c] + 1 ELSE w.counted[c]
              /\ v.calls[c].st = IF c \in ids THEN Verdict(w.calls[c].st, {"completing"})
                                              ELSE w.calls[c].st
    BY EndedEnds DEF InTable
  <1> HIDE DEF v
  <1>2. CountedOnce(w) => CountedOnce(v)
    BY <1>1 DEF CountedOnce, Kept, Verdict, InTable
  <1>3. Spares(w, v)  BY <1>1 DEF Spares, Kept, Verdict, InTable
  <1>4. Marked(w) => Marked(v)  BY <1>1 DEF Marked, Kept
  <1> QED  BY <1>1, <1>2, <1>3, <1>4 DEF Proper, ClosesCalls, v

(* A call that is counted, then removed.                                     *)
LEMMA CountedThenRemoved ==
  ASSUME NEW w, Sound(w), NEW c \in InTable(w), NEW how \in {"successful", "failed"},
         w.calls[c].st = "completing" => how = "successful"
  PROVE  LET v == Removed(Counted(w, c), c, how)
         IN  Proper(w, v) /\ Kept(w, v) /\ InTable(v) = InTable(w) \ {c}
  <1> DEFINE u == Counted(w, c)
  <1> DEFINE v == Removed(u, c, how)
  <1>0. c \in Calls  BY DEF InTable
  <1>1. /\ Sound(u) /\ Kept(w, u) /\ u.calls = w.calls /\ InTable(u) = InTable(w)
        /\ \A d \in Calls : u.counted[d] = IF d = c THEN w.counted[d] + 1 ELSE w.counted[d]
    BY <1>0, CountedCounts
  <1> HIDE DEF u
  <1>2. /\ Sound(v) /\ Kept(u, v) /\ v.counted = u.counted
        /\ \A d \in Calls : v.calls[d].st = IF d = c THEN how ELSE u.calls[d].st
    BY <1>1, RemovedRemoves
  <1> HIDE DEF v
  <1>3. CountedOnce(w) => CountedOnce(v)
    BY <1>0, <1>1, <1>2 DEF CountedOnce, Kept, InTable
  <1>4. Spares(w, v)  BY <1>1, <1>2 DEF Spares, Kept, InTable
  <1>5. Marked(w) => Marked(v)  BY <1>1, <1>2 DEF Marked, Kept
  <1>6. InTable(v) = InTable(w) \ {c}  BY <1>1, <1>2 DEF InTable
  <1>7. Proper(w, v) /\ Kept(w, v)  BY <1>1, <1>2, <1>3, <1>4, <1>5 DEF Proper, Kept
  <1> QED  BY <1>6, <1>7 DEF u, v

LEMMA FailedIsProper ==
  ASSUME NEW w, Sound(w), NEW c \in Calls, w.calls[c].st = "live"
  PROVE  Proper(w, Failed(w, c)) /\ Kept(w, Failed(w, c))
  BY CountedThenRemoved DEF Failed, InTable

LEMMA CompletedIsProper ==
  ASSUME NEW w, Sound(w), NEW c \in InTable(w)
  PROVE  Proper(w, Completed(w, c))
  BY CountedThenRemoved DEF Completed

(* The run stops when its table is empty.                                    *)
LEMMA Stopping ==
  ASSUME NEW w, Sound(w), InTable(w) = {}
  PROVE  LET v == [w EXCEPT !.halted = TRUE] IN
         /\ Sound(v) /\ v.halted /\ InTable(v) = {}
         /\ v.calls = w.calls /\ v.counted = w.counted /\ v.end = w.end
         /\ v.table = w.table /\ v.invalid = w.invalid
  <1> DEFINE v == [w EXCEPT !.halted = TRUE]
  <1>0. w \in StateType  BY DEF Sound
  <1>1. /\ v \in StateType /\ v.link = w.link /\ v.events = w.events /\ v.pool = w.pool
        /\ v.left = w.left /\ v.dials = w.dials /\ v.calls = w.calls /\ v.pending = w.pending
        /\ v.table = w.table /\ v.invalid = w.invalid /\ v.halted
        /\ v.counted = w.counted /\ v.end = w.end
    BY <1>0 DEF StateType
  <1> HIDE DEF v
  <1>2. InTable(v) = {}  BY <1>1 DEF InTable
  <1>3. Sound(v)
    BY <1>1, <1>2, LettingGoIsSound DEF Sound, Sockets
  <1> QED  BY <1>1, <1>2, <1>3 DEF v

(* A call is to blame for the end of the run.                                *)
LEMMA Blaming ==
  ASSUME NEW w, Sound(w), NEW c \in Calls
  PROVE  LET v == Blamed(w, c) IN
         /\ Sound(v) /\ InTable(v) = InTable(w)
         /\ v.calls = w.calls /\ v.counted = w.counted /\ v.halted = w.halted
         /\ v.table = w.table /\ v.invalid = w.invalid
         /\ v.end.guilty = w.end.guilty \cup {c}
  <1> DEFINE guilty == w.end.guilty \cup {c}
  <1> DEFINE end == [w.end EXCEPT !.guilty = guilty]
  <1> DEFINE v == [w EXCEPT !.end = end]
  <1>0. /\ w \in StateType
        /\ w.end \in [late: SUBSET Calls, turn: SUBSET Calls, guilty: SUBSET Calls]
    BY DEF Sound, StateType
  <1>1. guilty \in SUBSET Calls  BY <1>0
  <1>2. Blamed(w, c) = v  BY <1>0 DEF Blamed, StateType
  <1> HIDE DEF guilty
  <1>3. /\ end \in [late: SUBSET Calls, turn: SUBSET Calls, guilty: SUBSET Calls]
        /\ end.late = w.end.late /\ end.guilty = guilty
    BY <1>0, <1>1
  <1> HIDE DEF end
  <1>4. /\ v \in StateType /\ v.link = w.link /\ v.events = w.events /\ v.pool = w.pool
        /\ v.left = w.left /\ v.dials = w.dials /\ v.calls = w.calls /\ v.pending = w.pending
        /\ v.table = w.table /\ v.invalid = w.invalid /\ v.halted = w.halted
        /\ v.counted = w.counted /\ v.end = end
    BY <1>0, <1>3 DEF StateType
  <1> HIDE DEF v
  <1>5. InTable(v) = InTable(w)  BY <1>4 DEF InTable
  <1>6. Sound(v)
    BY <1>3, <1>4, <1>5, LettingGoIsSound DEF Sound, Sockets
  <1> QED  BY <1>2, <1>3, <1>4, <1>5, <1>6 DEF guilty

LEMMA EveryoneLeaves ==
  ASSUME NEW w, Sound(w)
  PROVE  LET v == Ended(w, InTable(w), {}) IN
         /\ Sound(v) /\ Kept(w, v) /\ InTable(v) = {}
         /\ \A c \in Calls :
               /\ v.counted[c] = IF c \in InTable(w) THEN w.counted[c] + 1 ELSE w.counted[c]
               /\ v.calls[c].st = IF c \in InTable(w) THEN "failed" ELSE w.calls[c].st
  <1> DEFINE v == Ended(w, InTable(w), {})
  <1>1. InTable(w) \in SUBSET Calls  BY DEF InTable
  <1>2. /\ Sound(v) /\ Kept(w, v)
        /\ \A c \in Calls :
              /\ v.counted[c] = IF c \in InTable(w) THEN w.counted[c] + 1 ELSE w.counted[c]
              /\ v.calls[c].st = IF c \in InTable(w) THEN Verdict(w.calls[c].st, {})
                                                     ELSE w.calls[c].st
    BY <1>1, EndedEnds
  <1> HIDE DEF v
  <1>3. \A c \in Calls : v.calls[c].st = IF c \in InTable(w) THEN "failed" ELSE w.calls[c].st
    BY <1>2 DEF Verdict
  <1>4. InTable(v) = {}  BY <1>3 DEF InTable
  <1> QED  BY <1>2, <1>3, <1>4 DEF v

(* A call that was about to be counted for its own failure is counted with   *)
(* all the others: it is to blame, and nobody else is counted twice.         *)
LEMMA FailingAllQuietly ==
  ASSUME NEW w, Sound(w), NEW c \in InTable(w)
  PROVE  LET v == FailsAllQuietly(w, c) IN
         /\ Sound(v) /\ v.halted /\ InTable(v) = {}
         /\ Marked(w) => Marked(v)
         /\ c \in v.end.guilty /\ v.calls[c].st = "failed"
         /\ CountedBut(w, c) => CountedOnce(v)
  <1> DEFINE e == Ended(w, InTable(w), {})
  <1> DEFINE b == Blamed(e, c)
  <1> DEFINE v == [b EXCEPT !.halted = TRUE]
  <1>0. c \in Calls /\ w.counted \in [Calls -> Nat]  BY Fields DEF InTable, Sound
  <1>1. /\ Sound(e) /\ Kept(w, e) /\ InTable(e) = {}
        /\ \A d \in Calls :
              /\ e.counted[d] = IF d \in InTable(w) THEN w.counted[d] + 1 ELSE w.counted[d]
              /\ e.calls[d].st = IF d \in InTable(w) THEN "failed" ELSE w.calls[d].st
    BY EveryoneLeaves
  <1> HIDE DEF e
  <1>2. /\ Sound(b) /\ InTable(b) = {}
        /\ b.calls = e.calls /\ b.counted = e.counted
        /\ b.table = e.table /\ b.invalid = e.invalid
        /\ b.end.guilty = e.end.guilty \cup {c}
    BY <1>0, <1>1, Blaming
  <1> HIDE DEF b
  <1>3. /\ Sound(v) /\ v.halted /\ InTable(v) = {}
        /\ v.calls = b.calls /\ v.counted = b.counted /\ v.end = b.end
        /\ v.table = b.table /\ v.invalid = b.invalid
    BY <1>2, Stopping
  <1> HIDE DEF v
  <1>4. ASSUME CountedBut(w, c)
        PROVE  CountedOnce(v)
    <2>1. ASSUME NEW d \in Calls
          PROVE  IF v.calls[d].st \in {"successful", "failed"}
                 THEN v.counted[d] >= 1 /\ (v.counted[d] > 1 => d \in v.end.guilty)
                 ELSE v.counted[d] = 0
      <3>1. CASE d = c
        BY <1>0, <1>1, <1>2, <1>3, <3>1
      <3>2. CASE d # c
        BY <1>1, <1>2, <1>3, <1>4, <3>2 DEF CountedBut, Kept, InTable
      <3> QED  BY <3>1, <3>2
    <2> QED  BY <1>3, <2>1 DEF CountedOnce
  <1>5. Marked(w) => Marked(v)  BY <1>1, <1>2, <1>3 DEF Marked, Kept
  <1>6. c \in v.end.guilty /\ v.calls[c].st = "failed"
    BY <1>0, <1>1, <1>2, <1>3
  <1> QED  BY <1>3, <1>4, <1>5, <1>6 DEF FailsAllQuietly, e, b, v

(* Everyone leaves, and one of them perhaps counted once more.               *)
LEMMA Halting ==
  ASSUME NEW w, Sound(w), NEW c \in Calls,
         NEW u, \/ u = Ended(w, InTable(w), {})
                \/ /\ c \in InTable(w)
                   /\ u = Blamed(Counted(Ended(w, InTable(w), {}), c), c)
  PROVE  LET v == [u EXCEPT !.halted = TRUE] IN
         /\ Proper(w, v) /\ v.halted /\ InTable(v) = {}
         /\ \A d \in InTable(w) : v.calls[d].st = "failed"
  <1> DEFINE e == Ended(w, InTable(w), {})
  <1> DEFINE n == Counted(e, c)
  <1> DEFINE v == [u EXCEPT !.halted = TRUE]
  <1>1. /\ Sound(e) /\ Kept(w, e) /\ InTable(e) = {}
        /\ \A d \in Calls :
              /\ e.counted[d] = IF d \in InTable(w) THEN w.counted[d] + 1 ELSE w.counted[d]
              /\ e.calls[d].st = IF d \in InTable(w) THEN "failed" ELSE w.calls[d].st
    BY EveryoneLeaves
  <1>2. u = e \/ (c \in InTable(w) /\ u = Blamed(n, c))  OBVIOUS
  <1> HIDE DEF e
  <1>3. /\ Sound(n) /\ Kept(e, n) /\ n.calls = e.calls /\ InTable(n) = {}
        /\ \A d \in Calls : n.counted[d] = IF d = c THEN e.counted[d] + 1 ELSE e.counted[d]
    BY <1>1, CountedCounts
  <1> HIDE DEF n
  <1>4. /\ Sound(u) /\ InTable(u) = {} /\ u.calls = e.calls
        /\ u.table = w.table /\ u.invalid = w.invalid
        /\ \/ u.counted = e.counted /\ u.end.guilty = w.end.guilty
           \/ /\ c \in InTable(w) /\ u.counted = n.counted
              /\ u.end.guilty = w.end.guilty \cup {c}
    <2>1. CASE u = e  BY <1>1, <2>1 DEF Kept
    <2>2. CASE c \in InTable(w) /\ u = Blamed(n, c)
      <3>1. /\ Sound(u) /\ InTable(u) = InTable(n)
            /\ u.calls = n.calls /\ u.counted = n.counted
            /\ u.table = n.table /\ u.invalid = n.invalid
            /\ u.end.guilty = n.end.guilty \cup {c}
        BY <1>3, <2>2, Blaming
      <3> QED  BY <1>1, <1>3, <2>2, <3>1 DEF Kept
    <2> QED  BY <1>2, <2>1, <2>2
  <1>5. /\ Sound(v) /\ v.halted /\ InTable(v) = {}
        /\ v.calls = u.calls /\ v.counted = u.counted /\ v.end = u.end
        /\ v.table = u.table /\ v.invalid = u.invalid
    BY <1>4, Stopping
  <1> HIDE DEF v
  <1>6. ASSUME CountedOnce(w)
        PROVE  CountedOnce(v)
    <2>1. ASSUME NEW d \in Calls
          PROVE  IF v.calls[d].st \in {"successful", "failed"}
                 THEN v.counted[d] >= 1 /\ (v.counted[d] > 1 => d \in v.end.guilty)
                 ELSE v.counted[d] = 0
      <3>1. IF e.calls[d].st \in {"successful", "failed"}
            THEN e.counted[d] >= 1 /\ (e.counted[d] > 1 => d \in w.end.guilty)
            ELSE e.counted[d] = 0
        BY <1>1, <1>6 DEF CountedOnce, InTable
      <3>2. e.counted[d] \in Nat  BY <1>1, Fields DEF Sound
      <3>3. CASE u.counted = e.counted /\ u.end.guilty = w.end.guilty
        BY <1>4, <1>5, <3>1, <3>3
      <3>4. CASE /\ c \in InTable(w) /\ u.counted = n.counted
                 /\ u.end.guilty = w.end.guilty \cup {c}
        <4>1. d = c => e.calls[d].st = "failed"  BY <1>1, <3>4
        <4> QED  BY <1>3, <1>4, <1>5, <3>1, <3>2, <3>4, <4>1
      <3> QED  BY <1>4, <3>3, <3>4
    <2> QED  BY <1>5, <2>1 DEF CountedOnce
  <1>7. Marked(w) => Marked(v)  BY <1>4, <1>5 DEF Marked
  <1>8. \A d \in InTable(w) : v.calls[d].st = "failed"
    BY <1>1, <1>4, <1>5 DEF InTable
  <1>9. Proper(w, v)  BY <1>5, <1>6, <1>7, HaltedIsProper
  <1> QED  BY <1>5, <1>8, <1>9 DEF v

(* A send leaves marks at most.                                              *)
LEMMA SendsMark ==
  ASSUME NEW w, Sound(w), NEW c \in Calls, NEW r \in Sends(w, c)
  PROVE  /\ Proper(w, r.w) /\ r.w.calls = w.calls /\ r.w.halted = w.halted /\ r.w.end = w.end
         /\ r.w.counted = w.counted
  <1> DEFINE to == w.calls[c].remote
  <1> DEFINE noted == [w EXCEPT !.invalid = TRUE, !.pending = to]
  <1>0. w \in StateType /\ to \in Peers  BY Fields DEF Sound, CallType
  <1>1. r.w = w \/ (r.w = noted /\ MayReconnect(to))
    BY DEF Sends
  <1>2. CASE r.w = w
    BY <1>2, StayingIsProper
  <1>3. CASE r.w = noted /\ MayReconnect(to)
    <2> HIDE DEF to
    <2>1. /\ noted \in StateType /\ noted.link = w.link /\ noted.events = w.events
          /\ noted.pool = w.pool /\ noted.left = w.left /\ noted.dials = w.dials
          /\ noted.calls = w.calls /\ noted.counted = w.counted /\ noted.table = w.table
          /\ noted.halted = w.halted /\ noted.end = w.end /\ noted.pending = to /\ noted.invalid
      BY <1>0 DEF StateType
    <2> HIDE DEF noted
    <2>2. InTable(noted) = InTable(w)  BY <2>1 DEF InTable
    <2>3. Sound(noted)
      BY <1>3, <2>1, <2>2, LettingGoIsSound DEF Sound, Sockets
    <2>4. Proper(w, noted)
      BY <2>1, <2>3 DEF Proper, Spares, Marked, CountedOnce
    <2> QED  BY <1>3, <2>1, <2>4
  <1> QED  BY <1>1, <1>2, <1>3

(* fail_all, and the goodbyes that it sends on the way.                      *)
LEMMA HaltsIsProper ==
  ASSUME NEW w, Sound(w), NEW v \in Halts(w)
  PROVE  /\ Proper(w, v) /\ v.halted /\ InTable(v) = {}
         /\ \A d \in InTable(w) : v.calls[d].st = "failed"
  <1>1. PICK u \in FailsAll(w) : v = [u EXCEPT !.halted = TRUE]
    BY DEF Halts
  <1>2. \/ u = Ended(w, InTable(w), {})
        \/ \E c \in InTable(w) : \E r \in Sends(w, c) :
              \/ u = Ended(r.w, InTable(w), {})
              \/ u = Blamed(Counted(Ended(r.w, InTable(w), {}), c), c)
    BY <1>1 DEF FailsAll
  <1>3. CASE u = Ended(w, InTable(w), {})
    <2>1. CASE Calls = {}
      <3>1. InTable(w) = {}  BY <2>1 DEF InTable
      <3>2. /\ Sound(u) /\ Kept(w, u) /\ InTable(u) = {}
        BY <1>3, EveryoneLeaves
      <3>3. /\ Sound(v) /\ v.halted /\ InTable(v) = {}
            /\ v.table = u.table /\ v.invalid = u.invalid
        BY <1>1, <3>2, Stopping
      <3>4. CountedOnce(v)  BY <2>1, <3>3 DEF CountedOnce
      <3> QED  BY <3>1, <3>2, <3>3, <3>4, HaltedIsProper DEF Marked, Kept
    <2>2. CASE Calls # {}
      <3>1. PICK c \in Calls : TRUE  BY <2>2
      <3> QED  BY <1>1, <1>3, <3>1, Halting
    <2> QED  BY <2>1, <2>2
  <1>4. ASSUME NEW c \in InTable(w), NEW r \in Sends(w, c),
               \/ u = Ended(r.w, InTable(w), {})
               \/ u = Blamed(Counted(Ended(r.w, InTable(w), {}), c), c)
        PROVE  /\ Proper(w, v) /\ v.halted /\ InTable(v) = {}
               /\ \A d \in InTable(w) : v.calls[d].st = "failed"
    <2>1. c \in Calls  BY DEF InTable
    <2>2. Proper(w, r.w) /\ r.w.calls = w.calls  BY <2>1, SendsMark
    <2>3. Sound(r.w) /\ InTable(r.w) = InTable(w)  BY <2>2 DEF Proper, InTable
    <2>4. /\ Proper(r.w, v) /\ v.halted /\ InTable(v) = {}
          /\ \A d \in InTable(w) : v.calls[d].st = "failed"
      BY <1>1, <1>4, <2>1, <2>3, Halting
    <2> QED  BY <2>2, <2>4, ProperComposes
  <1> QED  BY <1>2, <1>3, <1>4

LEMMA SendsDefaultIsProper ==
  ASSUME NEW w, Sound(w), NEW c \in InTable(w), NEW v \in SendsDefault(w, c)
  PROVE  /\ Proper(w, v)
         /\ \/ /\ v.calls = w.calls /\ v.halted = w.halted
               /\ v.end = w.end /\ v.counted = w.counted
            \/ /\ v.halted /\ InTable(v) = {}
               /\ c \in v.end.guilty /\ v.calls[c].st = "failed"
               /\ CountedBut(w, c) => CountedOnce(v)
  <1>1. PICK r \in Sends(w, c) : v = r.w \/ v = FailsAllQuietly(r.w, c)
    BY DEF SendsDefault
  <1>2. /\ Proper(w, r.w) /\ r.w.calls = w.calls /\ r.w.halted = w.halted
        /\ r.w.end = w.end /\ r.w.counted = w.counted
    BY SendsMark DEF InTable
  <1>3. CASE v = r.w  BY <1>2, <1>3
  <1>4. CASE v = FailsAllQuietly(r.w, c)
    <2>1. Sound(r.w) /\ c \in InTable(r.w)  BY <1>2 DEF Proper, InTable
    <2>2. /\ Sound(v) /\ v.halted /\ InTable(v) = {}
          /\ Marked(r.w) => Marked(v)
          /\ c \in v.end.guilty /\ v.calls[c].st = "failed"
          /\ CountedBut(r.w, c) => CountedOnce(v)
      BY <1>4, <2>1, FailingAllQuietly
    <2>3. CountedBut(w, c) => CountedOnce(v)  BY <1>2, <2>2 DEF CountedBut
    <2>4. CountedOnce(w) => CountedBut(w, c)  BY DEF CountedOnce, CountedBut
    <2>5. Proper(w, v)
      BY <1>2, <2>2, <2>3, <2>4, HaltedIsProper DEF Proper
    <2> QED  BY <2>2, <2>3, <2>5
  <1> QED  BY <1>1, <1>3, <1>4

LEMMA RemovedFromNoTable ==
  ASSUME NEW w, NEW c, NEW how, c \notin InTable(w)
  PROVE  Removed(w, c, how) = w
  BY DEF Removed

(* The call is counted, says goodbye, and leaves, unless everyone left.      *)
LEMMA FailsCallIsProper ==
  ASSUME NEW w, Sound(w), NEW c \in Calls, w.calls[c].st = "live", NEW v \in FailsCall(w, c)
  PROVE  Proper(w, v)
  <1> DEFINE n == Counted(w, c)
  <1>1. c \in InTable(w)  BY DEF InTable
  <1>2. /\ Sound(n) /\ Kept(w, n) /\ n.calls = w.calls /\ InTable(n) = InTable(w)
        /\ \A d \in Calls : n.counted[d] = IF d = c THEN w.counted[d] + 1 ELSE w.counted[d]
    BY CountedCounts
  <1>3. PICK u \in {n} \cup SendsDefault(n, c) : v = Removed(u, c, "failed")
    BY <1>1 DEF FailsCall
  <1> HIDE DEF n
  <1>4. /\ Sound(u)
        /\ Marked(n) => Marked(u)
        /\ \/ u.calls = n.calls /\ u.halted = n.halted /\ u.end = n.end /\ u.counted = n.counted
           \/ u.halted /\ InTable(u) = {} /\ (CountedBut(n, c) => CountedOnce(u))
    BY <1>1, <1>2, <1>3, SendsDefaultIsProper DEF Proper
  <1>5. CASE u.halted /\ InTable(u) = {} /\ (CountedBut(n, c) => CountedOnce(u))
    <2>1. v = u  BY <1>3, <1>5, RemovedFromNoTable
    <2>2. CountedOnce(w) => CountedBut(n, c)
      BY <1>2 DEF CountedOnce, CountedBut, Kept
    <2> QED  BY <1>2, <1>4, <1>5, <2>1, <2>2, HaltedIsProper DEF Marked, Kept
  <1>6. CASE u.calls = n.calls /\ u.halted = n.halted /\ u.end = n.end /\ u.counted = n.counted
    <2>1. c \in InTable(u)  BY <1>1, <1>2, <1>6 DEF InTable
    <2>2. /\ Sound(v) /\ Kept(u, v) /\ v.counted = u.counted
          /\ \A d \in Calls : v.calls[d].st = IF d = c THEN "failed" ELSE u.calls[d].st
      BY <1>3, <1>4, <2>1, RemovedRemoves
    <2>3. CountedOnce(w) => CountedOnce(v)
      BY <1>1, <1>2, <1>6, <2>2 DEF CountedOnce, Kept, InTable
    <2>4. Spares(w, v)  BY <1>2, <1>6, <2>2 DEF Spares, Kept
    <2>5. Marked(w) => Marked(v)  BY <1>2, <1>4, <2>2 DEF Marked, Kept
    <2> QED  BY <2>2, <2>3, <2>4, <2>5 DEF Proper
  <1> QED  BY <1>4, <1>5, <1>6

(* A call that is counted after its handler may have failed everyone.        *)
LEMMA FailsFromActionIsProper ==
  ASSUME NEW w, Sound(w), NEW c \in Calls,
         \/ w.calls[c].st = "live"
         \/ /\ w.halted /\ InTable(w) = {}
            /\ c \in w.end.guilty /\ w.calls[c].st = "failed"
  PROVE  Proper(w, FailsFromAction(w, c))
  <1>1. CASE w.calls[c].st = "live"
    BY <1>1, CountedThenRemoved DEF FailsFromAction, InTable
  <1>2. CASE /\ w.halted /\ InTable(w) = {}
             /\ c \in w.end.guilty /\ w.calls[c].st = "failed"
    <2> DEFINE n == Counted(w, c)
    <2>1. /\ Sound(n) /\ Kept(w, n) /\ InTable(n) = {} /\ n.calls = w.calls
          /\ \A d \in Calls : n.counted[d] = IF d = c THEN w.counted[d] + 1 ELSE w.counted[d]
      BY <1>2, CountedCounts
    <2>2. FailsFromAction(w, c) = n  BY <2>1, RemovedFromNoTable DEF FailsFromAction
    <2> HIDE DEF n
    <2>3. w.counted[c] \in Nat  BY Fields DEF Sound
    <2>4. CountedOnce(w) => CountedOnce(n)
      BY <1>2, <2>1, <2>3 DEF CountedOnce, Kept
    <2> QED  BY <1>2, <2>1, <2>2, <2>4, HaltedIsProper DEF Marked, Kept
  <1> QED  BY <1>1, <1>2

-----------------------------------------------------------------------------
(* Connections open.                                                         *)

LEMMA OpenOpens ==
  ASSUME NEW w, Sound(w), NEW k \in Conns, w.link[k].st = "unused",
         NEW p \in Peers, NEW q \in Ports, NEW own \in BOOLEAN
  PROVE  LET v == Open(w, k, p, q, own) IN
         /\ Proper(w, v) /\ SameBut(w, v) /\ k \notin Held(v)
         /\ v.link[k].peer = p /\ v.link[k].reader = "reading" /\ v.link[k].st = "up"
  <1> DEFINE l == [Unused EXCEPT !.st = "up", !.peer = p, !.port = q,
                                 !.reader = "reading", !.own = own]
  <1> DEFINE links == [w.link EXCEPT ![k] = l]
  <1> DEFINE v == [w EXCEPT !.link = links]
  <1>0. w \in StateType  BY DEF Sound
  <1>1. l \in LinkType /\ l.st = "up" /\ l.peer = p /\ l.reader = "reading"
    BY SomePortIsOne DEF LinkType
  <1>2. Open(w, k, p, q, own) = v
    BY <1>0 DEF Open, StateType
  <1> HIDE DEF l
  <1>3. links \in [Conns -> LinkType] /\ links[k] = l /\ \A j \in Conns \ {k} : links[j] = w.link[j]
    BY <1>0, <1>1, Fields
  <1> HIDE DEF links
  <1>4. v \in StateType /\ v.link = links /\ SameBut(w, v)
    BY <1>0, <1>3 DEF StateType, SameBut
  <1> HIDE DEF v
  <1>5. Held(v) = Held(w) /\ InTable(v) = InTable(w)  BY <1>4 DEF Held, InTable, SameBut
  <1>6. k \notin Held(w)
    BY DEF Sound, Sockets, InUse, Held
  <1>7. Streams(v)
    <2>1. w.link[k].reader = "none"  BY DEF Sound, Streams
    <2>2. \A i \in DOMAIN w.events : w.events[i].conn \in Conns  BY <1>0, Fields
    <2> QED  BY <1>1, <1>3, <1>4, <2>1, <2>2 DEF Streams, Sound, SameBut
  <1>8. \A j \in Held(w) : j \in Conns /\ v.link[j] = w.link[j]
    BY <1>0, <1>3, <1>4, <1>6, HeldIsFinite
  <1>9. Sockets(v)
    <2>1. ASSUME NEW c \in Calls, w.calls[c].sock # NoConn
          PROVE  w.calls[c].sock \in Held(w)
      BY <2>1 DEF Held
    <2> QED  BY <1>4, <1>5, <1>8, <2>1 DEF Sockets, Sound, SameBut, InUse
  <1>10. Losses(v)
    <2> SUFFICES ASSUME cfg.perCall, cfg.kind # "udp", NEW j \in Held(v), v.link[j].reader = "done"
                 PROVE  Reported(v, j)
      BY DEF Losses
    <2>1. j \in Held(w) /\ v.link[j] = w.link[j]  BY <1>5, <1>8
    <2>2. Reported(w, j)  BY <2>1 DEF Losses, Sound
    <2> QED  BY <1>4, <2>1, <2>2 DEF Reported, SameBut
  <1>11. Sound(v)
    BY <1>4, <1>5, <1>7, <1>9, <1>10 DEF Sound, SameBut, Budget
  <1>12. Proper(w, v)
    BY <1>4, <1>11 DEF Proper, SameBut, Spares, Marked, CountedOnce
  <1> QED  BY <1>1, <1>2, <1>3, <1>4, <1>5, <1>6, <1>12

LEMMA RegisterRegisters ==
  ASSUME NEW w, Sound(w), NEW k \in Conns, k \notin Held(w), w.link[k].reader # "done"
  PROVE  LET v == Register(w, k) IN
         /\ Proper(w, v) /\ v.table[w.link[k].peer] = k /\ v.calls = w.calls
         /\ v.counted = w.counted /\ v.halted = w.halted /\ v.end = w.end
  <1> DEFINE p == w.link[k].peer
  <1> DEFINE l == [w.link[k] EXCEPT !.reader = "reading", !.st = "up"]
  <1> DEFINE links == [w.link EXCEPT ![k] = l]
  <1> DEFINE table == [w.table EXCEPT ![p] = k]
  <1> DEFINE v == [w EXCEPT !.table = table, !.link = links]
  <1>0. w \in StateType  BY DEF Sound
  <1>1. w.link[k] \in LinkType  BY <1>0, Fields
  <1>2. l \in LinkType /\ l.st = "up" /\ l.reader = "reading"
    BY <1>1 DEF LinkType
  <1>3. p \in Peers  BY <1>1 DEF LinkType
  <1>4. Register(w, k) = v
    <2>1. k \in DOMAIN w.link /\ p \in DOMAIN w.table /\ DOMAIN l = DOMAIN w.link[k]
      BY <1>0, <1>1, <1>3, Fields
    <2> QED BY <1>0, <2>1 DEF Register, StateType
  <1> HIDE DEF l, p
  <1>5. links \in [Conns -> LinkType] /\ links[k] = l /\ \A j \in Conns \ {k} : links[j] = w.link[j]
    BY <1>0, <1>2, Fields
  <1>6. /\ table \in [Peers -> Conns \cup {NoConn}] /\ table[p] = k
        /\ \A x \in Peers \ {p} : table[x] = w.table[x]
    BY <1>0, <1>3, Fields
  <1> HIDE DEF links, table
  <1>7. /\ v \in StateType /\ v.link = links /\ v.table = table
        /\ v.events = w.events /\ v.calls = w.calls /\ v.counted = w.counted
        /\ v.invalid = w.invalid /\ v.pending = w.pending /\ v.left = w.left
        /\ v.dials = w.dials /\ v.halted = w.halted /\ v.end = w.end /\ v.pool = w.pool
    BY <1>0, <1>5, <1>6 DEF StateType
  <1> HIDE DEF v
  <1>8. Held(v) = Held(w) /\ InTable(v) = InTable(w)  BY <1>7 DEF Held, InTable
  <1>9. Streams(v)
    <2>1. \A i \in DOMAIN w.events : w.events[i].conn \in Conns  BY <1>0, Fields
    <2> QED  BY <1>2, <1>5, <1>7, <2>1 DEF Streams, Sound
  <1>10. \A j \in Held(w) : j \in Conns /\ v.link[j] = w.link[j]
    BY <1>0, <1>5, <1>7, HeldIsFinite
  <1>11. Sockets(v)
    <2>1. ASSUME NEW c \in Calls, w.calls[c].sock # NoConn
          PROVE  w.calls[c].sock \in Held(w)
      BY <2>1 DEF Held
    <2> QED  BY <1>7, <1>8, <1>10, <2>1 DEF Sockets, Sound, InUse
  <1>12. Losses(v)
    BY <1>7, <1>8, <1>10 DEF Losses, Reported, Sound
  <1>13. Sound(v)
    BY <1>7, <1>8, <1>9, <1>11, <1>12 DEF Sound, Budget
  <1>14. Marked(w) => Marked(v)
    <2>1. Target \in Peers  BY ConnectionsAssumption
    <2>2. k # NoConn  BY NoConnIsNone
    <2> QED  BY <1>6, <1>7, <2>1, <2>2 DEF Marked
  <1>15. Proper(w, v)
    BY <1>7, <1>13, <1>14 DEF Proper, Spares, CountedOnce
  <1> QED  BY <1>4, <1>6, <1>7, <1>15 DEF p

LEMMA FreshIsUnused ==
  ASSUME NEW w, NEW k \in Openable(w)
  PROVE  k \in Conns /\ w.link[k].st = "unused"
  BY DEF Openable, Fresh

LEMMA DialsDial ==
  ASSUME NEW w, Sound(w), NEW p \in Peers, NEW d \in Dials(w, p, TRUE) \cup Dials(w, p, FALSE)
  PROVE  \/ ~d.ok /\ d.w = w
         \/ /\ d.ok /\ d.conn \in Conns /\ d.conn \notin Held(w)
            /\ Proper(w, d.w) /\ SameBut(w, d.w)
            /\ d.w.link[d.conn].peer = p /\ d.w.link[d.conn].reader = "reading"
            /\ d.w.link[d.conn].st = "up"
  <1>0. PICK own \in BOOLEAN : d \in Dials(w, p, own)  OBVIOUS
  <1> DEFINE ports == IF own THEN FreePorts(w, Held(w)) ELSE {SomePort}
  <1>1. CASE d = [ok |-> FALSE, conn |-> NoConn, w |-> w]
    BY <1>1
  <1>2. CASE d # [ok |-> FALSE, conn |-> NoConn, w |-> w]
    <2>1. PICK k \in Openable(w), q \in ports :
             d = [ok |-> TRUE, conn |-> k, w |-> Open(w, k, p, q, own)]
      BY <1>0, <1>2 DEF Dials
    <2>2. q \in Ports  BY SomePortIsOne DEF FreePorts
    <2>3. k \in Conns /\ w.link[k].st = "unused"  BY FreshIsUnused
    <2>4. d.ok = TRUE /\ d.conn = k /\ d.w = Open(w, k, p, q, own)  BY <2>1
    <2> HIDE DEF ports
    <2>5. k \notin Held(w)
      BY <2>2, <2>3, OpenOpens DEF SameBut, Held
    <2> QED  BY <2>2, <2>3, <2>4, <2>5, OpenOpens
  <1> QED  BY <1>1, <1>2

(* A call takes a socket that stands, be it shared or new.                   *)
LEMMA TakingIsSound ==
  ASSUME NEW w, Sound(w), NEW c \in InTable(w), NEW k \in Conns,
         w.link[k].st \in {"up", "half", "reset"},
         k \in Held(w) \/ w.link[k].reader # "done",
         NEW u \in StateType,
         u.link = w.link, u.events = w.events, u.left = w.left, u.dials = w.dials,
         u.pending = w.pending, u.halted = w.halted /\ u.end = w.end,
         k \in u.pool /\ Held(w) \subseteq u.pool,
         \A d \in Calls : /\ u.calls[d].st = w.calls[d].st
                          /\ u.calls[d].sock = IF d = c THEN k ELSE w.calls[d].sock,
         Cardinality(Held(u)) <= cfg.cap
  PROVE  Sound(u)
  <1>0. c \in Calls /\ k # NoConn  BY NoConnIsNone DEF InTable
  <1>1. InTable(u) = InTable(w)  BY DEF InTable
  <1>2. Held(u) \subseteq Held(w) \cup {k}
    BY <1>0 DEF Held
  <1>3. Streams(u)  BY DEF Streams, Sound
  <1>4. ASSUME NEW d \in Calls, u.calls[d].sock # NoConn
        PROVE  d \in InTable(u) /\ InUse(u, u.calls[d].sock)
    <2>1. CASE d = c
      BY <1>0, <1>1, <2>1 DEF InUse
    <2>2. CASE d # c
      <3>1. u.calls[d].sock = w.calls[d].sock  BY <1>0, <2>2
      <3>2. w.calls[d].sock \in Held(w)  BY <1>4, <3>1 DEF Held
      <3> QED  BY <1>1, <1>4, <3>1, <3>2 DEF Sound, Sockets, InUse
    <2> QED  BY <2>1, <2>2
  <1>5. Losses(u)
    BY <1>2 DEF Losses, Reported, Sound
  <1> QED  BY <1>1, <1>3, <1>4, <1>5 DEF Sound, Sockets, Budget

(* What is spent of the budget.                                              *)
LEMMA SpendingIsSound ==
  ASSUME NEW w, Sound(w), NEW u \in StateType,
         u.link = w.link, u.events = w.events, u.calls = w.calls, u.pool = w.pool,
         u.pending = w.pending, u.halted = w.halted /\ u.end = w.end, Budget(u)
  PROVE  Sound(u)
  <1>1. Held(u) = Held(w) /\ InTable(u) = InTable(w)  BY DEF Held, InTable
  <1>2. Streams(u) /\ Losses(u)  BY <1>1 DEF Streams, Losses, Reported, Sound
  <1>3. Sockets(u)  BY <1>1 DEF Sockets, Sound, InUse
  <1> QED  BY <1>1, <1>2, <1>3 DEF Sound

LEMMA SpentIsProper ==
  ASSUME NEW w, Sound(w)
  PROVE  /\ Proper(w, Spent(w)) /\ Spent(w).calls = w.calls
         /\ ReconnectAllowed(w) =>
               LET v == [Spent(w) EXCEPT !.dials = @ + 1] IN Proper(w, v)
  <1> DEFINE left == IF w.left > 0 THEN w.left - 1 ELSE w.left
  <1> DEFINE s == [w EXCEPT !.left = left]
  <1> DEFINE dials == w.dials + 1
  <1> DEFINE v == [s EXCEPT !.dials = dials]
  <1>0. /\ w \in StateType /\ cfg \in Configs
        /\ w.left \in Int /\ w.dials \in Nat
    BY DEF Sound, StateType
  <1>1. Spent(w) = s  BY <1>0 DEF Spent, StateType
  <1>2. left \in Int /\ left <= w.left /\ (w.left >= 0 => left >= 0)
    BY <1>0
  <1>3. ReconnectAllowed(w) /\ w.left >= 0 => left + 1 <= w.left
    BY <1>0 DEF ReconnectAllowed
  <1>3a. dials \in Nat  BY <1>0
  <1> HIDE DEF left, dials
  <1>4. /\ s \in StateType /\ s.link = w.link /\ s.events = w.events /\ s.calls = w.calls
        /\ s.pool = w.pool /\ s.pending = w.pending /\ s.halted = w.halted /\ s.end = w.end
        /\ s.table = w.table /\ s.invalid = w.invalid /\ s.counted = w.counted
        /\ s.left = left /\ s.dials = w.dials
    BY <1>0, <1>2 DEF StateType
  <1> HIDE DEF s
  <1>5. /\ v \in StateType /\ v.link = w.link /\ v.events = w.events /\ v.calls = w.calls
        /\ v.pool = w.pool /\ v.pending = w.pending /\ v.halted = w.halted /\ v.end = w.end
        /\ v.table = w.table /\ v.invalid = w.invalid /\ v.counted = w.counted
        /\ v.left = left /\ v.dials = dials
    BY <1>0, <1>3a, <1>4 DEF StateType
  <1>5a. v = [s EXCEPT !.dials = @ + 1]  BY <1>4 DEF dials
  <1> HIDE DEF v
  <1>6. Budget(s)
    BY <1>0, <1>2, <1>4, Config DEF Sound, Budget
  <1>7. ReconnectAllowed(w) => Budget(v)
    BY <1>0, <1>2, <1>3, <1>5, Config DEF Sound, Budget, dials
  <1>8. Sound(s) /\ (ReconnectAllowed(w) => Sound(v))
    BY <1>4, <1>5, <1>6, <1>7, SpendingIsSound
  <1>9. /\ Spares(w, s) /\ (Marked(w) => Marked(s)) /\ (CountedOnce(w) => CountedOnce(s))
        /\ Spares(w, v) /\ (Marked(w) => Marked(v)) /\ (CountedOnce(w) => CountedOnce(v))
    BY <1>4, <1>5 DEF Spares, Marked, CountedOnce
  <1> QED  BY <1>1, <1>4, <1>5a, <1>8, <1>9 DEF Proper

LEMMA ClosesCallsToIsProper ==
  ASSUME NEW w, Sound(w), NEW p
  PROVE  Proper(w, ClosesCallsTo(w, p)) /\ Kept(w, ClosesCallsTo(w, p))
  BY ClosesCallsIsProper DEF ClosesCallsTo

(* The mark is cleared when the connection is in the table.                  *)
LEMMA ClearingIsProper ==
  ASSUME NEW w, Sound(w), w.table[Target] # NoConn
  PROVE  LET v == [w EXCEPT !.invalid = FALSE] IN Proper(w, v)
  <1> DEFINE v == [w EXCEPT !.invalid = FALSE]
  <1>0. w \in StateType  BY DEF Sound
  <1>1. /\ v \in StateType /\ v.link = w.link /\ v.events = w.events /\ v.calls = w.calls
        /\ v.pool = w.pool /\ v.pending = w.pending /\ v.halted = w.halted /\ v.end = w.end
        /\ v.table = w.table /\ v.counted = w.counted /\ v.left = w.left /\ v.dials = w.dials
    BY <1>0 DEF StateType
  <1> HIDE DEF v
  <1>2. Sound(v)  BY <1>1, SpendingIsSound DEF Sound, Budget
  <1>3. Proper(w, v)  BY <1>1, <1>2 DEF Proper, Spares, Marked, CountedOnce
  <1> QED  BY <1>3 DEF v

LEMMA ResetsIsProper ==
  ASSUME NEW w, Sound(w), NEW p \in Peers, MayReconnect(p), NEW x \in Resets(w, p)
  PROVE  Proper(w, x)
  <1>1. CASE ~ReconnectAllowed(w)
    BY <1>1, HaltsIsProper DEF Resets
  <1>2. CASE ReconnectAllowed(w)
    <2> DEFINE s == [Spent(w) EXCEPT !.dials = @ + 1]
    <2> DEFINE v == IF cfg.close THEN ClosesCallsTo(s, p) ELSE s
    <2>1. Proper(w, s)  BY <1>2, SpentIsProper
    <2>2. PICK d \in Dials(v, p, FALSE) :
             x = IF d.ok THEN [Register(d.w, d.conn) EXCEPT !.invalid = FALSE]
                         ELSE ClosesCallsTo(d.w, p)
      BY <1>2 DEF Resets
    <2> HIDE DEF s
    <2>3. Proper(s, v)
      BY <2>1, ClosesCallsToIsProper, StayingIsProper DEF Proper
    <2> HIDE DEF v
    <2>4. Proper(w, v) /\ Sound(v)  BY <2>1, <2>3, ProperComposes DEF Proper
    <2>5. CASE ~d.ok
      <3>1. d.w = v  BY <2>4, <2>5, DialsDial
      <3>2. Proper(v, x)  BY <2>2, <2>4, <2>5, <3>1, ClosesCallsToIsProper
      <3> QED  BY <2>4, <3>2, ProperComposes
    <2>6. CASE d.ok
      <3>1. /\ d.ok /\ d.conn \in Conns /\ d.conn \notin Held(v)
            /\ Proper(v, d.w) /\ SameBut(v, d.w)
            /\ d.w.link[d.conn].peer = p /\ d.w.link[d.conn].reader = "reading"
        <4>1. \/ ~d.ok /\ d.w = v
              \/ /\ d.ok /\ d.conn \in Conns /\ d.conn \notin Held(v)
                 /\ Proper(v, d.w) /\ SameBut(v, d.w)
                 /\ d.w.link[d.conn].peer = p /\ d.w.link[d.conn].reader = "reading"
                 /\ d.w.link[d.conn].st = "up"
          BY <2>4, DialsDial
        <4> QED  BY <2>6, <4>1
      <3>2. Sound(d.w) /\ d.conn \notin Held(d.w)
        BY <3>1 DEF Proper, SameBut, Held
      <3> DEFINE r == Register(d.w, d.conn)
      <3>3. Proper(d.w, r) /\ r.table[p] = d.conn
        BY <3>1, <3>2, RegisterRegisters
      <3>4. x = [r EXCEPT !.invalid = FALSE]  BY <2>2, <3>1
      <3> HIDE DEF r
      <3>5. p = Target /\ r.table[Target] # NoConn
        BY <3>1, <3>3, NoConnIsNone DEF MayReconnect
      <3>6. Proper(r, x)  BY <3>3, <3>4, <3>5, ClearingIsProper DEF Proper
      <3> QED  BY <2>4, <3>1, <3>3, <3>6, ProperComposes
    <2> QED  BY <2>5, <2>6
  <1> QED  BY <1>1, <1>2

LEMMA AfterSendFailureIsProper ==
  ASSUME NEW w, Sound(w), NEW c \in Calls, w.calls[c].st = "live",
         NEW x \in AfterSendFailure(w, c)
  PROVE  Proper(w, x)
  <1> DEFINE v == Failed(w, c)
  <1> DEFINE u == [v EXCEPT !.pending = NoPeer]
  <1>1. c \in InTable(w)  BY DEF InTable
  <1>2. Proper(w, v) /\ Sound(v)  BY FailedIsProper DEF Proper
  <1>3. \/ x = v
        \/ v.pending # NoPeer /\ x \in Resets(u, v.pending)
    BY <1>1 DEF AfterSendFailure
  <1> HIDE DEF v
  <1>4. CASE x = v  BY <1>2, <1>4
  <1>5. CASE v.pending # NoPeer /\ x \in Resets(u, v.pending)
    <2>1. v \in StateType /\ v.pending \in Peers /\ MayReconnect(v.pending)
      BY <1>2, <1>5 DEF Sound, StateType
    <2>2. /\ u \in StateType /\ u.link = v.link /\ u.events = v.events /\ u.pool = v.pool
          /\ u.left = v.left /\ u.dials = v.dials /\ u.calls = v.calls
          /\ u.pending = NoPeer /\ u.table = v.table /\ u.invalid = v.invalid
          /\ u.halted = v.halted /\ u.end = v.end /\ u.counted = v.counted
      BY <2>1 DEF StateType
    <2> HIDE DEF u
    <2>3. InTable(u) = InTable(v)  BY <2>2 DEF InTable
    <2>4. Sound(u)  BY <1>2, <2>2, <2>3, LettingGoIsSound DEF Sound, Sockets
    <2>5. Proper(v, u)  BY <2>2, <2>4 DEF Proper, Spares, Marked, CountedOnce
    <2>6. Proper(u, x)  BY <1>5, <2>1, <2>4, ResetsIsProper
    <2> QED  BY <1>2, <2>5, <2>6, ProperComposes
  <1> QED  BY <1>3, <1>4, <1>5

-----------------------------------------------------------------------------
(* Sockets of their own.                                                     *)

(* A call takes socket k: what ensure_call_socket and apply_setdest have in  *)
(* common.                                                                   *)
Takes(w, c, k, u) ==
    /\ u \in StateType /\ u.link = w.link /\ u.events = w.events /\ u.left = w.left
    /\ u.dials = w.dials /\ u.pending = w.pending /\ u.halted = w.halted /\ u.end = w.end
    /\ u.table = w.table /\ u.invalid = w.invalid /\ u.counted = w.counted
    /\ \A d \in Calls : /\ u.calls[d].st = w.calls[d].st
                        /\ u.calls[d].sock = IF d = c THEN k ELSE w.calls[d].sock

LEMMA TakingIsProper ==
  ASSUME NEW w, Sound(w), NEW c \in InTable(w), NEW k \in Conns, NEW u, Takes(w, c, k, u),
         w.link[k].st \in {"up", "half", "reset"},
         k \in Held(w) \/ w.link[k].reader # "done",
         k \in u.pool /\ Held(w) \subseteq u.pool,
         Cardinality(Held(u)) <= cfg.cap
  PROVE  Proper(w, u)
  <1>1. Sound(u)  BY TakingIsSound DEF Takes
  <1> QED  BY <1>1 DEF Proper, Spares, Marked, CountedOnce, Takes

LEMMA SockIsTyped ==
  ASSUME NEW l \in CallType, NEW k \in Conns
  PROVE  /\ [l EXCEPT !.sock = k] \in CallType
         /\ [l EXCEPT !.sock = k].st = l.st /\ [l EXCEPT !.sock = k].sock = k
  BY DEF CallType

(* Any other change of the pool, a subset that keeps what is held, and of    *)
(* the cursor, is proper.                                                    *)
LEMMA CleaningIsProper ==
  ASSUME NEW w, Sound(w)
  PROVE  LET v == [w EXCEPT !.pool = w.pool \cap Held(w)] IN
         /\ Proper(w, v) /\ v.calls = w.calls /\ v.link = w.link
         /\ v.pool = Held(w) /\ Held(v) = Held(w)
  <1> DEFINE pool == w.pool \cap Held(w)
  <1> DEFINE v == [w EXCEPT !.pool = pool]
  <1>0. w \in StateType  BY DEF Sound
  <1>1. pool = Held(w)  BY DEF Sound, Sockets, InUse, Held
  <1>2. pool \in SUBSET Conns  BY <1>0, HeldIsFinite
  <1> HIDE DEF pool
  <1>3. /\ v \in StateType /\ v.link = w.link /\ v.events = w.events /\ v.left = w.left
        /\ v.dials = w.dials /\ v.pending = w.pending /\ v.halted = w.halted /\ v.end = w.end
        /\ v.table = w.table /\ v.invalid = w.invalid /\ v.counted = w.counted
        /\ v.calls = w.calls /\ v.pool = pool
    BY <1>0, <1>2 DEF StateType
  <1> HIDE DEF v
  <1>4. Held(v) = Held(w) /\ InTable(v) = InTable(w)  BY <1>3 DEF Held, InTable
  <1>5. Streams(v) /\ Losses(v) /\ Budget(v)
    BY <1>3, <1>4 DEF Streams, Losses, Reported, Budget, Sound
  <1>6. Sockets(v)
    <2>1. ASSUME NEW c \in Calls, w.calls[c].sock # NoConn
          PROVE  w.calls[c].sock \in Held(w)
      BY <2>1 DEF Held
    <2> QED  BY <1>1, <1>3, <1>4, <2>1 DEF Sockets, Sound, InUse
  <1>7. Sound(v)  BY <1>3, <1>4, <1>5, <1>6 DEF Sound
  <1>8. Proper(w, v)  BY <1>3, <1>7 DEF Proper, Spares, Marked, CountedOnce
  <1> QED  BY <1>1, <1>3, <1>4, <1>8 DEF v, pool

LEMMA EnsuresSocketIsProper ==
  ASSUME NEW w, Sound(w), NEW c \in Calls, w.calls[c].st = "live", NEW e \in EnsuresSocket(w, c)
  PROVE  Proper(w, e.w) /\ e.w.calls[c].st = "live"
  <1> DEFINE pool == w.pool \cap Held(w)
  <1> DEFINE v == [w EXCEPT !.pool = pool]
  <1> DEFINE p == w.calls[c].remote
  <1>0. w \in StateType /\ c \in InTable(w) /\ p \in Peers
    BY Fields DEF Sound, InTable, CallType
  <1>1. \/ e = [ok |-> TRUE, w |-> w]
        \/ /\ Cardinality(pool) >= cfg.cap /\ w.calls[c].sock = NoConn
           /\ \E k \in pool :
                 e = [ok |-> TRUE, w |-> [v EXCEPT !.cursor = (@ + 1) % CursorWrap,
                                                   !.calls[c].sock = k]]
        \/ /\ ~(Cardinality(pool) >= cfg.cap) /\ w.calls[c].sock = NoConn
           /\ \E d \in Dials(v, p, TRUE) :
                 e = [ok |-> d.ok,
                      w |-> IF d.ok THEN [d.w EXCEPT !.pool = @ \cup {d.conn},
                                                     !.calls[c].sock = d.conn]
                                    ELSE d.w]
    BY <1>0 DEF EnsuresSocket, StateType
  <1>2. /\ Proper(w, v) /\ v.calls = w.calls /\ v.link = w.link
        /\ pool = Held(w) /\ v.pool = pool /\ Held(v) = Held(w)
    BY CleaningIsProper
  <1>3. Sound(v) /\ v \in StateType /\ c \in InTable(v)
    BY <1>0, <1>2 DEF Proper, Sound, InTable
  <1> HIDE DEF v, pool, p
  <1>4. CASE e = [ok |-> TRUE, w |-> w]
    BY <1>4, StayingIsProper
  <1>5. ASSUME NEW k \in pool, w.calls[c].sock = NoConn,
               e = [ok |-> TRUE, w |-> [v EXCEPT !.cursor = (@ + 1) % CursorWrap,
                                                 !.calls[c].sock = k]]
        PROVE  Proper(w, e.w) /\ e.w.calls[c].st = "live"
    <2> DEFINE l == [v.calls[c] EXCEPT !.sock = k]
    <2> DEFINE calls == [v.calls EXCEPT ![c] = l]
    <2> DEFINE cursor == (v.cursor + 1) % CursorWrap
    <2> DEFINE u == [v EXCEPT !.cursor = cursor, !.calls = calls]
    <2>1. e.w = u  BY <1>3, <1>5 DEF StateType
    <2>2. k \in Conns  BY <1>0, <1>2, HeldIsFinite
    <2>3. l \in CallType /\ l.st = v.calls[c].st /\ l.sock = k
      BY <1>3, <2>2, Fields, SockIsTyped
    <2> HIDE DEF l
    <2>4. /\ calls \in [Calls -> CallType] /\ calls[c] = l
          /\ \A d \in Calls \ {c} : calls[d] = v.calls[d]
      BY <1>3, <2>3, Fields
    <2>5. cursor \in 0 .. CursorWrap - 1
      BY <1>3 DEF StateType, CursorWrap
    <2> HIDE DEF calls, cursor
    <2>6. u \in StateType /\ u.calls = calls /\ u.pool = v.pool
      BY <1>3, <2>4, <2>5 DEF StateType
    <2>7. Takes(v, c, k, u)
      <3>1. /\ u.link = v.link /\ u.events = v.events /\ u.left = v.left
            /\ u.dials = v.dials /\ u.pending = v.pending /\ u.halted = v.halted /\ u.end = v.end
            /\ u.table = v.table /\ u.invalid = v.invalid /\ u.counted = v.counted
        BY <1>3 DEF StateType
      <3> QED  BY <2>3, <2>4, <2>6, <3>1 DEF Takes
    <2> HIDE DEF u
    <2>8. Held(u) = Held(v)
      <3>1. v.calls[c].sock = NoConn /\ k \in Held(v)  BY <1>2, <1>5
      <3> QED  BY <2>7, <3>1 DEF Takes, Held
    <2>9. v.link[k].st \in {"up", "half", "reset"}
      BY <1>2, <1>3 DEF Sound, Sockets, InUse, Held
    <2>10. Cardinality(Held(u)) <= cfg.cap  BY <1>3, <2>8 DEF Sound, Sockets
    <2>11. Proper(v, u)
      BY <1>2, <1>3, <2>2, <2>6, <2>7, <2>9, <2>10, TakingIsProper
    <2> QED  BY <1>2, <2>1, <2>7, <2>11, ProperComposes DEF Takes
  <1>6. ASSUME ~(Cardinality(pool) >= cfg.cap), w.calls[c].sock = NoConn,
               NEW d \in Dials(v, p, TRUE),
               e = [ok |-> d.ok,
                    w |-> IF d.ok THEN [d.w EXCEPT !.pool = @ \cup {d.conn},
                                                   !.calls[c].sock = d.conn]
                                  ELSE d.w]
        PROVE  Proper(w, e.w) /\ e.w.calls[c].st = "live"
    <2>1. \/ ~d.ok /\ d.w = v
          \/ /\ d.ok /\ d.conn \in Conns /\ d.conn \notin Held(v)
             /\ Proper(v, d.w) /\ SameBut(v, d.w)
             /\ d.w.link[d.conn].peer = p /\ d.w.link[d.conn].reader = "reading"
             /\ d.w.link[d.conn].st = "up"
      BY <1>0, <1>3, DialsDial
    <2>2. CASE ~d.ok
      BY <1>2, <1>6, <2>1, <2>2
    <2>3. CASE d.ok
      <3> DEFINE k == d.conn
      <3> DEFINE x == d.w
      <3> DEFINE l == [x.calls[c] EXCEPT !.sock = k]
      <3> DEFINE calls == [x.calls EXCEPT ![c] = l]
      <3> DEFINE socks == x.pool \cup {k}
      <3> DEFINE u == [x EXCEPT !.pool = socks, !.calls = calls]
      <3>1. /\ k \in Conns /\ k \notin Held(x) /\ Proper(v, x) /\ SameBut(v, x)
            /\ x.link[k].reader = "reading" /\ x.link[k].st = "up"
        BY <2>1, <2>3 DEF SameBut, Held
      <3>2. Sound(x) /\ x \in StateType /\ c \in InTable(x)
        BY <1>3, <3>1 DEF Proper, Sound, SameBut, InTable
      <3>3. e.w = u  BY <1>6, <2>3, <3>2 DEF StateType
      <3> HIDE DEF x, k
      <3>4. l \in CallType /\ l.st = x.calls[c].st /\ l.sock = k
        BY <3>1, <3>2, Fields, SockIsTyped
      <3> HIDE DEF l
      <3>5. /\ calls \in [Calls -> CallType] /\ calls[c] = l
            /\ \A y \in Calls \ {c} : calls[y] = x.calls[y]
        BY <3>2, <3>4, Fields
      <3>6. socks \in SUBSET Conns  BY <3>1, <3>2 DEF StateType
      <3> HIDE DEF calls
      <3>7. u \in StateType /\ u.calls = calls /\ u.pool = socks
        BY <3>2, <3>5, <3>6 DEF StateType
      <3>8. Takes(x, c, k, u)
        <4>1. /\ u.link = x.link /\ u.events = x.events /\ u.left = x.left
              /\ u.dials = x.dials /\ u.pending = x.pending /\ u.halted = x.halted /\ u.end = x.end
              /\ u.table = x.table /\ u.invalid = x.invalid /\ u.counted = x.counted
          BY <3>2 DEF StateType
        <4> QED  BY <3>4, <3>5, <3>7, <4>1 DEF Takes
      <3> HIDE DEF u
      <3>9. Held(u) = Held(v) \cup {k}
        <4>1. x.calls[c].sock = NoConn /\ Held(x) = Held(v)
          BY <1>2, <1>6, <3>1 DEF SameBut, Held
        <4>2. k # NoConn  BY <3>1, NoConnIsNone
        <4> QED  BY <3>8, <4>1, <4>2 DEF Takes, Held
      <3>10. Cardinality(Held(u)) <= cfg.cap
        <4>1. IsFiniteSet(Held(v)) /\ k \notin Held(v) /\ Cardinality(Held(v)) \in Nat
          BY <1>3, <3>1, HeldIsFinite DEF SameBut, Held
        <4>2. Cardinality(Held(u)) = Cardinality(Held(v)) + 1
          BY <3>9, <4>1, FS_AddElement
        <4>3. cfg.cap \in Nat  BY <1>3, Config DEF Sound
        <4> QED  BY <1>2, <1>6, <4>1, <4>2, <4>3
      <3>11. k \in u.pool /\ Held(x) \subseteq u.pool
        BY <1>2, <3>1, <3>7 DEF SameBut, Held
      <3>12. Proper(x, u)
        BY <3>1, <3>2, <3>8, <3>10, <3>11, TakingIsProper
      <3>13. u.calls[c].st = "live"  BY <1>2, <3>1, <3>8 DEF Takes, SameBut
      <3> QED  BY <1>2, <3>1, <3>3, <3>12, <3>13, ProperComposes
    <2> QED  BY <2>2, <2>3
  <1> QED  BY <1>1, <1>4, <1>5, <1>6

(* A call moves to another peer: its own socket, which no other call holds,  *)
(* makes place for the new one.                                              *)
LEMMA MovedIsProper ==
  ASSUME NEW w, Sound(w), NEW c \in Calls, w.calls[c].st = "live",
         w.calls[c].sock # NoConn, ~Shared(w, c), NEW p \in Peers,
         NEW k \in Conns, k \notin Held(w), w.link[k].st = "up", w.link[k].reader = "reading"
  PROVE  Proper(w, Moved(w, c, k, p))
  <1> DEFINE l == [w.calls[c] EXCEPT !.sock = k, !.remote = p]
  <1> DEFINE calls == [w.calls EXCEPT ![c] = l]
  <1> DEFINE socks == w.pool \cup {k}
  <1> DEFINE u == [w EXCEPT !.pool = socks, !.calls = calls]
  <1>0. w \in StateType /\ c \in InTable(w) /\ w.calls[c] \in CallType
    BY Fields DEF Sound, InTable
  <1>1. Moved(w, c, k, p) = CloseUnheld(u)  BY <1>0, Fields DEF Moved, StateType, CallType
  <1>2. l \in CallType /\ l.st = w.calls[c].st /\ l.sock = k
    BY <1>0 DEF CallType
  <1> HIDE DEF l
  <1>3. /\ calls \in [Calls -> CallType] /\ calls[c] = l
        /\ \A d \in Calls \ {c} : calls[d] = w.calls[d]
    BY <1>0, <1>2, Fields
  <1>4. socks \in SUBSET Conns  BY <1>0 DEF StateType
  <1> HIDE DEF calls
  <1>5. u \in StateType /\ u.calls = calls /\ u.pool = socks
    BY <1>0, <1>3, <1>4 DEF StateType
  <1>6. Takes(w, c, k, u)
    <2>1. /\ u.link = w.link /\ u.events = w.events /\ u.left = w.left
          /\ u.dials = w.dials /\ u.pending = w.pending /\ u.halted = w.halted /\ u.end = w.end
          /\ u.table = w.table /\ u.invalid = w.invalid /\ u.counted = w.counted
      BY <1>0 DEF StateType
    <2> QED  BY <1>2, <1>3, <1>5, <2>1 DEF Takes
  <1> HIDE DEF u
  <1> DEFINE own == w.calls[c].sock
  <1>7. Held(u) = (Held(w) \ {own}) \cup {k}
    BY <1>6, NoConnIsNone DEF Takes, Held, Shared
  <1>8. Cardinality(Held(u)) <= cfg.cap
    <2>1. own \in Held(w)  BY DEF Held
    <2>2. /\ IsFiniteSet(Held(w)) /\ Cardinality(Held(w)) \in Nat
          /\ Cardinality(Held(w)) <= cfg.cap
      BY <1>0, HeldIsFinite DEF Sound, Sockets
    <2> DEFINE rest == Held(w) \ {own}
    <2>3. IsFiniteSet(rest) /\ Cardinality(rest) = Cardinality(Held(w)) - 1
      BY <2>1, <2>2, FS_RemoveElement
    <2>4. k \notin rest  OBVIOUS
    <2> HIDE DEF rest
    <2>5. Cardinality(rest \cup {k}) = Cardinality(rest) + 1
      BY <2>3, <2>4, FS_AddElement
    <2>6. Cardinality(Held(u)) = Cardinality(Held(w))
      BY <1>7, <2>2, <2>3, <2>5 DEF rest
    <2> QED  BY <2>2, <2>6
  <1>9. k \in u.pool /\ Held(w) \subseteq u.pool
    BY <1>5 DEF Sound, Sockets, InUse, Held
  <1>10. Proper(w, u)
    BY <1>0, <1>6, <1>8, <1>9, TakingIsProper
  <1>11. Proper(u, CloseUnheld(u))
    <2>1. SameBut(u, CloseUnheld(u)) /\ Sound(CloseUnheld(u))
      BY <1>10, CloseUnheldCloses, CloseUnheldIsSound DEF Proper, Sound
    <2> QED  BY <2>1 DEF Proper, SameBut, Spares, Marked, CountedOnce
  <1> QED  BY <1>1, <1>10, <1>11, ProperComposes

LEMMA SetsDestIsProper ==
  ASSUME NEW w, Sound(w), NEW c \in Calls, w.calls[c].st = "live", NEW p \in Peers,
         NEW x \in SetsDest(w, c, p)
  PROVE  Proper(w, x)
  <1> DEFINE u == [w EXCEPT !.calls[c].remote = p]
  <1>1. \/ x = FailsFromAction(w, c)
        \/ x = u
        \/ /\ w.calls[c].sock # NoConn /\ ~Shared(w, c)
           /\ \E d \in Dials(w, p, TRUE) :
                 \/ d.ok /\ x = Moved(d.w, c, d.conn, p)
                 \/ ~d.ok /\ \E v \in Halts(d.w) : x = FailsFromAction(Blamed(v, c), c)
                 \/ ~d.ok /\ x = FailsFromAction(Spent(d.w), c)
    BY DEF SetsDest
  <1>2. CASE x = FailsFromAction(w, c)
    BY <1>2, FailsFromActionIsProper
  <1>3. CASE x = u
    <2> DEFINE l == [w.calls[c] EXCEPT !.remote = p]
    <2> DEFINE calls == [w.calls EXCEPT ![c] = l]
    <2>0. w \in StateType /\ w.calls[c] \in CallType  BY Fields DEF Sound
    <2>1. u = [w EXCEPT !.calls = calls]  BY <2>0, Fields DEF StateType
    <2>2. l \in CallType /\ l.st = w.calls[c].st /\ l.sock = w.calls[c].sock
      BY <2>0 DEF CallType
    <2> HIDE DEF l
    <2>3. /\ calls \in [Calls -> CallType] /\ calls[c] = l
          /\ \A d \in Calls \ {c} : calls[d] = w.calls[d]
      BY <2>0, <2>2, Fields
    <2> HIDE DEF calls
    <2>4. /\ u \in StateType /\ u.calls = calls /\ u.link = w.link /\ u.events = w.events
          /\ u.pool = w.pool /\ u.left = w.left /\ u.dials = w.dials
          /\ u.pending = w.pending /\ u.halted = w.halted /\ u.end = w.end /\ u.table = w.table
          /\ u.invalid = w.invalid /\ u.counted = w.counted
      BY <2>0, <2>1, <2>3 DEF StateType
    <2> HIDE DEF u
    <2>5. \A d \in Calls : u.calls[d].st = w.calls[d].st /\ u.calls[d].sock = w.calls[d].sock
      BY <2>2, <2>3, <2>4
    <2>6. InTable(u) = InTable(w)  BY <2>5 DEF InTable
    <2>7. Sound(u)  BY <2>4, <2>5, <2>6, LettingGoIsSound DEF Sound, Sockets
    <2> QED  BY <1>3, <2>4, <2>5, <2>7 DEF Proper, Spares, Marked, CountedOnce
  <1>4. ASSUME w.calls[c].sock # NoConn, ~Shared(w, c), NEW d \in Dials(w, p, TRUE),
               \/ d.ok /\ x = Moved(d.w, c, d.conn, p)
               \/ ~d.ok /\ \E v \in Halts(d.w) : x = FailsFromAction(Blamed(v, c), c)
               \/ ~d.ok /\ x = FailsFromAction(Spent(d.w), c)
        PROVE  Proper(w, x)
    <2>1. \/ ~d.ok /\ d.w = w
          \/ /\ d.ok /\ d.conn \in Conns /\ d.conn \notin Held(w)
             /\ Proper(w, d.w) /\ SameBut(w, d.w)
             /\ d.w.link[d.conn].peer = p /\ d.w.link[d.conn].reader = "reading"
             /\ d.w.link[d.conn].st = "up"
      BY DialsDial
    <2>2. CASE d.ok /\ x = Moved(d.w, c, d.conn, p)
      <3>1. /\ Sound(d.w) /\ d.w.calls = w.calls /\ d.conn \notin Held(d.w)
            /\ ~Shared(d.w, c)
        BY <1>4, <2>1, <2>2 DEF Proper, SameBut, Held, Shared
      <3>2. Proper(d.w, x)
        BY <1>4, <2>1, <2>2, <3>1, MovedIsProper
      <3> QED  BY <2>1, <2>2, <3>2, ProperComposes
    <2>3. ASSUME ~d.ok, NEW v \in Halts(d.w), x = FailsFromAction(Blamed(v, c), c)
          PROVE  Proper(w, x)
      <3> DEFINE b == Blamed(v, c)
      <3>1. Proper(w, v) /\ v.halted /\ InTable(v) = {} /\ v.calls[c].st = "failed"
        BY <2>1, <2>3, HaltsIsProper DEF InTable
      <3>2. /\ Sound(b) /\ b.halted /\ InTable(b) = {}
            /\ b.calls = v.calls /\ b.counted = v.counted
            /\ b.table = v.table /\ b.invalid = v.invalid
            /\ b.end.guilty = v.end.guilty \cup {c}
        BY <3>1, Blaming DEF Proper
      <3>3. x = FailsFromAction(b, c)  BY <2>3
      <3> HIDE DEF b
      <3>4. Proper(v, b)
        BY <3>1, <3>2, HaltedIsProper DEF Marked, CountedOnce
      <3>5. Proper(b, x)  BY <3>1, <3>2, <3>3, FailsFromActionIsProper
      <3> QED  BY <3>1, <3>4, <3>5, ProperComposes
    <2>4. CASE ~d.ok /\ x = FailsFromAction(Spent(d.w), c)
      <3>1. Proper(w, Spent(w)) /\ Spent(w).calls = w.calls /\ Sound(Spent(w))
        BY SpentIsProper DEF Proper
      <3>2. Proper(Spent(w), x)
        BY <2>1, <2>4, <3>1, FailsFromActionIsProper
      <3> QED  BY <3>1, <3>2, ProperComposes
    <2> QED  BY <1>4, <2>2, <2>3, <2>4
  <1> QED  BY <1>1, <1>2, <1>3, <1>4

-----------------------------------------------------------------------------
(* The channel.                                                              *)

LEMMA TailOfEvents ==
  ASSUME NEW s \in Seq(EventType), s # << >>
  PROVE  /\ Tail(s) \in Seq(EventType) /\ Head(s) \in EventType /\ Head(s) = s[1]
         /\ DOMAIN s \subseteq Nat /\ DOMAIN Tail(s) \subseteq Nat
         /\ \A i \in DOMAIN Tail(s) : i + 1 \in DOMAIN s /\ Tail(s)[i] = s[i + 1]
         /\ \A i \in DOMAIN s : i = 1 \/ \E j \in DOMAIN Tail(s) : j + 1 = i
  <1>1. Tail(s) \in Seq(EventType) /\ Len(Tail(s)) + 1 = Len(s) /\ Len(s) \in Nat
    OBVIOUS
  <1>2. DOMAIN s = 1 .. Len(s) /\ DOMAIN Tail(s) = 1 .. Len(Tail(s))
    BY <1>1
  <1>3. Head(s) = s[1] /\ 1 \in DOMAIN s  BY <1>1, <1>2
  <1>4. \A i \in DOMAIN Tail(s) : i + 1 \in DOMAIN s /\ Tail(s)[i] = s[i + 1]
    BY <1>1, <1>2
  <1>5. ASSUME NEW i \in DOMAIN s, i # 1
        PROVE  \E j \in DOMAIN Tail(s) : j + 1 = i
    <2>1. i - 1 \in 1 .. Len(Tail(s)) /\ (i - 1) + 1 = i  BY <1>1, <1>2, <1>5
    <2> QED  BY <1>2, <2>1
  <1>6. Head(s) \in EventType  BY <1>3
  <1>7. DOMAIN s \subseteq Nat /\ DOMAIN Tail(s) \subseteq Nat  BY <1>1, <1>2
  <1> QED  BY <1>1, <1>3, <1>4, <1>5, <1>6, <1>7

(* The head of the channel is handled: if it reports the end of a call's own *)
(* connection, the calls that hold one with its port let it go.              *)
LEMMA HandlingIsSound ==
  ASSUME NEW w, Sound(w), w.events # << >>, NEW u \in StateType,
         u.link = w.link, u.events = Tail(w.events), u.pool = w.pool,
         u.left = w.left, u.dials = w.dials,
         \A c \in Calls : /\ u.calls[c].sock \in {w.calls[c].sock, NoConn}
                          /\ u.calls[c].sock # NoConn => c \in InTable(u),
         u.halted => InTable(u) \subseteq u.end.late,
         u.pending # NoPeer => MayReconnect(u.pending),
         Head(w.events).type = "down" /\ cfg.perCall =>
            \A k \in Held(u) : w.link[k].port # Head(w.events).port
  PROVE  Sound(u)
  <1>1. Held(u) \subseteq Held(w)
    BY DEF Held
  <1>2. w \in StateType /\ w.events \in Seq(EventType)  BY Fields DEF Sound
  <1>3. Streams(u)
    <2>1. ASSUME NEW i \in DOMAIN u.events, u.events[i].type = "down"
          PROVE  u.link[u.events[i].conn].reader = "done"
      <3>1. i + 1 \in DOMAIN w.events /\ u.events[i] = w.events[i + 1]
        BY <1>2, TailOfEvents
      <3> QED  BY <2>1, <3>1 DEF Sound, Streams
    <2>2. ASSUME NEW i \in DOMAIN u.events, NEW j \in DOMAIN u.events,
                 i < j, u.events[i].type = "down"
          PROVE  u.events[j].conn # u.events[i].conn
      <3>1. /\ i + 1 \in DOMAIN w.events /\ u.events[i] = w.events[i + 1]
            /\ j + 1 \in DOMAIN w.events /\ u.events[j] = w.events[j + 1]
            /\ i \in Nat /\ j \in Nat
        BY <1>2, TailOfEvents
      <3>2. i + 1 < j + 1  BY <2>2, <3>1
      <3> QED  BY <2>2, <3>1, <3>2 DEF Sound, Streams
    <2>3. \A k \in Conns : u.link[k].st \in {"unused", "handshake"} => u.link[k].reader = "none"
      BY DEF Sound, Streams
    <2> QED  BY <2>1, <2>2, <2>3 DEF Streams
  <1>4. Cardinality(Held(u)) <= cfg.cap
    <2>1. Cardinality(Held(u)) \in Nat /\ Cardinality(Held(w)) \in Nat
      BY HeldIsFinite DEF Sound
    <2>2. Cardinality(Held(u)) <= Cardinality(Held(w)) /\ Cardinality(Held(w)) <= cfg.cap
      BY <1>1, HeldIsFinite, FS_Subset DEF Sound, Sockets
    <2>3. cfg.cap \in Nat  BY Config DEF Sound
    <2> QED  BY <2>1, <2>2, <2>3
  <1>5. \A c \in Calls : u.calls[c].sock # NoConn => InUse(u, u.calls[c].sock)
    BY DEF Sound, Sockets, InUse
  <1>6. Losses(u)
    <2> SUFFICES ASSUME cfg.perCall, cfg.kind # "udp",
                        NEW k \in Held(u), u.link[k].reader = "done"
                 PROVE  Reported(u, k)
      BY DEF Losses
    <2>1. PICK i \in DOMAIN w.events : /\ w.events[i].type = "down" /\ w.events[i].conn = k
                                       /\ w.events[i].port = w.link[k].port
      BY <1>1 DEF Sound, Losses, Reported
    <2>2. i # 1
      <3>1. Head(w.events) = w.events[1]  BY <1>2, TailOfEvents
      <3> QED  BY <2>1, <3>1
    <2>3. PICK j \in DOMAIN Tail(w.events) : j + 1 = i  BY <1>2, <2>2, TailOfEvents
    <2>4. Tail(w.events)[j] = w.events[i]  BY <1>2, <2>3, TailOfEvents
    <2> QED  BY <2>1, <2>3, <2>4 DEF Reported
  <1> QED  BY <1>3, <1>4, <1>5, <1>6 DEF Sound, Sockets, Budget

LEMMA EventLeaves ==
  ASSUME NEW w \in StateType, w.events # << >>
  PROVE  LET v == [w EXCEPT !.events = Tail(@)] IN
         /\ v \in StateType /\ v.events = Tail(w.events) /\ v.link = w.link
         /\ v.pool = w.pool /\ v.left = w.left /\ v.dials = w.dials /\ v.calls = w.calls
         /\ v.counted = w.counted /\ Kept(w, v) /\ InTable(v) = InTable(w) /\ Held(v) = Held(w)
  <1> DEFINE tail == Tail(w.events)
  <1> DEFINE v == [w EXCEPT !.events = tail]
  <1>1. tail \in Seq(EventType)  BY Fields, TailOfEvents
  <1> HIDE DEF tail
  <1>2. /\ v \in StateType /\ v.events = tail /\ v.link = w.link
        /\ v.pool = w.pool /\ v.left = w.left /\ v.dials = w.dials /\ v.calls = w.calls
        /\ v.counted = w.counted /\ Kept(w, v)
    BY <1>1 DEF StateType, Kept
  <1> HIDE DEF v
  <1>3. InTable(v) = InTable(w) /\ Held(v) = Held(w)  BY <1>2 DEF InTable, Held
  <1> QED  BY <1>2, <1>3 DEF v, tail

(* An event other than the end of a call's own connection leaves no trace.   *)
LEMMA PoppingIsProper ==
  ASSUME NEW w, Sound(w), w.events # << >>, ~(Head(w.events).type = "down" /\ cfg.perCall)
  PROVE  LET v == [w EXCEPT !.events = Tail(@)] IN Proper(w, v)
  <1> DEFINE v == [w EXCEPT !.events = Tail(@)]
  <1>1. /\ v \in StateType /\ v.events = Tail(w.events) /\ v.link = w.link
        /\ v.pool = w.pool /\ v.left = w.left /\ v.dials = w.dials /\ v.calls = w.calls
        /\ v.counted = w.counted /\ Kept(w, v) /\ InTable(v) = InTable(w)
    BY EventLeaves DEF Sound
  <1> HIDE DEF v
  <1>2. Sound(v)  BY <1>1, HandlingIsSound DEF Sound, Sockets, Kept
  <1>3. Proper(w, v)  BY <1>1, <1>2 DEF Proper, Spares, Marked, CountedOnce, Kept
  <1> QED  BY <1>3 DEF v

(* The end of a shared connection.                                           *)
LEMMA SharedEndIsProper ==
  ASSUME NEW w, Sound(w), ~cfg.perCall, NEW ev \in EventType, NEW x \in OnDisconnected(w, ev)
  PROVE  Proper(w, x)
  <1> DEFINE p == ev.peer
  <1> DEFINE table == [w.table EXCEPT ![p] = NoConn]
  <1> DEFINE f == [w EXCEPT !.table = table]
  <1> DEFINE v == IF cfg.close THEN ClosesCallsTo(f, p) ELSE f
  <1> DEFINE i == [v EXCEPT !.invalid = TRUE]
  <1>0. w \in StateType /\ p \in Peers  BY DEF Sound, EventType
  <1>1. Forget(w, p) = f  BY <1>0 DEF Forget, StateType
  <1>2. \/ ~MayReconnect(p) /\ x = v
        \/ MayReconnect(p) /\ x = i
        \/ MayReconnect(p) /\ x \in Resets(i, p)
    BY <1>1 DEF OnDisconnected
  <1> HIDE DEF p
  <1>3. table \in [Peers -> Conns \cup {NoConn}] /\ \A q \in Peers \ {p} : table[q] = w.table[q]
    BY <1>0, Fields
  <1> HIDE DEF table
  <1>4. /\ f \in StateType /\ f.table = table /\ f.link = w.link /\ f.events = w.events
        /\ f.pool = w.pool /\ f.left = w.left /\ f.dials = w.dials /\ f.calls = w.calls
        /\ f.counted = w.counted /\ f.invalid = w.invalid /\ f.pending = w.pending
        /\ f.halted = w.halted /\ f.end = w.end
    BY <1>0, <1>3 DEF StateType
  <1> HIDE DEF f
  <1>5. Sound(f)  BY <1>4, SpendingIsSound DEF Sound, Budget
  <1>6. Spares(w, f) /\ (CountedOnce(w) => CountedOnce(f))  BY <1>4 DEF Spares, CountedOnce
  <1>7. Proper(f, v) /\ Kept(f, v)
    BY <1>5, ClosesCallsToIsProper, StayingIsProper DEF Kept
  <1> HIDE DEF v
  <1>8. Sound(v) /\ Spares(w, v) /\ (CountedOnce(w) => CountedOnce(v))
    BY <1>6, <1>7 DEF Proper, Spares
  <1>9. CASE ~MayReconnect(p) /\ x = v
    <2>1. MayReconnect(Target) => p # Target  BY <1>9
    <2>2. Marked(w) => Marked(v)
      BY <1>3, <1>4, <1>7, <2>1, ConnectionsAssumption DEF Marked, Kept
    <2> QED  BY <1>8, <1>9, <2>2 DEF Proper
  <1>10. CASE MayReconnect(p) /\ (x = i \/ x \in Resets(i, p))
    <2>1. /\ i \in StateType /\ i.link = v.link /\ i.events = v.events /\ i.calls = v.calls
          /\ i.pool = v.pool /\ i.pending = v.pending /\ i.halted = v.halted /\ i.end = v.end
          /\ i.left = v.left /\ i.dials = v.dials /\ i.counted = v.counted /\ i.invalid
      BY <1>8 DEF Sound, StateType
    <2> HIDE DEF i
    <2>2. Sound(i)  BY <1>8, <2>1, SpendingIsSound DEF Sound, Budget
    <2>3. Proper(w, i)
      BY <1>8, <2>1, <2>2 DEF Proper, Spares, Marked, CountedOnce
    <2>4. CASE x = i  BY <2>3, <2>4
    <2>5. CASE x \in Resets(i, p)
      <3>1. Proper(i, x)  BY <1>0, <1>10, <2>2, <2>5, ResetsIsProper
      <3> QED  BY <2>3, <3>1, ProperComposes
    <2> QED  BY <1>10, <2>4, <2>5
  <1> QED  BY <1>2, <1>9, <1>10

LEMMA ClosingIsProper ==
  ASSUME NEW w, Sound(w)
  PROVE  Proper(w, CloseUnheld(w)) /\ Sound(CloseUnheld(w))
  <1>1. SameBut(w, CloseUnheld(w)) /\ Sound(CloseUnheld(w))
    BY CloseUnheldCloses, CloseUnheldIsSound DEF Sound
  <1> QED  BY <1>1 DEF Proper, SameBut, Spares, Marked, CountedOnce

LEMMA LetsGoLets ==
  ASSUME NEW w \in StateType, NEW ids \in SUBSET Calls
  PROVE  LET u == LetsGo(w, ids) IN
         /\ u \in StateType /\ u.link = w.link /\ u.events = w.events /\ u.pool = w.pool
         /\ u.left = w.left /\ u.dials = w.dials /\ u.counted = w.counted /\ Kept(w, u)
         /\ \A c \in Calls : /\ u.calls[c].st = w.calls[c].st
                             /\ u.calls[c].sock = IF c \in ids THEN NoConn ELSE w.calls[c].sock
  <1> DEFINE calls == [c \in Calls |-> IF c \in ids THEN [w.calls[c] EXCEPT !.sock = NoConn]
                                                    ELSE w.calls[c]]
  <1> DEFINE u == [w EXCEPT !.calls = calls]
  <1>1. LetsGo(w, ids) = u  BY DEF LetsGo
  <1>2. \A l \in CallType : /\ [l EXCEPT !.sock = NoConn] \in CallType
                            /\ [l EXCEPT !.sock = NoConn].st = l.st
                            /\ [l EXCEPT !.sock = NoConn].sock = NoConn
    BY DEF CallType
  <1>3. \A c \in Calls : /\ calls[c] \in CallType /\ calls[c].st = w.calls[c].st
                         /\ calls[c].sock = IF c \in ids THEN NoConn ELSE w.calls[c].sock
    BY <1>2, Fields
  <1>4. calls \in [Calls -> CallType]  BY <1>3
  <1> HIDE DEF calls
  <1>5. /\ u \in StateType /\ u.calls = calls /\ u.link = w.link /\ u.events = w.events
        /\ u.pool = w.pool /\ u.left = w.left /\ u.dials = w.dials /\ u.counted = w.counted
        /\ Kept(w, u)
    BY <1>4 DEF StateType, Kept
  <1> QED  BY <1>1, <1>3, <1>5

(* The end of a call's own connection, at the head of the channel: the calls *)
(* that hold one with its port lose it before the report leaves the channel. *)
LEMMA OwnEndIsProper ==
  ASSUME NEW w, Sound(w), cfg.perCall, w.events # << >>, NEW x,
         x \in OnDisconnected([w EXCEPT !.events = Tail(@)], Head(w.events))
  PROVE  Proper(w, x)
  <1> DEFINE v == [w EXCEPT !.events = Tail(@)]
  <1> DEFINE ev == Head(w.events)
  <1> DEFINE ids == {c \in InTable(v) : /\ v.calls[c].sock # NoConn
                                        /\ v.link[v.calls[c].sock].port = ev.port}
  <1>1. /\ v \in StateType /\ v.events = Tail(w.events) /\ v.link = w.link
        /\ v.pool = w.pool /\ v.left = w.left /\ v.dials = w.dials /\ v.calls = w.calls
        /\ v.counted = w.counted /\ Kept(w, v) /\ InTable(v) = InTable(w) /\ Held(v) = Held(w)
    BY EventLeaves DEF Sound
  <1>2. \/ x = CloseUnheld(ClosesCalls(v, ids))
        \/ x = CloseUnheld(LetsGo(v, ids))
    BY DEF OnDisconnected
  <1> HIDE DEF v
  <1>3. ids \in SUBSET Calls /\ ids \subseteq InTable(w)  BY <1>1 DEF InTable
  <1>4. \A c \in Calls : c \notin ids /\ w.calls[c].sock # NoConn =>
                            w.link[w.calls[c].sock].port # ev.port
    BY <1>1 DEF Sound, Sockets
  <1> HIDE DEF ids, ev
  <1>5. CASE x = CloseUnheld(ClosesCalls(v, ids))
    <2>1. PICK u \in StateType :
            /\ Ended(v, ids, {"completing"}) = CloseUnheld(u)
            /\ u.link = v.link /\ u.events = v.events /\ u.pool = v.pool
            /\ u.left = v.left /\ u.dials = v.dials /\ Kept(v, u)
            /\ \A c \in Calls :
                  /\ u.counted[c] = IF c \in ids THEN v.counted[c] + 1 ELSE v.counted[c]
                  /\ u.calls[c].st = IF c \in ids THEN Verdict(v.calls[c].st, {"completing"})
                                                  ELSE v.calls[c].st
                  /\ u.calls[c].sock = IF c \in ids THEN NoConn ELSE v.calls[c].sock
      BY <1>1, <1>3, EndedLeaves
    <2>2. InTable(u) \subseteq InTable(w) /\ \A c \in InTable(w) : c \in InTable(u) \/ c \in ids
      BY <1>1, <2>1 DEF InTable, Verdict
    <2>3. \A c \in Calls : /\ u.calls[c].sock \in {w.calls[c].sock, NoConn}
                           /\ u.calls[c].sock # NoConn => c \in InTable(u)
      BY <1>1, <2>1, <2>2 DEF Sound, Sockets
    <2>4. \A k \in Held(u) : w.link[k].port # ev.port
      BY <1>1, <1>4, <2>1 DEF Held
    <2>5. Sound(u)
      BY <1>1, <2>1, <2>2, <2>3, <2>4, HandlingIsSound DEF Sound, Kept, ev
    <2>6. CountedOnce(w) => CountedOnce(u)
      BY <1>1, <1>3, <2>1 DEF CountedOnce, Kept, Verdict, InTable
    <2>7. Spares(w, u)  BY <1>1, <1>3, <2>1 DEF Spares, Kept, Verdict, InTable
    <2>8. Proper(w, u)  BY <1>1, <2>1, <2>5, <2>6, <2>7 DEF Proper, Marked, Kept
    <2>9. x = CloseUnheld(CloseUnheld(u))  BY <1>5, <2>1 DEF ClosesCalls
    <2> QED  BY <2>5, <2>8, <2>9, ClosingIsProper, ProperComposes
  <1>6. CASE x = CloseUnheld(LetsGo(v, ids))
    <2> DEFINE u == LetsGo(v, ids)
    <2>1. /\ u \in StateType /\ u.link = v.link /\ u.events = v.events /\ u.pool = v.pool
          /\ u.left = v.left /\ u.dials = v.dials /\ u.counted = v.counted /\ Kept(v, u)
          /\ \A c \in Calls :
                /\ u.calls[c].st = v.calls[c].st
                /\ u.calls[c].sock = IF c \in ids THEN NoConn ELSE v.calls[c].sock
      BY <1>1, <1>3, LetsGoLets
    <2> HIDE DEF u
    <2>2. InTable(u) = InTable(w)  BY <1>1, <2>1 DEF InTable
    <2>3. \A c \in Calls : /\ u.calls[c].sock \in {w.calls[c].sock, NoConn}
                           /\ u.calls[c].sock # NoConn => c \in InTable(u)
      BY <1>1, <2>1, <2>2 DEF Sound, Sockets
    <2>4. \A k \in Held(u) : w.link[k].port # ev.port
      BY <1>1, <1>4, <2>1 DEF Held
    <2>5. Sound(u)
      BY <1>1, <2>1, <2>2, <2>3, <2>4, HandlingIsSound DEF Sound, Kept, ev
    <2>6. Proper(w, u)
      BY <1>1, <2>1, <2>5 DEF Proper, Spares, Marked, CountedOnce, Kept
    <2> QED  BY <1>6, <2>5, <2>6, ClosingIsProper, ProperComposes DEF u
  <1> QED  BY <1>2, <1>5, <1>6

-----------------------------------------------------------------------------
(* The engine's steps.                                                       *)

(* A call's state changes, and nothing else.                                 *)
LEMMA StateChanges ==
  ASSUME NEW w \in StateType, NEW c \in Calls, NEW st \in {"live", "completing"}
  PROVE  LET v == [w EXCEPT !.calls[c].st = st] IN
         /\ v \in StateType /\ v.link = w.link /\ v.events = w.events /\ v.pool = w.pool
         /\ v.left = w.left /\ v.dials = w.dials /\ v.counted = w.counted /\ Kept(w, v)
         /\ \A d \in Calls : /\ v.calls[d].st = IF d = c THEN st ELSE w.calls[d].st
                             /\ v.calls[d].sock = w.calls[d].sock
  <1> DEFINE l == [w.calls[c] EXCEPT !.st = st]
  <1> DEFINE calls == [w.calls EXCEPT ![c] = l]
  <1> DEFINE v == [w EXCEPT !.calls = calls]
  <1>1. w.calls[c] \in CallType  BY Fields
  <1>2. [w EXCEPT !.calls[c].st = st] = v  BY <1>1, Fields DEF StateType
  <1>3. l \in CallType /\ l.st = st /\ l.sock = w.calls[c].sock  BY <1>1 DEF CallType
  <1> HIDE DEF l
  <1>4. /\ calls \in [Calls -> CallType] /\ calls[c] = l
        /\ \A d \in Calls \ {c} : calls[d] = w.calls[d]
    BY <1>3, Fields
  <1> HIDE DEF calls
  <1>5. /\ v \in StateType /\ v.calls = calls /\ v.link = w.link /\ v.events = w.events
        /\ v.pool = w.pool /\ v.left = w.left /\ v.dials = w.dials /\ v.counted = w.counted
        /\ Kept(w, v)
    BY <1>4 DEF StateType, Kept
  <1> HIDE DEF v
  <1>6. \A d \in Calls : /\ v.calls[d].st = IF d = c THEN st ELSE w.calls[d].st
                         /\ v.calls[d].sock = w.calls[d].sock
    BY <1>3, <1>4, <1>5
  <1> QED  BY <1>2, <1>5, <1>6

LEMMA StateChangeIsProper ==
  ASSUME NEW w, Sound(w), NEW c \in Calls, w.calls[c].st = "live"
  PROVE  LET v == [w EXCEPT !.calls[c].st = "completing"] IN Proper(w, v)
  <1> DEFINE v == [w EXCEPT !.calls[c].st = "completing"]
  <1>1. /\ v \in StateType /\ v.link = w.link /\ v.events = w.events /\ v.pool = w.pool
        /\ v.left = w.left /\ v.dials = w.dials /\ v.counted = w.counted /\ Kept(w, v)
        /\ \A d \in Calls : /\ v.calls[d].st = IF d = c THEN "completing" ELSE w.calls[d].st
                            /\ v.calls[d].sock = w.calls[d].sock
    BY StateChanges DEF Sound
  <1> HIDE DEF v
  <1>2. InTable(w) = InTable(v)  BY <1>1 DEF InTable
  <1>3. Sound(v)  BY <1>1, <1>2, LettingGoIsSound DEF Sound, Sockets, Kept
  <1>4. Proper(w, v)  BY <1>1, <1>3 DEF Proper, Spares, Marked, CountedOnce, Kept
  <1> QED  BY <1>4 DEF v

(* A client's call opens, and is late when the run is over.                  *)
LEMMA OpeningIsProper ==
  ASSUME Sound(sys), NEW c \in Calls, OpenCall(c)
  PROVE  Proper(sys, sys') /\ UNCHANGED cfg
  <1> DEFINE end == Late(sys.end, c)
  <1> DEFINE u == [sys EXCEPT !.calls[c].st = "live"]
  <1>0. sys \in StateType /\ sys.calls[c].st = "free" /\ UNCHANGED cfg
    BY DEF Sound, OpenCall, Engine
  <1>1. /\ u \in StateType /\ u.link = sys.link /\ u.events = sys.events /\ u.pool = sys.pool
        /\ u.left = sys.left /\ u.dials = sys.dials /\ u.counted = sys.counted /\ Kept(sys, u)
        /\ \A d \in Calls : /\ u.calls[d].st = IF d = c THEN "live" ELSE sys.calls[d].st
                            /\ u.calls[d].sock = sys.calls[d].sock
    BY <1>0, StateChanges
  <1>2. \/ ~sys.halted /\ sys' = u
        \/ sys.halted /\ sys' = [u EXCEPT !.end = end]
    <2>1. sys' = [sys EXCEPT !.calls[c].st = "live",
                             !.end = IF Running THEN @ ELSE Late(@, c)]
      BY DEF OpenCall, Engine
    <2>2. CASE sys.halted
      <3> HIDE DEF end
      <3> QED  BY <1>0, <2>1, <2>2 DEF Running, StateType, end
    <2>3. CASE ~sys.halted  BY <1>0, <2>1, <2>3 DEF Running, StateType
    <2> QED  BY <2>2, <2>3
  <1> HIDE DEF u
  <1>3. InTable(u) = InTable(sys) \cup {c}  BY <1>1 DEF InTable
  <1>4. CASE ~sys.halted /\ sys' = u
    <2>1. Sound(u)  BY <1>1, <1>3, <1>4, LettingGoIsSound DEF Sound, Sockets, Kept
    <2>2. Proper(sys, u)
      BY <1>0, <1>1, <2>1 DEF Proper, Spares, Marked, CountedOnce, Kept
    <2> QED  BY <1>0, <1>4, <2>2
  <1>5. CASE sys.halted /\ sys' = [u EXCEPT !.end = end]
    <2> DEFINE v == [u EXCEPT !.end = end]
    <2>1. sys.end \in [late: SUBSET Calls, turn: SUBSET Calls, guilty: SUBSET Calls]
      BY <1>0 DEF StateType
    <2>2. /\ end \in [late: SUBSET Calls, turn: SUBSET Calls, guilty: SUBSET Calls]
          /\ end.late = sys.end.late \cup {c} /\ end.guilty = sys.end.guilty
      BY <2>1 DEF Late
    <2> HIDE DEF end
    <2>3. /\ v \in StateType /\ v.link = u.link /\ v.events = u.events /\ v.pool = u.pool
          /\ v.left = u.left /\ v.dials = u.dials /\ v.calls = u.calls /\ v.pending = u.pending
          /\ v.table = u.table /\ v.invalid = u.invalid /\ v.halted = u.halted
          /\ v.counted = u.counted /\ v.end = end
      BY <1>1, <2>2 DEF StateType
    <2>4. sys' = v  BY <1>5
    <2> HIDE DEF v
    <2>5. InTable(v) = InTable(sys) \cup {c}  BY <1>3, <2>3 DEF InTable
    <2>6. InTable(v) \subseteq v.end.late  BY <1>5, <2>2, <2>3, <2>5 DEF Sound
    <2>7. Sound(v)
      BY <1>1, <2>3, <2>5, <2>6, LettingGoIsSound DEF Sound, Sockets, Kept
    <2>8. Marked(sys) => Marked(v)  BY <1>1, <2>3 DEF Marked, Kept
    <2>9. CountedOnce(sys) => CountedOnce(v)
      BY <1>0, <1>1, <2>2, <2>3 DEF CountedOnce, Kept
    <2>10. v.halted  BY <1>1, <1>5, <2>3 DEF Kept
    <2> QED  BY <1>0, <2>4, <2>7, <2>8, <2>9, <2>10, HaltedIsProper
  <1> QED  BY <1>2, <1>4, <1>5

(* A server's call opens, for the peer that sent its first message.          *)
LEMMA NewCallIsProper ==
  ASSUME NEW w, Sound(w), ~w.halted, NEW c \in Calls, w.calls[c].st = "free", NEW p \in Peers
  PROVE  LET v == [w EXCEPT !.calls[c] = [@ EXCEPT !.st = "live", !.remote = p]] IN Proper(w, v)
  <1> DEFINE l == [w.calls[c] EXCEPT !.st = "live", !.remote = p]
  <1> DEFINE calls == [w.calls EXCEPT ![c] = l]
  <1> DEFINE v == [w EXCEPT !.calls = calls]
  <1>0. w \in StateType /\ w.calls[c] \in CallType  BY Fields DEF Sound
  <1>1. [w EXCEPT !.calls[c] = [@ EXCEPT !.st = "live", !.remote = p]] = v
    BY <1>0, Fields DEF StateType
  <1>2. l \in CallType /\ l.st = "live" /\ l.sock = w.calls[c].sock  BY <1>0 DEF CallType
  <1> HIDE DEF l
  <1>3. /\ calls \in [Calls -> CallType] /\ calls[c] = l
        /\ \A d \in Calls \ {c} : calls[d] = w.calls[d]
    BY <1>0, <1>2, Fields
  <1> HIDE DEF calls
  <1>4. /\ v \in StateType /\ v.calls = calls /\ v.link = w.link /\ v.events = w.events
        /\ v.pool = w.pool /\ v.left = w.left /\ v.dials = w.dials /\ v.counted = w.counted
        /\ Kept(w, v)
    BY <1>0, <1>3 DEF StateType, Kept
  <1> HIDE DEF v
  <1>5. \A d \in Calls : /\ v.calls[d].st = IF d = c THEN "live" ELSE w.calls[d].st
                         /\ v.calls[d].sock = w.calls[d].sock
    BY <1>2, <1>3, <1>4
  <1>6. InTable(w) \subseteq InTable(v)  BY <1>5 DEF InTable
  <1>7. Sound(v)  BY <1>4, <1>5, <1>6, LettingGoIsSound DEF Sound, Sockets, Kept
  <1>8. Proper(w, v)
    BY <1>4, <1>5, <1>7 DEF Proper, Spares, Marked, CountedOnce, Kept
  <1> QED  BY <1>1, <1>8

(* Whatever the engine does is proper.                                       *)
LEMMA EngineIsProper ==
  ASSUME Sound(sys), EngineNext
  PROVE  Proper(sys, sys') /\ UNCHANGED cfg
  <1>1. ASSUME NEW c \in Calls, OpenCall(c)
        PROVE  Proper(sys, sys') /\ UNCHANGED cfg
    BY <1>1, OpeningIsProper
  <1>2. ASSUME NEW c \in Calls, CallSends(c)
        PROVE  Proper(sys, sys') /\ UNCHANGED cfg
    <2>1. sys.calls[c].st = "live" /\ UNCHANGED cfg  BY <1>2 DEF CallSends, Engine
    <2>2. PICK e \in EnsuresSocket(sys, c) :
             \/ sys' = Failed(e.w, c)
             \/ \E r \in Sends(e.w, c) : sys' = r.w \/ sys' \in AfterSendFailure(r.w, c)
      BY <1>2 DEF CallSends, Engine
    <2>3. Proper(sys, e.w) /\ e.w.calls[c].st = "live" /\ Sound(e.w)
      BY <2>1, EnsuresSocketIsProper DEF Proper
    <2>4. CASE sys' = Failed(e.w, c)
      BY <2>1, <2>3, <2>4, FailedIsProper, ProperComposes
    <2>5. ASSUME NEW r \in Sends(e.w, c), sys' = r.w \/ sys' \in AfterSendFailure(r.w, c)
          PROVE  Proper(sys, sys')
      <3>1. Proper(e.w, r.w) /\ r.w.calls[c].st = "live" /\ Sound(r.w)
        BY <2>3, SendsMark DEF Proper
      <3>2. Proper(sys, r.w)  BY <2>3, <3>1, ProperComposes
      <3>3. CASE sys' = r.w  BY <3>2, <3>3
      <3>4. CASE sys' \in AfterSendFailure(r.w, c)
        <4>1. Proper(r.w, sys')  BY <3>1, <3>4, AfterSendFailureIsProper
        <4> QED  BY <3>2, <4>1, ProperComposes
      <3> QED  BY <2>5, <3>3, <3>4
    <2> QED  BY <2>1, <2>2, <2>4, <2>5
  <1>3. ASSUME NEW c \in Calls, CallReplies(c)
        PROVE  Proper(sys, sys') /\ UNCHANGED cfg
    <2>1. PICK r \in Sends(sys, c) : sys' = r.w
      BY <1>3 DEF CallReplies, Engine
    <2>2. Proper(sys, r.w)
      BY SendsMark
    <2> QED BY <1>3, <2>1, <2>2 DEF CallReplies, Engine
  <1>4. ASSUME NEW c \in Calls, CallLingers(c)
        PROVE  Proper(sys, sys') /\ UNCHANGED cfg
    <2>1. /\ sys.calls[c].st = "live" /\ UNCHANGED cfg
          /\ sys' = [sys EXCEPT !.calls[c].st = "completing"]
      BY <1>4 DEF CallLingers, Engine
    <2>2. Proper(sys, [sys EXCEPT !.calls[c].st = "completing"])
      BY <2>1, StateChangeIsProper
    <2> QED BY <2>1, <2>2
  <1>5. ASSUME NEW c \in Calls, CallCompletes(c)
        PROVE  Proper(sys, sys') /\ UNCHANGED cfg
    BY <1>5, CompletedIsProper DEF CallCompletes, Engine
  <1>6. ASSUME NEW c \in Calls, CallFails(c)
        PROVE  Proper(sys, sys') /\ UNCHANGED cfg
    BY <1>6, FailsCallIsProper DEF CallFails, Engine
  <1>7. ASSUME NEW c \in Calls, CallIsAborted(c)
        PROVE  Proper(sys, sys') /\ UNCHANGED cfg
    <2>1. sys.calls[c].st = "live" /\ UNCHANGED cfg  BY <1>7 DEF CallIsAborted, Engine
    <2>2. PICK v \in SendsDefault(sys, c) : sys' = FailsFromAction(v, c)
      BY <1>7 DEF CallIsAborted, Engine, FailsFromAction
    <2>3. /\ Proper(sys, v)
          /\ \/ v.calls[c].st = "live"
             \/ /\ v.halted /\ InTable(v) = {}
                /\ c \in v.end.guilty /\ v.calls[c].st = "failed"
      BY <2>1, <2>2, SendsDefaultIsProper DEF InTable
    <2>4. Proper(v, sys')  BY <2>2, <2>3, FailsFromActionIsProper DEF Proper
    <2> QED  BY <2>1, <2>3, <2>4, ProperComposes
  <1>8. ASSUME NEW c \in Calls, NEW p \in Peers, CallMoves(c, p)
        PROVE  Proper(sys, sys') /\ UNCHANGED cfg
    BY <1>8, SetsDestIsProper DEF CallMoves, Engine
  <1>9. CASE HandlePacket
    <2> DEFINE w == [sys EXCEPT !.events = Tail(@)]
    <2>1. /\ ~sys.halted /\ sys.events # << >> /\ Head(sys.events).type = "packet"
          /\ UNCHANGED cfg
          /\ \/ sys' = w
             \/ \E c \in Calls :
                   /\ w.calls[c].st = "free"
                   /\ sys' = [w EXCEPT !.calls[c] = [@ EXCEPT !.st = "live",
                                                              !.remote = Head(sys.events).peer]]
      BY <1>9 DEF HandlePacket, Engine, Running
    <2>2. Head(sys.events).peer \in Peers
      BY <2>1, Fields, TailOfEvents DEF Sound, EventType
    <2>3. Proper(sys, w) /\ Sound(w)  BY <2>1, PoppingIsProper DEF Proper
    <2>4. ~w.halted  BY <2>1, EventLeaves DEF Sound, Kept
    <2> HIDE DEF w
    <2>5. CASE sys' = w  BY <2>1, <2>3, <2>5
    <2>6. ASSUME NEW c \in Calls, w.calls[c].st = "free",
                 sys' = [w EXCEPT !.calls[c] = [@ EXCEPT !.st = "live",
                                                         !.remote = Head(sys.events).peer]]
          PROVE  Proper(sys, sys')
      <3>1. Proper(w, sys')  BY <2>2, <2>3, <2>4, <2>6, NewCallIsProper
      <3> QED  BY <2>3, <3>1, ProperComposes
    <2> QED  BY <2>1, <2>5, <2>6
  <1>10. CASE HandleDown
    <2> DEFINE w == [sys EXCEPT !.events = Tail(@)]
    <2> DEFINE ev == Head(sys.events)
    <2>1. sys.events # << >> /\ sys' \in OnDisconnected(w, ev) /\ UNCHANGED cfg
      BY <1>10 DEF HandleDown, Engine
    <2>2. CASE cfg.perCall
      BY <2>1, <2>2, OwnEndIsProper
    <2>3. CASE ~cfg.perCall
      <3>1. Proper(sys, w) /\ Sound(w)  BY <2>1, <2>3, PoppingIsProper DEF Proper
      <3>2. ev \in EventType  BY <2>1, Fields, TailOfEvents DEF Sound
      <3> HIDE DEF w, ev
      <3>3. Proper(w, sys')  BY <2>1, <2>3, <3>1, <3>2, SharedEndIsProper
      <3> QED  BY <2>1, <3>1, <3>3, ProperComposes
    <2> QED  BY <2>2, <2>3
  <1> QED
    BY <1>1, <1>2, <1>3, <1>4, <1>5, <1>6, <1>7, <1>8, <1>9, <1>10 DEF EngineNext

-----------------------------------------------------------------------------
(* The readers, the peers, the accept loops.                                 *)

(* A connection changes in what nobody but its two ends looks at.            *)
Touches(w, v) ==
    /\ v \in StateType /\ SameBut(w, v)
    /\ \A k \in Conns :
          /\ v.link[k].reader = w.link[k].reader /\ v.link[k].port = w.link[k].port
          /\ \/ v.link[k].st = w.link[k].st
             \/ w.link[k].st \in {"up", "half"} /\ v.link[k].st \in {"half", "reset"}

LEMMA TouchingIsProper ==
  ASSUME NEW w, Sound(w), NEW v, Touches(w, v)
  PROVE  Proper(w, v)
  <1>0. w \in StateType  BY DEF Sound
  <1>1. Held(v) = Held(w) /\ InTable(v) = InTable(w)
    BY DEF Touches, SameBut, Held, InTable
  <1>2. \A i \in DOMAIN w.events : w.events[i].conn \in Conns  BY <1>0, Fields
  <1>3. Streams(v)  BY <1>2 DEF Streams, Sound, Touches, SameBut
  <1>4. Held(w) \subseteq Conns  BY <1>0, HeldIsFinite
  <1>5. Sockets(v)
    <2>1. ASSUME NEW c \in Calls, w.calls[c].sock # NoConn
          PROVE  w.calls[c].sock \in Held(w)
      BY <2>1 DEF Held
    <2> QED  BY <1>1, <1>4, <2>1 DEF Sockets, Sound, Touches, SameBut, InUse
  <1>6. Losses(v)  BY <1>1, <1>4 DEF Losses, Reported, Sound, Touches, SameBut
  <1>7. Sound(v)
    BY <1>1, <1>3, <1>5, <1>6 DEF Sound, Touches, SameBut, Budget
  <1> QED
    BY <1>7 DEF Proper, Touches, SameBut, Spares, Marked, CountedOnce

(* A link is replaced by one that differs in its inbox, or in closing.       *)
LEMMA LinkChanges ==
  ASSUME NEW w, w \in StateType, NEW k \in Conns, NEW l \in LinkType
  PROVE  LET v == [w EXCEPT !.link = [w.link EXCEPT ![k] = l]] IN
         /\ v \in StateType /\ SameBut(w, v) /\ v.link[k] = l
         /\ \A j \in Conns \ {k} : v.link[j] = w.link[j]
  <1> DEFINE links == [w.link EXCEPT ![k] = l]
  <1>1. /\ links \in [Conns -> LinkType] /\ links[k] = l
        /\ \A j \in Conns \ {k} : links[j] = w.link[j]
    BY Fields
  <1> HIDE DEF links
  <1> DEFINE v == [w EXCEPT !.link = links]
  <1>2. v \in StateType /\ v.link = links /\ SameBut(w, v)
    BY <1>1 DEF StateType, SameBut
  <1> QED  BY <1>1, <1>2 DEF links

LEMMA TookTouches ==
  ASSUME NEW w, Sound(w), NEW k \in Conns, w.link[k].inbox # << >>
  PROVE  /\ Touches(w, Took(w, k)) /\ Took(w, k).link[k].peer = w.link[k].peer
         /\ Took(w, k).table = w.table
         /\ Head(w.link[k].inbox) \in Units("ws")
  <1> DEFINE l == [w.link[k] EXCEPT !.inbox = Tail(@)]
  <1>0. w \in StateType /\ w.link[k] \in LinkType  BY Fields DEF Sound
  <1>1. w.link[k].inbox \in Seq(Units("ws"))  BY <1>0 DEF LinkType
  <1>2. Tail(w.link[k].inbox) \in Seq(Units("ws")) /\ Head(w.link[k].inbox) \in Units("ws")
    BY <1>1
  <1>3. /\ l \in LinkType /\ l.reader = w.link[k].reader /\ l.port = w.link[k].port
        /\ l.st = w.link[k].st /\ l.peer = w.link[k].peer
    BY <1>0, <1>2 DEF LinkType
  <1>4. Took(w, k) = [w EXCEPT !.link = [w.link EXCEPT ![k] = l]]
    BY <1>0, Fields DEF Took, StateType
  <1> HIDE DEF l
  <1>5. /\ Took(w, k) \in StateType /\ SameBut(w, Took(w, k)) /\ Took(w, k).link[k] = l
        /\ \A j \in Conns \ {k} : Took(w, k).link[j] = w.link[j]
    BY <1>0, <1>3, <1>4, LinkChanges
  <1> QED  BY <1>2, <1>3, <1>5 DEF Touches, SameBut

LEMMA BuriedIsDone ==
  ASSUME NEW l \in LinkType
  PROVE  /\ Buried(l) \in LinkType /\ Buried(l).reader = "done" /\ Buried(l).st = l.st
         /\ l.st # "shut" => Buried(l).port = l.port
  <1> DEFINE u == [Unused EXCEPT !.st = "shut", !.reader = "done"]
  <1> DEFINE e == [l EXCEPT !.reader = "done", !.inbox = << >>]
  <1>1. u \in LinkType /\ u.st = "shut" /\ u.reader = "done"
    BY SomePortIsOne DEF LinkType
  <1>2. << >> \in Seq(Units("ws"))  OBVIOUS
  <1>3. e \in LinkType /\ e.st = l.st /\ e.reader = "done" /\ e.port = l.port
    BY <1>2 DEF LinkType
  <1>4. Buried(l) = IF l.st = "shut" THEN u ELSE e  BY DEF Buried
  <1> QED  BY <1>1, <1>3, <1>4

LEMMA EventIsOne ==
  ASSUME NEW w \in StateType, NEW k \in Conns, NEW type \in {"packet", "down"},
         NEW clean \in BOOLEAN
  PROVE  LET e == Event(w, k, type, clean) IN
         e \in EventType /\ e.conn = k /\ e.type = type /\ e.port = w.link[k].port
  <1>1. w.link[k].peer \in Peers /\ w.link[k].port \in Ports
    <2>1. w.link[k] \in LinkType  BY Fields
    <2> QED  BY <2>1 DEF LinkType
  <1> QED  BY <1>1 DEF Event, EventType

(* The channel grows while the connection's reader reads.                    *)
LEMMA EventComes ==
  ASSUME NEW w, Sound(w), NEW k \in Conns, w.link[k].reader = "reading",
         NEW e \in EventType, e.conn = k, NEW v \in StateType,
         v.events = Append(w.events, e), v.table = w.table, v.calls = w.calls,
         v.counted = w.counted, v.invalid = w.invalid, v.pending = w.pending,
         v.left = w.left, v.dials = w.dials, v.halted = w.halted /\ v.end = w.end, v.pool = w.pool,
         \A j \in Conns \ {k} : v.link[j] = w.link[j],
         v.link[k].st = w.link[k].st,
         \/ e.type = "packet" /\ v.link[k].reader = "reading"
         \/ e.type = "down" /\ v.link[k].reader = "done" /\ e.port = w.link[k].port,
         w.link[k].st # "shut" => v.link[k].port = w.link[k].port
  PROVE  Proper(w, v)
  <1>0. w \in StateType /\ w.events \in Seq(EventType)  BY Fields DEF Sound
  <1>1. Held(v) = Held(w) /\ InTable(v) = InTable(w)  BY DEF Held, InTable
  <1>2. Held(w) \subseteq Conns  BY <1>0, HeldIsFinite
  <1>3. \A i \in DOMAIN w.events : w.events[i].conn \in Conns  BY <1>0, Fields
  <1> DEFINE last == Len(w.events) + 1
  <1>4. /\ last \in DOMAIN v.events /\ v.events[last] = e
        /\ \A i \in DOMAIN w.events : i \in DOMAIN v.events /\ v.events[i] = w.events[i]
        /\ \A i \in DOMAIN v.events : i = last \/ i \in DOMAIN w.events
        /\ \A i \in DOMAIN v.events : ~(last < i)
    BY <1>0
  <1> HIDE DEF last
  <1>5. Streams(v)
    <2>1. \A i \in DOMAIN w.events : w.events[i].type = "down" => w.events[i].conn # k
      BY DEF Sound, Streams
    <2>2. ASSUME NEW i \in DOMAIN v.events, v.events[i].type = "down"
          PROVE  v.link[v.events[i].conn].reader = "done"
      <3>1. CASE i = last  BY <1>4, <2>2, <3>1
      <3>2. CASE i \in DOMAIN w.events
        BY <1>3, <1>4, <2>1, <2>2, <3>2 DEF Sound, Streams
      <3> QED  BY <1>4, <3>1, <3>2
    <2>3. ASSUME NEW i \in DOMAIN v.events, NEW j \in DOMAIN v.events,
                 i < j, v.events[i].type = "down"
          PROVE  v.events[j].conn # v.events[i].conn
      <3>1. i \in DOMAIN w.events  BY <1>4, <2>3
      <3>2. CASE j = last  BY <1>4, <2>1, <2>3, <3>1, <3>2
      <3>3. CASE j \in DOMAIN w.events
        BY <1>4, <2>3, <3>1, <3>3 DEF Sound, Streams
      <3> QED  BY <1>4, <3>2, <3>3
    <2>4. \A j \in Conns : v.link[j].st \in {"unused", "handshake"} => v.link[j].reader = "none"
      BY DEF Sound, Streams
    <2> QED  BY <2>2, <2>3, <2>4 DEF Streams
  <1>6. Sockets(v)
    <2>1. ASSUME NEW c \in Calls, w.calls[c].sock # NoConn
          PROVE  w.calls[c].sock \in Held(w)
      BY <2>1 DEF Held
    <2> QED  BY <1>1, <1>2, <2>1 DEF Sockets, Sound, InUse
  <1>7. Losses(v)
    <2> SUFFICES ASSUME cfg.perCall, cfg.kind # "udp",
                        NEW j \in Held(w), v.link[j].reader = "done"
                 PROVE  Reported(v, j)
      BY <1>1 DEF Losses
    <2>1. w.link[j].st # "shut" /\ j \in Conns
      BY <1>2 DEF Sound, Sockets, InUse, Held
    <2>2. CASE j = k
      BY <1>4, <2>1, <2>2 DEF Reported
    <2>3. CASE j # k
      <3>1. Reported(w, j)  BY <2>1, <2>3 DEF Sound, Losses
      <3> QED  BY <1>4, <2>1, <2>3, <3>1 DEF Reported
    <2> QED  BY <2>2, <2>3
  <1>8. Sound(v)  BY <1>1, <1>5, <1>6, <1>7 DEF Sound, Budget
  <1> QED  BY <1>8 DEF Proper, Spares, Marked, CountedOnce

LEMMA DeliverIsProper ==
  ASSUME NEW w, Sound(w), NEW k \in Conns, w.link[k].reader = "reading"
  PROVE  Proper(w, Deliver(w, k))
  <1>0. w \in StateType  BY DEF Sound
  <1>1. PICK e : e = Event(w, k, "packet", TRUE)  OBVIOUS
  <1>2. e \in EventType /\ e.conn = k /\ e.type = "packet"
    BY <1>0, <1>1, EventIsOne
  <1> DEFINE events == Append(w.events, e)
  <1> DEFINE v == [w EXCEPT !.events = events]
  <1>3. events \in Seq(EventType)  BY <1>0, <1>2, Fields
  <1>4. Deliver(w, k) = v  BY <1>1 DEF Deliver
  <1>5. events = Append(w.events, e)  OBVIOUS
  <1> HIDE DEF events
  <1>6. /\ v \in StateType /\ v.events = events /\ v.table = w.table /\ v.calls = w.calls
        /\ v.counted = w.counted /\ v.invalid = w.invalid /\ v.pending = w.pending
        /\ v.left = w.left /\ v.dials = w.dials /\ v.halted = w.halted /\ v.end = w.end /\ v.pool = w.pool
        /\ v.link = w.link
    BY <1>0, <1>3 DEF StateType
  <1> HIDE DEF v
  <1> QED  BY <1>2, <1>4, <1>5, <1>6, EventComes

LEMMA ReportIsProper ==
  ASSUME NEW w, Sound(w), NEW k \in Conns, w.link[k].reader = "reading"
  PROVE  Proper(w, Report(w, k, TRUE)) /\ Proper(w, Report(w, k, FALSE))
  <1> SUFFICES ASSUME NEW clean \in BOOLEAN
               PROVE  Proper(w, Report(w, k, clean))
    OBVIOUS
  <1>0. w \in StateType /\ w.link[k] \in LinkType  BY Fields DEF Sound
  <1>1. PICK e : e = Event(w, k, "down", clean)  OBVIOUS
  <1>2. e \in EventType /\ e.conn = k /\ e.type = "down" /\ e.port = w.link[k].port
    BY <1>0, <1>1, EventIsOne
  <1>3. PICK l : l = Buried(w.link[k])  OBVIOUS
  <1>4. /\ l \in LinkType /\ l.reader = "done" /\ l.st = w.link[k].st
        /\ w.link[k].st # "shut" => l.port = w.link[k].port
    BY <1>0, <1>3, BuriedIsDone
  <1> DEFINE events == Append(w.events, e)
  <1> DEFINE links == [w.link EXCEPT ![k] = l]
  <1> DEFINE v == [w EXCEPT !.events = events, !.link = links]
  <1>5. events \in Seq(EventType)  BY <1>0, <1>2, Fields
  <1>6. /\ links \in [Conns -> LinkType] /\ links[k] = l
        /\ \A j \in Conns \ {k} : links[j] = w.link[j]
    BY <1>0, <1>4, Fields
  <1>7. Report(w, k, clean) = v  BY <1>0, <1>1, <1>3 DEF Report, StateType
  <1>8. events = Append(w.events, e)  OBVIOUS
  <1> HIDE DEF events, links
  <1>9. /\ v \in StateType /\ v.events = events /\ v.table = w.table /\ v.calls = w.calls
        /\ v.counted = w.counted /\ v.invalid = w.invalid /\ v.pending = w.pending
        /\ v.left = w.left /\ v.dials = w.dials /\ v.halted = w.halted /\ v.end = w.end /\ v.pool = w.pool
        /\ v.link = links
    BY <1>0, <1>5, <1>6 DEF StateType
  <1> HIDE DEF v
  <1> QED  BY <1>2, <1>4, <1>6, <1>7, <1>8, <1>9, EventComes

LEMMA ReadUnitIsProper ==
  ASSUME NEW w, Sound(w), NEW k \in Conns, w.link[k].reader = "reading",
         w.link[k].inbox # << >>, NEW kind, NEW x \in ReadUnit(w, k, kind)
  PROVE  Proper(w, x)
  <1> DEFINE n == Took(w, k)
  <1> DEFINE to == ReplyOn(w, k, kind)
  <1> DEFINE m == [n EXCEPT !.link[to].closing = TRUE]
  <1>0. w \in StateType /\ w.link[k] \in LinkType  BY Fields DEF Sound
  <1>1. \/ x \in {Deliver(n, k), n, Report(n, k, FALSE), Report(n, k, TRUE)}
        \/ CanReply(w, k, kind) /\ x = Report(m, k, TRUE)
    <2>1. Head(w.link[k].inbox) \in {"msg", "ping", "close", "bad"}
      BY TookTouches DEF Units
    <2> HIDE DEF n, m
    <2>2. CASE Head(w.link[k].inbox) = "close"
      BY <2>2 DEF ReadUnit, n, m
    <2>3. CASE Head(w.link[k].inbox) # "close"
      BY <2>1, <2>3 DEF ReadUnit, n
    <2> QED  BY <2>2, <2>3
  <1>2. Touches(w, n)  BY TookTouches
  <1>3. Proper(w, n) /\ Sound(n) /\ n.link[k].reader = "reading"
    BY <1>2, TouchingIsProper DEF Proper, Touches
  <1> HIDE DEF n
  <1>4. CASE x \in {Deliver(n, k), n, Report(n, k, FALSE), Report(n, k, TRUE)}
    <2>1. Proper(n, Deliver(n, k)) /\ Proper(n, n)
      BY <1>3, DeliverIsProper, StayingIsProper
    <2>2. Proper(n, Report(n, k, TRUE)) /\ Proper(n, Report(n, k, FALSE))
      BY <1>3, ReportIsProper
    <2>3. Proper(n, x)  BY <1>4, <2>1, <2>2
    <2> QED  BY <1>3, <2>3, ProperComposes
  <1>5. CASE CanReply(w, k, kind) /\ x = Report(m, k, TRUE)
    <2>1. to \in Conns \cup {NoConn}
      <3>1. w.link[k].peer \in Peers  BY <1>0 DEF LinkType
      <3> QED  BY <1>0, <3>1, Fields DEF ReplyOn
    <2>2. to # NoConn  BY <1>5 DEF CanReply, WriteResults
    <2> HIDE DEF to
    <2> DEFINE l == [n.link[to] EXCEPT !.closing = TRUE]
    <2>3. n \in StateType /\ to \in Conns /\ n.link[to] \in LinkType
      BY <1>3, <2>1, <2>2, Fields DEF Sound
    <2>4. /\ l \in LinkType /\ l.reader = n.link[to].reader /\ l.port = n.link[to].port
          /\ l.st = n.link[to].st
      BY <2>3 DEF LinkType
    <2>5. m = [n EXCEPT !.link = [n.link EXCEPT ![to] = l]]
      BY <2>3, Fields DEF StateType
    <2> HIDE DEF l, m
    <2>6. /\ m \in StateType /\ SameBut(n, m) /\ m.link[to] = l
          /\ \A j \in Conns \ {to} : m.link[j] = n.link[j]
      BY <2>3, <2>4, <2>5, LinkChanges
    <2>7. Touches(n, m)  BY <2>4, <2>6 DEF Touches
    <2>8. Proper(n, m) /\ Sound(m) /\ m.link[k].reader = "reading"
      BY <1>3, <2>7, TouchingIsProper DEF Proper, Touches
    <2>9. Proper(m, x)  BY <1>5, <2>8, ReportIsProper
    <2> QED  BY <1>3, <2>8, <2>9, ProperComposes
  <1> QED  BY <1>1, <1>4, <1>5

LEMMA ReaderIsProper ==
  ASSUME NEW w, Sound(w), NEW k \in Conns, NEW x \in ReaderSteps(w, k, cfg.kind)
  PROVE  Proper(w, x)
  <1> DEFINE n == Took(w, k)
  <1>1. w.link[k].reader = "reading"  BY DEF ReaderSteps
  <1>2. \/ x \in {Report(w, k, TRUE), Report(w, k, FALSE)}
        \/ w.link[k].inbox # << >> /\ x \in ReadUnit(w, k, cfg.kind)
        \/ w.link[k].inbox # << >> /\ x \in {Deliver(n, k), n}
    <2>1. cfg.kind \in Kinds  BY Config DEF Sound
    <2> HIDE DEF n
    <2>2. ReadEnd(w, k) \subseteq {Report(w, k, TRUE), Report(w, k, FALSE)}  BY DEF ReadEnd
    <2>3. CASE cfg.kind \in {"tcp", "ws"}
      BY <1>1, <2>2, <2>3 DEF ReaderSteps, TcpReads
    <2>4. CASE cfg.kind \in {"tls", "wss"}
      BY <1>1, <2>2, <2>4 DEF ReaderSteps, TcpReads, TlsReads
    <2>5. CASE cfg.kind = "sctp"
      BY <1>1, <2>2, <2>5 DEF ReaderSteps, SctpReads, n
    <2>6. CASE cfg.kind = "udp"
      BY <1>1, <2>2, <2>6 DEF ReaderSteps, UdpReads, n
    <2> QED  BY <2>1, <2>3, <2>4, <2>5, <2>6 DEF Kinds
  <1>3. CASE x \in {Report(w, k, TRUE), Report(w, k, FALSE)}
    BY <1>1, <1>3, ReportIsProper
  <1>4. CASE w.link[k].inbox # << >> /\ x \in ReadUnit(w, k, cfg.kind)
    BY <1>1, <1>4, ReadUnitIsProper
  <1>5. CASE w.link[k].inbox # << >> /\ x \in {Deliver(n, k), n}
    <2>1. Touches(w, n)  BY <1>5, TookTouches
    <2>2. Proper(w, n) /\ Sound(n) /\ n.link[k].reader = "reading"
      BY <1>1, <2>1, TouchingIsProper DEF Proper, Touches
    <2> HIDE DEF n
    <2> QED  BY <1>5, <2>2, DeliverIsProper, ProperComposes
  <1> QED  BY <1>2, <1>3, <1>4, <1>5

LEMMA NetworkIsProper ==
  ASSUME NEW w, Sound(w), NEW k \in Conns, NEW kind \in Kinds, NEW x \in PeerSteps(w, k, kind)
  PROVE  Proper(w, x)
  <1>0. w \in StateType /\ w.link[k] \in LinkType  BY Fields DEF Sound
  <1>1. \/ \E u \in Units("ws") : x = [w EXCEPT !.link[k].inbox = Append(@, u)]
        \/ w.link[k].st = "up" /\ x = [w EXCEPT !.link[k].st = "half"]
        \/ w.link[k].st \in {"up", "half"} /\ x = [w EXCEPT !.link[k].st = "reset"]
    BY DEF PeerSteps, PeerWrites, PeerCloses, Breaks, Units
  <1>2. ASSUME NEW u \in Units("ws"), x = [w EXCEPT !.link[k].inbox = Append(@, u)]
        PROVE  Proper(w, x)
    <2> DEFINE l == [w.link[k] EXCEPT !.inbox = Append(@, u)]
    <2>1. w.link[k].inbox \in Seq(Units("ws"))  BY <1>0 DEF LinkType
    <2>2. Append(w.link[k].inbox, u) \in Seq(Units("ws"))  BY <2>1
    <2>3. /\ l \in LinkType /\ l.reader = w.link[k].reader /\ l.port = w.link[k].port
          /\ l.st = w.link[k].st
      BY <1>0, <2>2 DEF LinkType
    <2>4. x = [w EXCEPT !.link = [w.link EXCEPT ![k] = l]]
      BY <1>0, <1>2, Fields DEF StateType
    <2> HIDE DEF l
    <2>5. Touches(w, x)  BY <1>0, <2>3, <2>4, LinkChanges DEF Touches
    <2> QED  BY <2>5, TouchingIsProper
  <1>3. ASSUME NEW st \in {"half", "reset"}, w.link[k].st \in {"up", "half"},
               x = [w EXCEPT !.link[k].st = st]
        PROVE  Proper(w, x)
    <2> DEFINE l == [w.link[k] EXCEPT !.st = st]
    <2>1. /\ l \in LinkType /\ l.reader = w.link[k].reader /\ l.port = w.link[k].port
          /\ l.st = st
      BY <1>0, <1>3 DEF LinkType
    <2>2. x = [w EXCEPT !.link = [w.link EXCEPT ![k] = l]]
      BY <1>0, <1>3, Fields DEF StateType
    <2> HIDE DEF l
    <2>3. Touches(w, x)  BY <1>0, <1>3, <2>1, <2>2, LinkChanges DEF Touches
    <2> QED  BY <2>3, TouchingIsProper
  <1> QED  BY <1>1, <1>2, <1>3

(* A connection that no call holds, and whose end was not reported.          *)
LEMMA NewcomerIsProper ==
  ASSUME NEW w, Sound(w), NEW k \in Conns, k \notin Held(w), w.link[k].reader # "done",
         NEW v \in StateType, SameBut(w, v), \A j \in Conns \ {k} : v.link[j] = w.link[j],
         v.link[k].st \in {"unused", "handshake"} => v.link[k].reader = "none"
  PROVE  Proper(w, v)
  <1>0. w \in StateType  BY DEF Sound
  <1>1. Held(v) = Held(w) /\ InTable(v) = InTable(w)  BY DEF SameBut, Held, InTable
  <1>2. Held(w) \subseteq Conns \ {k}  BY <1>0, HeldIsFinite
  <1>3. \A i \in DOMAIN w.events : w.events[i].conn \in Conns  BY <1>0, Fields
  <1>4. Streams(v)  BY <1>3 DEF Streams, Sound, SameBut
  <1>5. Sockets(v)
    <2>1. ASSUME NEW c \in Calls, w.calls[c].sock # NoConn
          PROVE  w.calls[c].sock \in Held(w)
      BY <2>1 DEF Held
    <2> QED  BY <1>1, <1>2, <2>1 DEF Sockets, Sound, SameBut, InUse
  <1>6. Losses(v)  BY <1>1, <1>2 DEF Losses, Reported, Sound, SameBut
  <1>7. Sound(v)  BY <1>1, <1>4, <1>5, <1>6 DEF Sound, SameBut, Budget
  <1> QED  BY <1>7 DEF Proper, SameBut, Spares, Marked, CountedOnce

LEMMA AcceptsIsProper ==
  ASSUME Sound(sys), NEW p \in Clients, Accepts(p)
  PROVE  Proper(sys, sys')
  <1>1. PICK k \in Openable(sys) : sys' \in {TakesAtOnce(sys, k, p), TakesToHandshake(sys, k, p)}
    BY DEF Accepts
  <1>2. p \in Peers  BY ConnectionsAssumption
  <1>3. k \in Conns /\ sys.link[k].st = "unused"  BY FreshIsUnused
  <1> DEFINE o == Open(sys, k, p, SomePort, FALSE)
  <1>4. /\ Proper(sys, o) /\ k \notin Held(o) /\ o.link[k].reader = "reading"
    <2>1. \A own \in BOOLEAN :
            LET v == Open(sys, k, p, SomePort, own)
            IN  Proper(sys, v) /\ k \notin Held(v) /\ v.link[k].reader = "reading"
      BY <1>2, <1>3, SomePortIsOne, OpenOpens
    <2> QED  BY <2>1
  <1>5. Sound(o) /\ o \in StateType  BY <1>4 DEF Proper, Sound
  <1>6. CASE sys' = TakesAtOnce(sys, k, p)
    <2>1. sys' = Register(o, k)  BY <1>6 DEF TakesAtOnce
    <2> HIDE DEF o
    <2>2. Proper(o, sys')  BY <1>3, <1>4, <1>5, <2>1, RegisterRegisters
    <2> QED  BY <1>4, <2>2, ProperComposes
  <1>7. CASE sys' = TakesToHandshake(sys, k, p)
    <2>1. sys' = [o EXCEPT !.link[k].st = "handshake", !.link[k].reader = "none"]
      BY <1>7 DEF TakesToHandshake
    <2> HIDE DEF o
    <2> DEFINE l == [o.link[k] EXCEPT !.st = "handshake", !.reader = "none"]
    <2>2. o.link[k] \in LinkType  BY <1>3, <1>5, Fields
    <2>3. l \in LinkType /\ l.reader = "none"  BY <2>2 DEF LinkType
    <2>4. sys' = [o EXCEPT !.link = [o.link EXCEPT ![k] = l]]
      BY <1>3, <1>5, <2>1, <2>2, Fields DEF StateType, LinkType
    <2> HIDE DEF l
    <2>5. /\ sys' \in StateType /\ SameBut(o, sys') /\ sys'.link[k] = l
          /\ \A j \in Conns \ {k} : sys'.link[j] = o.link[j]
      BY <1>3, <1>5, <2>3, <2>4, LinkChanges
    <2>6. Proper(o, sys')  BY <1>3, <1>4, <1>5, <2>3, <2>5, NewcomerIsProper
    <2> QED  BY <1>4, <2>6, ProperComposes
  <1> QED  BY <1>1, <1>6, <1>7

LEMMA HandshakeIsProper ==
  ASSUME Sound(sys), NEW k \in Conns, Handshake(k)
  PROVE  Proper(sys, sys')
  <1>1. /\ sys.link[k].st = "handshake"
        /\ sys' \in {Register(sys, k), [sys EXCEPT !.link[k].st = "shut"]}
    BY DEF Handshake
  <1>2. sys.link[k].reader = "none" /\ k \notin Held(sys)
    BY <1>1 DEF Sound, Streams, Sockets, InUse, Held
  <1>3. CASE sys' = Register(sys, k)
    BY <1>2, <1>3, RegisterRegisters
  <1>4. CASE sys' = [sys EXCEPT !.link[k].st = "shut"]
    <2> DEFINE l == [sys.link[k] EXCEPT !.st = "shut"]
    <2>1. sys \in StateType /\ sys.link[k] \in LinkType  BY Fields DEF Sound
    <2>2. l \in LinkType /\ l.st = "shut"  BY <2>1 DEF LinkType
    <2>3. sys' = [sys EXCEPT !.link = [sys.link EXCEPT ![k] = l]]
      BY <1>4, <2>1, Fields DEF StateType
    <2> HIDE DEF l
    <2>4. /\ sys' \in StateType /\ SameBut(sys, sys') /\ sys'.link[k] = l
          /\ \A j \in Conns \ {k} : sys'.link[j] = sys.link[j]
      BY <2>1, <2>2, <2>3, LinkChanges
    <2> QED  BY <1>2, <2>2, <2>4, NewcomerIsProper
  <1> QED  BY <1>1, <1>3, <1>4

LEMMA NextIsProper ==
  ASSUME Sound(sys), Next
  PROVE  Proper(sys, sys') /\ UNCHANGED cfg
  <1>1. CASE EngineNext
    BY <1>1, EngineIsProper
  <1>2. ASSUME NEW k \in Conns, Reader(k)
        PROVE  Proper(sys, sys') /\ UNCHANGED cfg
    BY <1>2, ReaderIsProper DEF Reader
  <1>3. ASSUME NEW k \in Conns, Network(k)
        PROVE  Proper(sys, sys') /\ UNCHANGED cfg
    BY <1>3, NetworkIsProper, Config DEF Network, Sound
  <1>4. ASSUME NEW k \in Conns, Handshake(k)
        PROVE  Proper(sys, sys') /\ UNCHANGED cfg
    BY <1>4, HandshakeIsProper DEF Handshake
  <1>5. ASSUME NEW p \in Clients, Accepts(p)
        PROVE  Proper(sys, sys') /\ UNCHANGED cfg
    BY <1>5, AcceptsIsProper DEF Accepts
  <1> QED  BY <1>1, <1>2, <1>3, <1>4, <1>5 DEF Next

-----------------------------------------------------------------------------
(* The invariant.                                                            *)

LEMMA InitIsSound == Init => Inv
  <1> SUFFICES ASSUME Init PROVE Inv  OBVIOUS
  <1> DEFINE idle == [link |-> [k \in Conns |-> Unused], table |-> [p \in Peers |-> NoConn],
                      events |-> << >>, calls |-> [c \in Calls |-> NoCall],
                      counted |-> [c \in Calls |-> 0], invalid |-> FALSE, pending |-> NoPeer,
                      left |-> cfg.max, dials |-> 0, halted |-> FALSE, end |-> NoEnd,
                      pool |-> {}, cursor |-> 0]
  <1> DEFINE o == Open(idle, 1, Target, SomePort, FALSE)
  <1>1. /\ cfg \in Configs
        /\ sys = IF MayReconnect(Target) THEN Register(o, 1) ELSE idle
    BY DEF Init
  <1>2. /\ idle.link = [k \in Conns |-> Unused] /\ idle.events = << >>
        /\ idle.calls = [c \in Calls |-> NoCall] /\ idle.counted = [c \in Calls |-> 0]
        /\ idle.pending = NoPeer /\ idle.left = cfg.max /\ idle.dials = 0
        /\ idle.halted = FALSE /\ idle.end = NoEnd
    OBVIOUS
  <1>3. idle \in StateType
    <2>1. [k \in Conns |-> Unused] \in [Conns -> LinkType]  BY SomePortIsOne
    <2>2. [p \in Peers |-> NoConn] \in [Peers -> Conns \cup {NoConn}]  OBVIOUS
    <2>3. NoCall \in CallType  BY ConnectionsAssumption DEF NoCall, CallType
    <2>4. [c \in Calls |-> NoCall] \in [Calls -> CallType]  BY <2>3
    <2>5. [c \in Calls |-> 0] \in [Calls -> Nat]  OBVIOUS
    <2>6. << >> \in Seq(EventType) /\ cfg.max \in Int /\ 0 \in 0 .. CursorWrap - 1
      BY <1>1, Config DEF CursorWrap
    <2>7. NoEnd \in [late: SUBSET Calls, turn: SUBSET Calls, guilty: SUBSET Calls]
      BY DEF NoEnd
    <2> QED  BY <2>1, <2>2, <2>4, <2>5, <2>6, <2>7 DEF StateType
  <1> HIDE DEF idle
  <1>4. \A c \in Calls : idle.calls[c].st = "free" /\ idle.calls[c].sock = NoConn
    BY <1>2 DEF NoCall
  <1>5. Held(idle) = {} /\ InTable(idle) = {}
    BY <1>4 DEF Held, InTable
  <1>6. Sound(idle)
    <2>1. Streams(idle)  BY <1>2 DEF Streams, Unused
    <2>2. Sockets(idle)
      <3>1. Cardinality(Held(idle)) = 0  BY <1>5, FS_EmptySet
      <3> QED  BY <1>1, <1>4, <3>1, Config DEF Sockets
    <2>3. Losses(idle)  BY <1>5 DEF Losses
    <2>4. Budget(idle)  BY <1>1, <1>2, Config DEF Budget
    <2> QED  BY <1>1, <1>2, <1>3, <1>5, <2>1, <2>2, <2>3, <2>4 DEF Sound
  <1>7. CountedOnce(idle)  BY <1>2, <1>4 DEF CountedOnce, NoEnd
  <1>8. CASE ~MayReconnect(Target)
    BY <1>1, <1>6, <1>7, <1>8 DEF Inv, Marked
  <1>9. CASE MayReconnect(Target)
    <2>1. 1 \in Conns /\ idle.link[1].st = "unused"
      <3>1. 1 \in Conns  BY TransportAssumption DEF Conns
      <3> QED  BY <1>2, <3>1 DEF Unused
    <2>2. Target \in Peers  BY ConnectionsAssumption
    <2>3. /\ Proper(idle, o) /\ 1 \notin Held(o) /\ o.link[1].reader = "reading"
          /\ o.link[1].peer = Target
      <3>1. \A own \in BOOLEAN :
              LET v == Open(idle, 1, Target, SomePort, own)
              IN  /\ Proper(idle, v) /\ 1 \notin Held(v) /\ v.link[1].reader = "reading"
                  /\ v.link[1].peer = Target
        BY <1>6, <2>1, <2>2, SomePortIsOne, OpenOpens
      <3> QED  BY <3>1
    <2> HIDE DEF o
    <2>4. Proper(o, sys) /\ sys.table[Target] = 1
      BY <1>1, <1>9, <2>1, <2>3, RegisterRegisters DEF Proper
    <2>5. 1 # NoConn  BY <2>1, NoConnIsNone
    <2> QED  BY <1>7, <2>3, <2>4, <2>5 DEF Inv, Proper, Marked
  <1> QED  BY <1>8, <1>9

LEMMA NextKeepsInv ==
  ASSUME Inv, [Next]_vars
  PROVE  Inv'
  <1>1. CASE Next
    <2>1. Sound(sys') /\ Marked(sys') /\ CountedOnce(sys') /\ cfg' = cfg
      BY <1>1, NextIsProper DEF Inv, Proper
    <2> QED
      BY <2>1 DEF Inv, Sound, Streams, Sockets, InUse, Losses, Reported, Budget, Marked,
                  CountedOnce, Held, InTable, MayReconnect
  <1>2. CASE UNCHANGED vars
    BY <1>2 DEF vars, Inv, Sound, Streams, Sockets, InUse, Losses, Reported, Budget, Marked,
                CountedOnce, Held, InTable, MayReconnect
  <1> QED  BY <1>1, <1>2

LEMMA Invariance == Spec => []Inv
  <1>1. Init => Inv  BY InitIsSound
  <1>2. Inv /\ [Next]_vars => Inv'  BY NextKeepsInv
  <1> QED  BY <1>1, <1>2, PTL DEF Spec

-----------------------------------------------------------------------------
(* The properties of the run.                                                *)

(* Whatever fails inside the handler that ends it, a call is counted as      *)
(* ended once (complete_call, fail_call, close_calls), or more often only if *)
(* its own failure ended the run (apply_setdest, send_default_message); and  *)
(* a run that a lost connection or a fatal send error ends leaves none       *)
(* behind (fail_all), but those opened in the turn that ended it.            *)
THEOREM CallsAreReported == Spec => []EveryCallIsReported
  <1>1. Inv => EveryCallIsReported
    BY DEF Inv, Sound, EveryCallIsReported, TypeOK, CallsAreCounted, CountedOnce,
           HaltedRunHasLateCallsOnly
  <1> QED  BY <1>1, Invariance, PTL

(* A client without a connection knows it (on_disconnected marks it, and     *)
(* reset_mono_connection clears the mark with a new one), and no call keeps  *)
(* a socket of its own whose end was handled.                                *)
THEOREM LossesAreAlwaysNoticed == Spec => []LossesAreNoticed
  <1>1. Inv => LostConnectionIsMarked
    BY DEF Inv, Marked, LostConnectionIsMarked
  <1>2. Inv => NoCallOnAHandledLoss
    <2> SUFFICES ASSUME Inv, cfg.perCall, NEW c \in InTable(sys),
                        sys.calls[c].sock # NoConn,
                        sys.link[sys.calls[c].sock].reader = "done", cfg.kind # "udp"
                 PROVE  \E i \in DOMAIN sys.events :
                           /\ sys.events[i].type = "down"
                           /\ sys.events[i].conn = sys.calls[c].sock
      BY DEF NoCallOnAHandledLoss
    <2>1. sys.calls[c].sock \in Held(sys)  BY DEF Held, InTable
    <2> QED  BY <2>1 DEF Inv, Sound, Losses, Reported
  <1>3. Inv => LossesAreNoticed  BY <1>1, <1>2 DEF LossesAreNoticed
  <1> QED  BY <1>3, Invariance, PTL

(* -max_socket bounds the sockets that calls hold (ensure_call_socket,       *)
(* apply_setdest), and -max_reconnect the dials of the shared connection.    *)
THEOREM BudgetsAlwaysHold == Spec => []BudgetsHold
  <1>1. Inv => BudgetsHold
    BY DEF Inv, Sound, Sockets, Budget, BudgetsHold, SocketsWithinCap, DialsWithinBudget
  <1> QED  BY <1>1, Invariance, PTL

(* Nothing of a connection follows its end in the channel (read_loop).       *)
THEOREM EndIsAlwaysLast == Spec => []EndIsLast
  <1>1. Inv => EndIsLast
    BY DEF Inv, Sound, Streams, EndIsLast
  <1> QED  BY <1>1, Invariance, PTL

(* A call that only lingers is never failed for its connection (close_calls) *)
(* while the run goes on.                                                    *)
THEOREM LingeringCallsAlwaysComplete == Spec => LingeringCallsComplete
  <1> DEFINE A == \A c \in Calls : sys.calls[c].st = "completing" /\ ~sys'.halted
                                      => sys'.calls[c].st # "failed"
  <1>1. ASSUME Inv, [Next]_vars
        PROVE  [A]_vars
    <2>1. CASE Next
      <3>1. Spares(sys, sys')  BY <1>1, <2>1, NextIsProper DEF Inv, Proper
      <3> QED  BY <3>1 DEF Spares
    <2>2. CASE UNCHANGED vars  BY <2>2
    <2> QED  BY <1>1, <2>1, <2>2
  <1>2. Inv /\ [Next]_vars => [A]_vars  BY <1>1
  <1> QED  BY <1>2, Invariance, PTL DEF Spec, LingeringCallsComplete

=============================================================================
