----------------------------- MODULE MediaProofs -----------------------------
(* What holds of the media for any calls, sources, ports and bounds, however *)
(* the engine, the media thread and the peers take turns; and of the         *)
(* rollover counter of SRTP for any sequence numbers.                        *)
EXTENDS Media, FiniteSetTheorems, SequenceTheorems, TLAPS

-----------------------------------------------------------------------------
(* The events that are judged.                                              *)

Tags == {"rtp-audio", "rtp-video", "audio", "video", All}
Happened == [is : {"check", "finished", "failed", "other"}, call : Nat, tag : Tags, sent : Nat, failed : Nat]

Judgeables(q) == {i \in 1..Len(q) : Judgeable(q[i])}
Tallied(q) == Cardinality(Judgeables(q))

LEMMA JudgeablesAreFinite ==
    ASSUME NEW q \in Seq(Happened)
    PROVE  IsFiniteSet(Judgeables(q)) /\ Tallied(q) \in Nat
  <1>1. Len(q) \in Nat
    OBVIOUS
  <1>2. IsFiniteSet(1..Len(q))
    BY <1>1, FS_Interval
  <1>3. IsFiniteSet(Judgeables(q))
    BY <1>2, FS_Subset DEF Judgeables
  <1> QED BY <1>3, FS_CardinalityType DEF Tallied

LEMMA TalliedJoin ==
    ASSUME NEW q \in Seq(Happened), NEW r \in Seq(Happened)
    PROVE  q \o r \in Seq(Happened) /\ Tallied(q \o r) = Tallied(q) + Tallied(r)
  <1> DEFINE n == Len(q)
             S == Judgeables(q)
             T == Judgeables(r)
             U == {n + i : i \in T}
             f == [i \in T |-> n + i]
  <1>1. /\ q \o r \in Seq(Happened) /\ Len(q \o r) = Len(q) + Len(r) /\ n \in Nat /\ Len(r) \in Nat
        /\ \A i \in 1..Len(q) : (q \o r)[i] = q[i]
        /\ \A i \in 1..Len(r) : (q \o r)[Len(q) + i] = r[i]
    BY ConcatProperties
  <1>2. S \subseteq 1..n /\ T \subseteq 1..Len(r)
    BY DEF Judgeables
  <1>3. Judgeables(q \o r) = S \cup U
    <2>1. ASSUME NEW i \in 1..Len(q \o r) PROVE i \in 1..n \/ \E j \in 1..Len(r) : i = n + j
      <3>1. CASE i > n
        <4>1. i - n \in 1..Len(r) /\ i = n + (i - n)
          BY <1>1, <3>1
        <4> QED BY <4>1
      <3> QED BY <1>1, <3>1
    <2>2. ASSUME NEW j \in 1..Len(r) PROVE n + j \in 1..Len(q \o r)
      BY <1>1
    <2>3. ASSUME NEW i \in 1..n PROVE i \in 1..Len(q \o r)
      BY <1>1
    <2> QED BY <1>1, <2>1, <2>2, <2>3 DEF Judgeables
  <1>4. S \cap U = {}
    BY <1>1, <1>2
  <1>5. f \in Bijection(T, U)
    BY <1>1, <1>2 DEF Bijection, Injection, Surjection, IsInjective
  <1>6. IsFiniteSet(S) /\ IsFiniteSet(T) /\ Cardinality(S) \in Nat /\ Cardinality(T) \in Nat
    BY JudgeablesAreFinite DEF Tallied
  <1>7. IsFiniteSet(U) /\ Cardinality(U) = Cardinality(T)
    BY <1>5, <1>6, FS_Bijection DEF ExistsBijection
  <1> HIDE DEF S, T, U, f
  <1>8. Cardinality(S \cup U) = Cardinality(S) + Cardinality(T)
    <2>1. Cardinality(S \cup U) = Cardinality(S) + Cardinality(U) - Cardinality(S \cap U)
      BY <1>6, <1>7, FS_Union
    <2>2. Cardinality(S \cap U) = 0
      BY <1>4, FS_EmptySet
    <2> QED BY <1>6, <1>7, <2>1, <2>2
  <1> QED BY <1>1, <1>3, <1>8 DEF Tallied, S, T

LEMMA TalliedOne ==
    ASSUME NEW e \in Happened
    PROVE  <<e>> \in Seq(Happened) /\ Tallied(<<e>>) = IF Judgeable(e) THEN 1 ELSE 0
  <1>1. Judgeables(<<e>>) = IF Judgeable(e) THEN {1} ELSE {}
    BY DEF Judgeables
  <1>2. Cardinality({1}) = 1 /\ Cardinality({}) = 0
    BY FS_Singleton, FS_EmptySet
  <1> QED BY <1>1, <1>2 DEF Tallied

LEMMA TalliedNone == Tallied(<<>>) = 0
  BY FS_EmptySet DEF Tallied, Judgeables

LEMMA TalliedHead ==
    ASSUME NEW q \in Seq(Happened), q # <<>>
    PROVE  /\ Head(q) \in Happened /\ Tail(q) \in Seq(Happened)
           /\ Tallied(q) = Tallied(Tail(q)) + (IF Judgeable(Head(q)) THEN 1 ELSE 0)
  <1>1. Head(q) \in Happened /\ Tail(q) \in Seq(Happened) /\ q = <<Head(q)>> \o Tail(q)
    BY HeadTailProperties
  <1>2. Tallied(q) = Tallied(<<Head(q)>>) + Tallied(Tail(q))
    BY <1>1, TalliedOne, TalliedJoin
  <1>3. Tallied(Tail(q)) \in Nat
    BY <1>1, JudgeablesAreFinite
  <1> QED BY <1>1, <1>2, <1>3, TalliedOne

LEMMA TalliedAppend ==
    ASSUME NEW q \in Seq(Happened), NEW e \in Happened
    PROVE  /\ Append(q, e) \in Seq(Happened)
           /\ Tallied(Append(q, e)) = Tallied(q) + (IF Judgeable(e) THEN 1 ELSE 0)
  <1>1. Append(q, e) = q \o <<e>>
    BY AppendIsConcat
  <1> QED BY <1>1, TalliedOne, TalliedJoin

-----------------------------------------------------------------------------
(* Streams, and the tallies of those that end.                              *)

Stream ==
    {s \in [id : Ids, call : Calls, source : Sources, port : Nat, left : Nat \cup {Forever},
            paused : BOOLEAN, sent : 0..MaxSent, failed : Nat] : s.failed <= s.sent}

Sounds(s) == s.source.generated /\ s.sent > 0
IdsOf(ss) == {s.id : s \in ss}
Sounding(ss) == {s.id : s \in {t \in ss : Sounds(t)}}

\* No two have an id, and no two of a call a tag.
Distinct(ss) ==
    \A s, t \in ss : s.id = t.id \/ (s.call = t.call /\ s.source.tag = t.source.tag) => s = t

LEMMA Bounds ==
    /\ MaxPlays \in Nat /\ MaxSent \in Nat /\ MaxBurst \in Nat /\ Base \in Nat /\ MaxRtpPort \in Nat
    /\ Calls \subseteq Nat /\ \A c \in Calls : c # 0
    /\ \A source \in Sources : /\ source.tag \in Tags /\ source.generated \in BOOLEAN
                               /\ source.packets \in Nat \cup {Forever}
  BY MediaAssumption DEF Tags

LEMMA StreamFields ==
    ASSUME NEW s \in Stream
    PROVE  /\ s.id \in Ids /\ s.call \in Calls /\ s.source \in Sources /\ s.port \in Nat
           /\ s.left \in Nat \cup {Forever} /\ s.paused \in BOOLEAN /\ s.sent \in 0..MaxSent
           /\ s.sent \in Nat /\ s.failed \in Nat /\ s.failed <= s.sent
           /\ s.source.generated \in BOOLEAN /\ s.source.tag \in Tags /\ s.call \in Nat
  <1>1. /\ s.id \in Ids /\ s.call \in Calls /\ s.source \in Sources /\ s.port \in Nat
        /\ s.left \in Nat \cup {Forever} /\ s.paused \in BOOLEAN /\ s.sent \in 0..MaxSent
        /\ s.failed \in Nat /\ s.failed <= s.sent
    BY DEF Stream
  <1>2. s.source.generated \in BOOLEAN /\ s.source.tag \in Tags /\ s.call \in Nat
    BY <1>1, Bounds
  <1>3. s.sent \in Nat
    BY <1>1, Bounds
  <1> QED BY <1>1, <1>2, <1>3

LEMMA EventIs ==
    ASSUME NEW s \in Stream, NEW is \in {"check", "finished", "failed", "other"}
    PROVE  /\ Event(is, s) \in Happened /\ Event(is, s).is = is /\ Event(is, s).call = s.call
           /\ Event(is, s).tag = s.source.tag /\ Event(is, s).sent = s.sent
  <1>1. s.call \in Nat /\ s.source.tag \in Tags /\ s.sent \in Nat /\ s.failed \in Nat
    BY StreamFields
  <1> QED BY <1>1 DEF Event, Happened

\* The elements of a set, each once.
LEMMA ElementsInOrder ==
    ASSUME NEW S, IsFiniteSet(S)
    PROVE  /\ SetToSeq(S) \in Seq(S) /\ DOMAIN SetToSeq(S) = 1..Len(SetToSeq(S))
           /\ \A i, j \in 1..Len(SetToSeq(S)) : SetToSeq(S)[i] = SetToSeq(S)[j] => i = j
           /\ \A x \in S : \E i \in 1..Len(SetToSeq(S)) : SetToSeq(S)[i] = x
  <1> DEFINE n == Cardinality(S)
             q == SetToSeq(S)
  <1>1. n \in Nat /\ ExistsBijection(1..n, S)
    BY FS_CardinalityType
  <1>2. PICK f : f \in Bijection(1..n, S)
    BY <1>1 DEF ExistsBijection
  <1>3. f \in [1..n -> S] /\ IsInjective(f)
    BY <1>2 DEF Bijection, Injection
  <1>4. q \in [1..n -> S] /\ IsInjective(q)
    BY <1>3 DEF SetToSeq
  <1> HIDE DEF q
  <1>5. q \in Injection(1..n, S)
    BY <1>4 DEF Injection
  <1>6. IsFiniteSet(1..n) /\ Cardinality(1..n) = n
    BY <1>1, FS_Interval
  <1>7. q \in Surjection(1..n, S)
    BY <1>5, <1>6, FS_Injection
  <1>8. q \in Seq(S) /\ Len(q) = n /\ DOMAIN q = 1..n
    BY <1>1, <1>4
  <1>9. \A i, j \in 1..n : q[i] = q[j] => i = j
    BY <1>4 DEF IsInjective
  <1>10. \A x \in S : \E i \in 1..n : q[i] = x
    BY <1>7 DEF Surjection
  <1> QED BY <1>8, <1>9, <1>10 DEF q

\* Each of the streams that end and sounded is tallied once.
LEMMA TalliesAre ==
    ASSUME NEW ended \in SUBSET Stream, IsFiniteSet(ended), Distinct(ended)
    PROVE  /\ TalliesOf(ended) \in Seq(Happened)
           /\ Tallied(TalliesOf(ended)) = Cardinality(Sounding(ended))
           /\ IsFiniteSet(Sounding(ended))
  <1> DEFINE generated == {s \in ended : s.source.generated}
             X == {Event("check", s) : s \in generated}
             q == TalliesOf(ended)
             I == Judgeables(q)
             Of(i) == CHOOSE s \in generated : Event("check", s) = q[i]
             f == [i \in I |-> Of(i).id]
  <1>1. IsFiniteSet(generated)
    BY FS_Subset
  <1>2. IsFiniteSet(X)
    <2> DEFINE g == [s \in generated |-> Event("check", s)]
    <2>1. g \in Surjection(generated, X)
      BY DEF Surjection
    <2> HIDE DEF g
    <2> QED BY <1>1, <2>1, FS_Surjection
  <1>3. X \subseteq Happened
    BY EventIs
  <1>4. q = SetToSeq(X)
    BY DEF TalliesOf
  <1>5. /\ q \in Seq(X) /\ \A i, j \in 1..Len(q) : q[i] = q[j] => i = j
        /\ \A x \in X : \E i \in 1..Len(q) : q[i] = x
    <2> HIDE DEF X, q
    <2> QED BY <1>2, <1>4, ElementsInOrder
  <1> HIDE DEF q
  <1>6. q \in Seq(Happened) /\ \A i \in 1..Len(q) : q[i] \in X
    BY <1>3, <1>5
  <1>7. ASSUME NEW i \in 1..Len(q)
        PROVE  Of(i) \in generated /\ Event("check", Of(i)) = q[i]
    BY <1>6
  <1> HIDE DEF X, Of
  <1>8. \A s, t \in generated : Event("check", s) = Event("check", t) => s = t
    <2> SUFFICES ASSUME NEW s \in generated, NEW t \in generated, Event("check", s) = Event("check", t)
                 PROVE  s = t
      OBVIOUS
    <2>1. s.call = t.call /\ s.source.tag = t.source.tag
      BY EventIs
    <2> QED BY <2>1 DEF Distinct
  <1>9. I \subseteq 1..Len(q) /\ \A i \in 1..Len(q) : i \in I <=> Sounds(Of(i))
    <2> SUFFICES ASSUME NEW i \in 1..Len(q) PROVE i \in I <=> Sounds(Of(i))
      BY DEF Judgeables
    <2>1. Of(i) \in generated /\ Event("check", Of(i)) = q[i] /\ Of(i) \in Stream
      BY <1>7
    <2>2. q[i].is = "check" /\ q[i].sent = Of(i).sent /\ Of(i).sent \in Nat
      BY <2>1, EventIs, StreamFields
    <2> QED BY <2>1, <2>2 DEF Judgeables, Judgeable, Sounds
  <1>10. f \in Bijection(I, Sounding(ended))
    <2>1. ASSUME NEW i \in I PROVE f[i] \in Sounding(ended)
      BY <1>7, <1>9 DEF Sounding
    <2>2. ASSUME NEW i \in I, NEW j \in I, f[i] = f[j] PROVE i = j
      <3>1. Of(i).id = Of(j).id /\ Of(i) \in ended /\ Of(j) \in ended
        BY <1>7, <1>9, <2>2
      <3>2. Of(i) = Of(j)
        BY <3>1 DEF Distinct
      <3>3. q[i] = q[j]
        BY <1>7, <1>9, <3>2
      <3> QED BY <1>5, <1>9, <3>3
    <2>3. ASSUME NEW id \in Sounding(ended) PROVE \E i \in I : f[i] = id
      <3>1. PICK s \in ended : Sounds(s) /\ s.id = id
        BY <2>3 DEF Sounding
      <3>2. s \in generated
        BY <3>1 DEF Sounds
      <3>3. PICK i \in 1..Len(q) : q[i] = Event("check", s)
        BY <1>5, <3>2 DEF X
      <3>4. Of(i) = s
        BY <1>7, <1>8, <3>2, <3>3
      <3>5. i \in I
        BY <1>9, <3>1, <3>4
      <3> QED BY <3>1, <3>4, <3>5
    <2> QED BY <2>1, <2>2, <2>3 DEF Bijection, Injection, Surjection, IsInjective
  <1>11. IsFiniteSet(I) /\ Tallied(q) = Cardinality(I)
    BY <1>6, JudgeablesAreFinite DEF Tallied
  <1>12. IsFiniteSet(Sounding(ended)) /\ Cardinality(Sounding(ended)) = Cardinality(I)
    BY <1>10, <1>11, FS_Bijection DEF ExistsBijection
  <1> QED BY <1>6, <1>11, <1>12 DEF q

-----------------------------------------------------------------------------
(* The commands on their way.                                               *)

PlayCommands == {Command("play", s.call, s.source.tag, FALSE, s) : s \in {t \in Stream : t.sent = 0}}
PauseCommands == [do : {"pause"}, call : Calls, tag : {"rtp-audio"}, paused : BOOLEAN, stream : {NoStream}]
StopCommands == [do : {"stop"}, call : Calls, tag : {All}, paused : {FALSE}, stream : {NoStream}]
ShutdownCommands == [do : {"shutdown"}, call : {0}, tag : {All}, paused : {FALSE}, stream : {NoStream}]
Commands == PlayCommands \cup PauseCommands \cup StopCommands \cup ShutdownCommands

LEMMA CommandIs ==
    ASSUME NEW cmd \in Commands
    PROVE  /\ cmd.do \in {"play", "pause", "stop", "shutdown"} /\ cmd.paused \in BOOLEAN
           /\ cmd.do = "play" => /\ cmd.stream \in Stream /\ cmd.stream.sent = 0
                                 /\ cmd.call = cmd.stream.call /\ cmd.call \in Calls
           /\ cmd.do = "stop" => cmd.tag = All /\ cmd.call \in Calls
           /\ cmd.do = "shutdown" => cmd.call = 0
  <1>1. CASE cmd \in PlayCommands
    <2>1. PICK s \in Stream : s.sent = 0 /\ cmd = Command("play", s.call, s.source.tag, FALSE, s)
      BY <1>1 DEF PlayCommands
    <2> QED BY <2>1, StreamFields DEF Command
  <1>2. CASE cmd \in PauseCommands
    BY <1>2 DEF PauseCommands
  <1>3. CASE cmd \in StopCommands
    BY <1>3 DEF StopCommands
  <1>4. CASE cmd \in ShutdownCommands
    BY <1>4 DEF ShutdownCommands
  <1> QED BY <1>1, <1>2, <1>3, <1>4 DEF Commands

\* The streams of the plays are numbered, each its own, and not taken.
Fresh(q, n, taken) ==
    /\ \A i \in 1..Len(q) : q[i].do = "play" => q[i].stream.id \in (1..n) \ taken
    /\ \A i, j \in 1..Len(q) : q[i].do = "play" /\ q[j].do = "play" /\ q[i].stream.id = q[j].stream.id => i = j

\* Whatever plays for a call has a stop behind it.
Halts(cmd, c) == cmd.do \in {"stop", "shutdown"} /\ cmd.call \in {0, c}
HaltedFrom(q, c, from) == \E i \in from..Len(q) : Halts(q[i], c)
Released(q, c, ss) ==
    /\ (\E s \in ss : s.call = c) => HaltedFrom(q, c, 1)
    /\ \A i \in 1..Len(q) : q[i].do = "play" /\ q[i].call = c => HaltedFrom(q, c, i + 1)

LEMMA Appended ==
    ASSUME NEW q \in Seq(Commands), NEW cmd \in Commands
    PROVE  /\ Append(q, cmd) \in Seq(Commands) /\ Len(q) \in Nat /\ Len(Append(q, cmd)) = Len(q) + 1
           /\ \A i \in 1..Len(q) : Append(q, cmd)[i] = q[i]
           /\ Append(q, cmd)[Len(q) + 1] = cmd
  BY AppendProperties

LEMMA FreshAppend ==
    ASSUME NEW q \in Seq(Commands), NEW cmd \in Commands, NEW n \in Nat, NEW taken, Fresh(q, n, taken),
           NEW m \in Nat, n <= m,
           cmd.do = "play" => cmd.stream.id \in ((n + 1)..m) \ taken
    PROVE  Fresh(Append(q, cmd), m, taken)
  <1> DEFINE r == Append(q, cmd)
  <1>1. /\ Len(q) \in Nat /\ Len(r) = Len(q) + 1 /\ \A i \in 1..Len(q) : r[i] = q[i]
        /\ r[Len(q) + 1] = cmd
    BY Appended
  <1> HIDE DEF r
  <1>2. ASSUME NEW i \in 1..Len(r) PROVE i \in 1..Len(q) \/ (i = Len(q) + 1 /\ r[i] = cmd)
    BY <1>1
  <1>3. ASSUME NEW i \in 1..Len(q), r[i].do = "play" PROVE r[i].stream.id \in (1..n) \ taken
    BY <1>1, <1>3 DEF Fresh
  <1>4. ASSUME NEW i \in 1..Len(r), r[i].do = "play" PROVE r[i].stream.id \in (1..m) \ taken
    <2>1. CASE i \in 1..Len(q)
      BY <1>3, <1>4, <2>1
    <2>2. CASE r[i] = cmd
      BY <1>4, <2>2
    <2> QED BY <1>2, <2>1, <2>2
  <1>5. ASSUME NEW i \in 1..Len(r), NEW j \in 1..Len(r), r[i].do = "play", r[j].do = "play",
               r[i].stream.id = r[j].stream.id
        PROVE  i = j
    <2>1. CASE i \in 1..Len(q) /\ j \in 1..Len(q)
      BY <1>1, <1>5, <2>1 DEF Fresh
    <2>2. CASE i \in 1..Len(q) /\ j = Len(q) + 1 /\ r[j] = cmd
      BY <1>3, <1>5, <2>2
    <2>3. CASE j \in 1..Len(q) /\ i = Len(q) + 1 /\ r[i] = cmd
      BY <1>3, <1>5, <2>3
    <2> QED BY <1>2, <2>1, <2>2, <2>3
  <1> QED BY <1>4, <1>5 DEF Fresh, r

LEMMA Shortened ==
    ASSUME NEW q \in Seq(Commands), q # <<>>
    PROVE  /\ Tail(q) \in Seq(Commands) /\ Head(q) \in Commands /\ Head(q) = q[1]
           /\ Len(q) \in Nat \ {0} /\ Len(Tail(q)) = Len(q) - 1
           /\ \A i \in 1..Len(Tail(q)) : Tail(q)[i] = q[i + 1]
  BY HeadTailProperties, LenProperties

LEMMA FreshTail ==
    ASSUME NEW q \in Seq(Commands), q # <<>>, NEW n, NEW taken, Fresh(q, n, taken)
    PROVE  /\ Fresh(Tail(q), n, taken)
           /\ Head(q).do = "play" => /\ Head(q).stream.id \in (1..n) \ taken
                                     /\ Fresh(Tail(q), n, taken \cup {Head(q).stream.id})
  <1> DEFINE r == Tail(q)
  <1>1. /\ Head(q) = q[1] /\ Len(q) \in Nat \ {0} /\ Len(r) = Len(q) - 1
        /\ \A i \in 1..Len(r) : r[i] = q[i + 1]
    BY Shortened
  <1> HIDE DEF r
  <1>2. ASSUME NEW i \in 1..Len(r) PROVE i + 1 \in 1..Len(q) /\ i + 1 # 1 /\ r[i] = q[i + 1]
    BY <1>1
  <1>3. 1 \in 1..Len(q)
    BY <1>1
  <1>4. ASSUME NEW i \in 1..Len(r), r[i].do = "play" PROVE r[i].stream.id \in (1..n) \ taken
    BY <1>2, <1>4 DEF Fresh
  <1>5. ASSUME NEW i \in 1..Len(r), NEW j \in 1..Len(r), r[i].do = "play", r[j].do = "play",
               r[i].stream.id = r[j].stream.id
        PROVE  i = j
    <2>1. i + 1 = j + 1
      BY <1>2, <1>5 DEF Fresh
    <2> QED BY <2>1
  <1>6. ASSUME Head(q).do = "play" PROVE Head(q).stream.id \in (1..n) \ taken
    BY <1>1, <1>3, <1>6 DEF Fresh
  <1>7. ASSUME Head(q).do = "play", NEW i \in 1..Len(r), r[i].do = "play"
        PROVE  r[i].stream.id # Head(q).stream.id
    BY <1>1, <1>2, <1>3, <1>7 DEF Fresh
  <1> QED BY <1>4, <1>5, <1>6, <1>7 DEF Fresh, r

LEMMA FreshFewer ==
    ASSUME NEW q, NEW n, NEW taken, Fresh(q, n, taken), NEW less, less \subseteq taken
    PROVE  Fresh(q, n, less)
  BY DEF Fresh

LEMMA ReleasedAppend ==
    ASSUME NEW q \in Seq(Commands), NEW cmd \in Commands, NEW c, NEW ss,
           Released(q, c, ss), ~(cmd.do = "play" /\ cmd.call = c)
    PROVE  Released(Append(q, cmd), c, ss)
  <1> DEFINE r == Append(q, cmd)
  <1>1. /\ Len(q) \in Nat /\ Len(r) = Len(q) + 1 /\ \A i \in 1..Len(q) : r[i] = q[i]
        /\ r[Len(q) + 1] = cmd
    BY Appended
  <1> HIDE DEF r
  <1>2. ASSUME NEW from \in Nat \ {0}, HaltedFrom(q, c, from) PROVE HaltedFrom(r, c, from)
    <2>1. PICK i \in from..Len(q) : Halts(q[i], c)
      BY <1>2 DEF HaltedFrom
    <2>2. i \in from..Len(r) /\ r[i] = q[i]
      BY <1>1
    <2> QED BY <2>1, <2>2 DEF HaltedFrom
  <1>3. ASSUME NEW i \in 1..Len(r), r[i].do = "play", r[i].call = c PROVE HaltedFrom(r, c, i + 1)
    <2>1. i \in 1..Len(q)
      BY <1>1, <1>3
    <2>2. HaltedFrom(q, c, i + 1)
      BY <1>1, <1>3, <2>1 DEF Released
    <2> QED BY <1>2, <2>1, <2>2
  <1>4. (\E s \in ss : s.call = c) => HaltedFrom(r, c, 1)
    BY <1>2 DEF Released
  <1> QED BY <1>3, <1>4 DEF Released, r

LEMMA StopReleases ==
    ASSUME NEW q \in Seq(Commands), NEW cmd \in Commands, NEW c, NEW ss, Halts(cmd, c)
    PROVE  Released(Append(q, cmd), c, ss)
  <1> DEFINE r == Append(q, cmd)
  <1>1. /\ Len(q) \in Nat /\ Len(r) = Len(q) + 1 /\ r[Len(q) + 1] = cmd
    BY Appended
  <1> HIDE DEF r
  <1>2. cmd.do # "play"
    BY DEF Halts
  <1>3. ASSUME NEW from \in 1..Len(r) PROVE HaltedFrom(r, c, from)
    <2>1. Len(q) + 1 \in from..Len(r)
      BY <1>1
    <2> QED BY <1>1, <2>1 DEF HaltedFrom
  <1>4. ASSUME NEW i \in 1..Len(r), r[i].do = "play" PROVE HaltedFrom(r, c, i + 1)
    <2>1. i + 1 \in 1..Len(r)
      BY <1>1, <1>2, <1>4
    <2> QED BY <1>3, <2>1
  <1>5. 1 \in 1..Len(r)
    BY <1>1
  <1> QED BY <1>3, <1>4, <1>5 DEF Released, r

LEMMA ReleasedTail ==
    ASSUME NEW q \in Seq(Commands), q # <<>>, NEW c, NEW ss, Released(q, c, ss), NEW left,
           (\E s \in left : s.call = c) => \/ (\E s \in ss : s.call = c) /\ ~Halts(Head(q), c)
                                           \/ Head(q).do = "play" /\ Head(q).call = c
    PROVE  Released(Tail(q), c, left)
  <1> DEFINE r == Tail(q)
  <1>1. /\ Head(q) = q[1] /\ Len(q) \in Nat \ {0} /\ Len(r) = Len(q) - 1
        /\ \A i \in 1..Len(r) : r[i] = q[i + 1]
    BY Shortened
  <1> HIDE DEF r
  <1>2. ASSUME NEW from \in Nat \ {0}, HaltedFrom(q, c, from + 1) PROVE HaltedFrom(r, c, from)
    <2>1. PICK i \in from + 1..Len(q) : Halts(q[i], c)
      BY <1>2 DEF HaltedFrom
    <2>2. i - 1 \in from..Len(r) /\ i - 1 \in 1..Len(r) /\ (i - 1) + 1 = i
      BY <1>1
    <2>3. r[i - 1] = q[i]
      BY <1>1, <2>2
    <2> QED BY <2>1, <2>2, <2>3 DEF HaltedFrom
  <1>3. ASSUME NEW i \in 1..Len(r), r[i].do = "play", r[i].call = c PROVE HaltedFrom(r, c, i + 1)
    <2>1. i + 1 \in 1..Len(q) /\ r[i] = q[i + 1] /\ i + 1 \in Nat \ {0}
      BY <1>1
    <2>2. HaltedFrom(q, c, (i + 1) + 1)
      BY <1>3, <2>1 DEF Released
    <2> QED BY <1>2, <2>1, <2>2
  <1>4. ASSUME \E s \in left : s.call = c PROVE HaltedFrom(r, c, 1)
    <2>1. CASE (\E s \in ss : s.call = c) /\ ~Halts(q[1], c)
      <3>1. PICK i \in 1..Len(q) : Halts(q[i], c)
        BY <2>1 DEF Released, HaltedFrom
      <3>2. i \in 1 + 1..Len(q)
        BY <1>1, <2>1, <3>1
      <3>3. HaltedFrom(q, c, 1 + 1)
        BY <3>1, <3>2 DEF HaltedFrom
      <3> QED BY <1>2, <3>3
    <2>2. CASE q[1].do = "play" /\ q[1].call = c
      <3>1. HaltedFrom(q, c, 1 + 1)
        BY <1>1, <2>2 DEF Released
      <3> QED BY <1>2, <3>1
    <2> QED BY <1>1, <1>4, <2>1, <2>2
  <1> QED BY <1>3, <1>4 DEF Released, r

-----------------------------------------------------------------------------
(* The inductive invariant.                                                 *)

CallSet == [Calls -> [is : {"new", "live", "ended"}, port : [Kinds -> Nat]]]
Stats == [started : 0..MaxPlays, ok : Nat, failed : Nat]

Typed ==
    /\ calls \in CallSet /\ nextPort \in Nat
    /\ thread \in {"receiving", "pumping", "ended"}
    /\ phase \in {"running", "joining", "collecting", "reported"} /\ quiet \in 0..3
    /\ stats \in Stats
    /\ streams \in SUBSET Stream /\ IsFiniteSet(streams)
    /\ queue \in Seq(Commands) /\ reports \in Seq(Happened) /\ events \in Seq(Happened)
    /\ due \subseteq Ids /\ round \subseteq due /\ audible \subseteq 1..stats.started

Phased ==
    /\ thread # "pumping" => round = {}
    /\ thread = "ended" => streams = {}
    /\ phase \in {"collecting", "reported"} => thread = "ended"
    /\ phase = "reported" => events = <<>>

\* The streams in flight are distinct, were started, are scheduled, and are audible when they sent.
Known(ss, n, heard) ==
    Distinct(ss) /\ \A s \in ss : s.id \in 1..n /\ (s.id \in heard <=> Sounds(s))
Scheduled(ss, ids) == \A s \in ss : s.id \in ids

NoEchoes(c) == \A e \in DOMAIN echoes : e[1] # c
Held ==
    \A c \in Calls : calls[c].is = "ended" => NoEchoes(c) /\ Released(queue, c, streams)

\* What was heard is judged, waits to be judged, before or behind the bridge, or is still in flight.
Waiting == Tallied(reports) + Tallied(events)
Balanced == stats.ok + stats.failed + Waiting = Cardinality(audible \ IdsOf(streams))

Inv ==
    /\ Typed /\ Phased
    /\ Known(streams, stats.started, audible) /\ Scheduled(streams, due)
    /\ Fresh(queue, stats.started, audible \cup IdsOf(streams))
    /\ Held /\ Balanced

LEMMA InitHolds == Init => Inv
  <1> SUFFICES ASSUME Init PROVE Inv
    OBVIOUS
  <1>1. /\ Base \in Nat /\ 0 \in 0..MaxPlays /\ IsFiniteSet({}) /\ Cardinality({}) = 0
        /\ 0 \in 0..3
    BY Bounds, FS_EmptySet
  <1>2. calls \in CallSet
    BY DEF Init, CallSet, Free
  <1>3. stats \in Stats /\ stats.ok = 0 /\ stats.failed = 0 /\ stats.started = 0
    BY <1>1 DEF Init, Stats
  <1>4. queue \in Seq(Commands) /\ reports \in Seq(Happened) /\ events \in Seq(Happened) /\ Len(queue) = 0
    BY DEF Init
  <1>5. Typed
    BY <1>1, <1>2, <1>3, <1>4 DEF Init, Typed
  <1>6. Phased
    BY DEF Init, Phased
  <1>7. Known(streams, stats.started, audible) /\ Scheduled(streams, due)
    BY DEF Init, Known, Scheduled, Distinct
  <1>8. Fresh(queue, stats.started, audible \cup IdsOf(streams))
    BY <1>4 DEF Fresh
  <1>9. Held
    <2>1. \A c \in Calls : calls[c].is = "new"
      BY DEF Init
    <2> QED BY <2>1 DEF Held
  <1>10. Balanced
    <2>1. audible \ IdsOf(streams) = {}
      BY DEF Init
    <2>2. Waiting = 0
      BY TalliedNone DEF Init, Waiting
    <2> QED BY <1>1, <1>3, <2>1, <2>2 DEF Balanced
  <1> QED BY <1>5, <1>6, <1>7, <1>8, <1>9, <1>10 DEF Inv

\* What the invariant says of the history.
LEMMA AudibleIsFinite ==
    ASSUME Typed
    PROVE  IsFiniteSet(audible) /\ IsFiniteSet(audible \ IdsOf(streams)) /\ stats.started \in Nat
  <1>1. stats.started \in Nat
    BY Bounds DEF Typed, Stats
  <1>2. IsFiniteSet(1..stats.started)
    BY <1>1, FS_Interval
  <1>3. IsFiniteSet(audible)
    BY <1>2, FS_Subset DEF Typed
  <1>4. IsFiniteSet(audible \ IdsOf(streams))
    BY <1>3, FS_Subset
  <1> QED BY <1>1, <1>3, <1>4

-----------------------------------------------------------------------------
(* The engine's steps.                                                      *)

\* A step that only moves calls, ports and echoes.
LEMMA EngineOnly ==
    ASSUME Inv, calls' \in CallSet, nextPort' \in Nat,
           UNCHANGED <<stats, endVars, threadVars, queue, channels>>,
           \A c \in Calls : calls'[c].is = "ended" => calls[c].is = "ended" /\ NoEchoes(c)'
    PROVE  Inv'
  <1>1. Typed'
    BY DEF Inv, Typed, endVars, threadVars, channels, Ids
  <1>2. Phased'
    BY DEF Inv, Phased, endVars, threadVars, channels
  <1>3. Known(streams, stats.started, audible)' /\ Scheduled(streams, due)'
    BY DEF Inv, Known, Scheduled, Distinct, Sounds, threadVars
  <1>4. Fresh(queue, stats.started, audible \cup IdsOf(streams))'
    BY DEF Inv, Fresh, IdsOf, threadVars
  <1>5. Held'
    BY DEF Inv, Held, Released, HaltedFrom, Halts, threadVars
  <1>6. Balanced'
    BY DEF Inv, Balanced, Waiting, Tallied, Judgeables, Judgeable, IdsOf, threadVars, channels
  <1> QED BY <1>1, <1>2, <1>3, <1>4, <1>5, <1>6 DEF Inv

LEMMA CallFields ==
    ASSUME Typed, NEW c \in Calls
    PROVE  /\ calls[c] \in [is : {"new", "live", "ended"}, port : [Kinds -> Nat]]
           /\ calls[c].is \in {"new", "live", "ended"} /\ calls[c].port \in [Kinds -> Nat]
           /\ \A k \in Kinds : calls[c].port[k] \in Nat
  <1>1. calls[c] \in [is : {"new", "live", "ended"}, port : [Kinds -> Nat]]
    BY DEF Typed, CallSet
  <1> QED BY <1>1

LEMMA OpenCallKeeps == ASSUME Inv, NEW c \in Calls, OpenCall(c) PROVE Inv'
  <1>1. calls' \in CallSet
    BY CallFields DEF OpenCall, Inv, Typed, CallSet
  <1>2. nextPort' \in Nat
    BY DEF OpenCall, Inv, Typed
  <1>3. ASSUME NEW d \in Calls, calls'[d].is = "ended" PROVE calls[d].is = "ended" /\ NoEchoes(d)'
    <2>1. calls[d].is = "ended"
      BY <1>3 DEF OpenCall, Inv, Typed, CallSet
    <2>2. NoEchoes(d)
      BY <2>1 DEF Inv, Held
    <2> QED BY <2>1, <2>2 DEF OpenCall, NoEchoes
  <1>4. UNCHANGED <<stats, endVars, threadVars, queue, channels>>
    BY DEF OpenCall
  <1> QED BY <1>1, <1>2, <1>3, <1>4, EngineOnly

LEMMA RenderPortKeeps == ASSUME Inv, NEW c \in Calls, NEW k \in Kinds, RenderPort(c, k) PROVE Inv'
  <1>1. nextPort' \in Nat
    BY Bounds DEF RenderPort, PortAfter, Inv, Typed
  <1>2. /\ calls' = [calls EXCEPT ![c].port[k] = nextPort] /\ echoes' = echoes /\ nextPort \in Nat
        /\ calls \in CallSet
    BY DEF RenderPort, Inv, Typed
  <1>3. calls' \in CallSet
    <2> DEFINE w == [calls[c].port EXCEPT ![k] = nextPort]
               v == [calls[c] EXCEPT !.port = w]
    <2>1. calls[c].port \in [Kinds -> Nat] /\ calls[c] \in [is : {"new", "live", "ended"}, port : [Kinds -> Nat]]
      BY CallFields DEF Inv
    <2>2. w \in [Kinds -> Nat]
      BY <1>2, <2>1
    <2> HIDE DEF w
    <2>3. v \in [is : {"new", "live", "ended"}, port : [Kinds -> Nat]]
      BY <2>1, <2>2
    <2>4. calls' = [calls EXCEPT ![c] = v]
      BY <1>2 DEF w
    <2> HIDE DEF v
    <2> QED BY <1>2, <2>3, <2>4 DEF CallSet
  <1>4. ASSUME NEW d \in Calls, calls'[d].is = "ended" PROVE calls[d].is = "ended" /\ NoEchoes(d)'
    <2>1. calls[d].is = "ended"
      BY <1>2, <1>4 DEF CallSet
    <2>2. NoEchoes(d)
      BY <2>1 DEF Inv, Held
    <2> QED BY <1>2, <2>1, <2>2 DEF NoEchoes
  <1>5. UNCHANGED <<stats, endVars, threadVars, queue, channels>>
    BY DEF RenderPort
  <1> QED BY <1>1, <1>3, <1>4, <1>5, EngineOnly

\* The echoes of the other calls come from those that ran.
LEMMA EchoesKeep ==
    ASSUME Inv, NEW c \in Calls, Live(c), UNCHANGED <<calls, nextPort, stats, endVars, threadVars, queue, channels>>,
           \A e \in DOMAIN echoes' : e \in DOMAIN echoes \/ e[1] = c
    PROVE  Inv'
  <1>1. calls' \in CallSet /\ nextPort' \in Nat
    BY DEF Inv, Typed
  <1>2. ASSUME NEW d \in Calls, calls'[d].is = "ended" PROVE calls[d].is = "ended" /\ NoEchoes(d)'
    <2>1. calls[d].is = "ended" /\ d # c
      BY <1>2 DEF Live
    <2>2. NoEchoes(d)
      BY <2>1 DEF Inv, Held
    <2> QED BY <2>1, <2>2 DEF NoEchoes
  <1> QED BY <1>1, <1>2, EngineOnly

LEMMA EchoStartsKeeps == ASSUME Inv, NEW c \in Calls, NEW k \in Kinds, EchoStarts(c, k) PROVE Inv'
  <1>1. \A e \in DOMAIN echoes' : e \in DOMAIN echoes \/ e[1] = c
    BY DEF EchoStarts, Restrict
  <1> QED BY <1>1, EchoesKeep DEF EchoStarts

LEMMA EchoStopsKeeps == ASSUME Inv, NEW c \in Calls, NEW k \in Kinds, EchoStops(c, k) PROVE Inv'
  <1>1. \A e \in DOMAIN echoes' : e \in DOMAIN echoes \/ e[1] = c
    BY DEF EchoStops, Restrict
  <1> QED BY <1>1, EchoesKeep DEF EchoStops

\* A step that appends a command that is no play.
LEMMA SendKeeps ==
    ASSUME Inv, NEW cmd \in Commands, cmd.do # "play", queue' = Append(queue, cmd),
           calls' \in CallSet, nextPort' = nextPort, quiet' = quiet,
           phase' \in {"running", "joining"},
           UNCHANGED <<stats, threadVars, channels>>,
           \A c \in Calls : calls'[c].is = "ended" =>
               NoEchoes(c)' /\ (calls[c].is = "ended" \/ Halts(cmd, c))
    PROVE  Inv'
  <1>1. queue' \in Seq(Commands)
    BY Appended DEF Inv, Typed
  <1>2. Typed'
    BY <1>1 DEF Inv, Typed, threadVars, channels, Ids
  <1>3. Phased'
    BY DEF Inv, Phased, threadVars, channels
  <1>4. Known(streams, stats.started, audible)' /\ Scheduled(streams, due)'
    BY DEF Inv, Known, Scheduled, Distinct, Sounds, threadVars
  <1>5. Fresh(queue', stats.started, audible \cup IdsOf(streams))
    <2>1. stats.started \in Nat /\ queue \in Seq(Commands)
      BY AudibleIsFinite DEF Inv, Typed
    <2> QED BY <2>1, FreshAppend DEF Inv
  <1>6. Fresh(queue, stats.started, audible \cup IdsOf(streams))'
    BY <1>5 DEF Fresh, IdsOf, threadVars
  <1>7. ASSUME NEW c \in Calls, calls'[c].is = "ended" PROVE NoEchoes(c)' /\ Released(queue', c, streams)
    <2>1. queue \in Seq(Commands)
      BY DEF Inv, Typed
    <2>2. CASE calls[c].is = "ended"
      BY <1>7, <2>1, <2>2, ReleasedAppend DEF Inv, Held
    <2>3. CASE Halts(cmd, c)
      BY <1>7, <2>1, <2>3, StopReleases
    <2> QED BY <1>7, <2>2, <2>3
  <1>8. Held'
    BY <1>7 DEF Held, Released, HaltedFrom, Halts, threadVars
  <1>9. Balanced'
    BY DEF Inv, Balanced, Waiting, Tallied, Judgeables, Judgeable, IdsOf, threadVars, channels
  <1> QED BY <1>2, <1>3, <1>4, <1>6, <1>8, <1>9 DEF Inv

LEMMA PauseRtpKeeps ==
    ASSUME Inv, NEW c \in Calls, NEW b \in BOOLEAN, PauseRtp(c, "rtp-audio", b)
    PROVE  Inv'
  <1> DEFINE cmd == Command("pause", c, "rtp-audio", b, NoStream)
  <1>1. cmd \in Commands /\ cmd.do # "play"
    BY DEF Commands, PauseCommands, Command
  <1>2. queue' = Append(queue, cmd)
    BY DEF PauseRtp, Sends
  <1> HIDE DEF cmd
  <1>3. /\ calls' \in CallSet /\ nextPort' = nextPort /\ quiet' = quiet /\ phase' \in {"running", "joining"}
        /\ UNCHANGED <<stats, threadVars, channels>> /\ calls' = calls /\ echoes' = echoes
    BY DEF PauseRtp, engineVars, endVars, Inv, Typed, Live
  <1>4. ASSUME NEW d \in Calls, calls'[d].is = "ended" PROVE NoEchoes(d)' /\ calls[d].is = "ended"
    BY <1>3, <1>4 DEF Inv, Held, NoEchoes
  <1> QED BY <1>1, <1>2, <1>3, <1>4, SendKeeps

LEMMA EndCallKeeps == ASSUME Inv, NEW c \in Calls, EndCall(c) PROVE Inv'
  <1> DEFINE cmd == Command("stop", c, All, FALSE, NoStream)
  <1>1. cmd \in Commands /\ cmd.do # "play" /\ Halts(cmd, c)
    BY DEF Commands, StopCommands, Command, Halts
  <1>2. queue' = Append(queue, cmd)
    BY DEF EndCall
  <1> HIDE DEF cmd
  <1>3. /\ nextPort' = nextPort /\ quiet' = quiet /\ phase' \in {"running", "joining"}
        /\ UNCHANGED <<stats, threadVars, channels>>
        /\ calls' = [calls EXCEPT ![c].is = "ended"] /\ calls \in CallSet /\ echoes' = EchoesWithout(c)
    BY DEF EndCall, endVars, Inv, Typed, Live
  <1>4. calls' \in CallSet
    BY <1>3, CallFields DEF Inv, CallSet
  <1>5. ASSUME NEW d \in Calls, calls'[d].is = "ended"
        PROVE  NoEchoes(d)' /\ (calls[d].is = "ended" \/ Halts(cmd, d))
    <2>1. \A e \in DOMAIN echoes' : e \in DOMAIN echoes /\ e[1] # c
      BY <1>3 DEF EchoesWithout, Restrict
    <2>2. CASE d = c
      BY <1>1, <2>1, <2>2 DEF NoEchoes
    <2>3. CASE d # c
      <3>1. calls[d].is = "ended"
        BY <1>3, <1>5, <2>3 DEF CallSet
      <3>2. NoEchoes(d)
        BY <3>1 DEF Inv, Held
      <3> QED BY <2>1, <3>1, <3>2 DEF NoEchoes
    <2> QED BY <2>2, <2>3
  <1> QED BY <1>1, <1>2, <1>3, <1>4, <1>5, SendKeeps

LEMMA DropPlayerKeeps == ASSUME Inv, DropPlayer PROVE Inv'
  <1> DEFINE cmd == Command("shutdown", 0, All, FALSE, NoStream)
  <1>1. cmd \in Commands /\ cmd.do # "play"
    BY DEF Commands, ShutdownCommands, Command
  <1>2. queue' = Append(queue, cmd)
    BY DEF DropPlayer, Dismissed
  <1> HIDE DEF cmd
  <1>3. /\ calls' \in CallSet /\ nextPort' = nextPort /\ quiet' = quiet /\ phase' \in {"running", "joining"}
        /\ UNCHANGED <<stats, threadVars, channels>> /\ calls' = calls /\ echoes' = echoes
    BY DEF DropPlayer, engineVars, Inv, Typed
  <1>4. ASSUME NEW d \in Calls, calls'[d].is = "ended" PROVE NoEchoes(d)' /\ calls[d].is = "ended"
    BY <1>3, <1>4 DEF Inv, Held, NoEchoes
  <1> QED BY <1>1, <1>2, <1>3, <1>4, SendKeeps

LEMMA NewStreamIs ==
    ASSUME Inv, NEW c \in Calls, NEW source \in Sources, stats.started < MaxPlays
    PROVE  LET s == NewStream(c, source)
           IN  s \in Stream /\ s.id = stats.started + 1 /\ s.call = c /\ s.source = source /\ s.sent = 0
  <1> DEFINE s == NewStream(c, source)
             port == LocalPort(c, source)
  <1>1. MediaPort(c) \in Nat
    <2>1. c \in Nat \ {0} /\ Base \in Nat
      BY Bounds
    <2>2. 4 * (c - 1) \in Nat /\ (4 * (c - 1)) % 10000 \in Nat
      BY <2>1
    <2> QED BY <2>1, <2>2 DEF MediaPort, MediaPortValue, MaxPort
  <1>2. port \in Nat
    BY <1>1, CallFields DEF LocalPort, AllocatedPort, Inv
  <1> HIDE DEF port
  <1>3. s = [id |-> stats.started + 1, call |-> c, source |-> source, port |-> port, left |-> source.packets,
             paused |-> FALSE, sent |-> 0, failed |-> 0]
    <2> DEFINE n == stats.started + 1
               packets == source.packets
    <2>1. s = [NoStream EXCEPT !.id = n, !.call = c, !.source = source, !.port = port, !.left = packets]
      BY DEF NewStream, port
    <2> HIDE DEF n, packets, s
    <2>2. s = [id |-> n, call |-> c, source |-> source, port |-> port, left |-> packets,
               paused |-> FALSE, sent |-> 0, failed |-> 0]
      BY <2>1 DEF NoStream
    <2> QED BY <2>2 DEF n, packets
  <1>4. stats.started + 1 \in Ids /\ source.packets \in Nat \cup {Forever} /\ 0 \in 0..MaxSent
    BY Bounds DEF Inv, Typed, Stats, Ids
  <1>5. s \in Stream
    BY <1>2, <1>3, <1>4 DEF Stream
  <1> QED BY <1>3, <1>5

LEMMA PlayKeeps == ASSUME Inv, NEW c \in Calls, NEW source \in Sources, Play(c, source) PROVE Inv'
  <1> DEFINE s == NewStream(c, source)
             cmd == Command("play", c, source.tag, FALSE, s)
             n == stats.started
  <1>1. n < MaxPlays /\ Live(c) /\ queue' = Append(queue, cmd) /\ stats' = [stats EXCEPT !.started = @ + 1]
        /\ UNCHANGED <<calls, nextPort, echoes, endVars, threadVars, channels>>
    BY DEF Play, Sends
  <1>2. s \in Stream /\ s.id = n + 1 /\ s.call = c /\ s.source = source /\ s.sent = 0
    BY <1>1, NewStreamIs
  <1> HIDE DEF s
  <1>3. cmd \in Commands /\ cmd.do = "play" /\ cmd.call = c /\ cmd.stream = s
    BY <1>2 DEF Commands, PlayCommands, Command
  <1> HIDE DEF cmd
  <1>4. n \in Nat /\ stats \in Stats /\ queue \in Seq(Commands) /\ audible \subseteq 1..n
    BY AudibleIsFinite DEF Inv, Typed
  <1>5. /\ stats' \in Stats /\ stats'.started = n + 1 /\ stats'.ok = stats.ok
        /\ stats'.failed = stats.failed
    <2> DEFINE m == n + 1
    <2>1. m \in 0..MaxPlays
      BY <1>1, <1>4, Bounds
    <2>2. stats' = [stats EXCEPT !.started = m]
      BY <1>1
    <2> HIDE DEF m
    <2>3. stats' \in Stats /\ stats'.started = m /\ stats'.ok = stats.ok /\ stats'.failed = stats.failed
      BY <1>4, <2>1, <2>2 DEF Stats
    <2> QED BY <2>3 DEF m
  <1>6. 1..n \subseteq 1..n + 1
    BY <1>4
  <1>7. queue' \in Seq(Commands)
    BY <1>1, <1>3, <1>4, Appended
  <1>8. Typed'
    <2>1. audible \subseteq 1..stats'.started
      BY <1>4, <1>5, <1>6
    <2> QED BY <1>1, <1>5, <1>7, <2>1 DEF Inv, Typed, endVars, threadVars, channels, Ids
  <1>9. Phased'
    BY <1>1 DEF Inv, Phased, endVars, threadVars, channels
  <1>10. Known(streams, n + 1, audible)
    BY <1>6 DEF Inv, Known
  <1>11. (Known(streams, stats.started, audible) /\ Scheduled(streams, due))'
    BY <1>1, <1>5, <1>10 DEF Inv, Known, Scheduled, Distinct, Sounds, threadVars
  <1>12. Fresh(queue', n + 1, audible \cup IdsOf(streams))
    <2>1. n + 1 \notin audible \cup IdsOf(streams)
      <3>1. IdsOf(streams) \subseteq 1..n
        BY DEF Inv, Known, IdsOf
      <3> QED BY <1>4, <3>1
    <2>2. cmd.stream.id \in ((n + 1)..(n + 1)) \ (audible \cup IdsOf(streams))
      BY <1>2, <1>3, <1>4, <2>1
    <2>3. Fresh(queue, n, audible \cup IdsOf(streams)) /\ n + 1 \in Nat /\ n <= n + 1
      BY <1>4 DEF Inv
    <2> HIDE DEF n
    <2> QED BY <1>1, <1>3, <1>4, <2>2, <2>3, FreshAppend
  <1>13. Fresh(queue, stats.started, audible \cup IdsOf(streams))'
    BY <1>1, <1>5, <1>12 DEF Fresh, IdsOf, threadVars
  <1>14. Held'
    <2>1. ASSUME NEW d \in Calls, calls[d].is = "ended" PROVE NoEchoes(d)' /\ Released(queue', d, streams)
      <3>1. d # c
        BY <1>1, <2>1 DEF Live
      <3>2. NoEchoes(d) /\ Released(queue, d, streams)
        BY <2>1 DEF Inv, Held
      <3>3. Released(queue', d, streams)
        BY <1>1, <1>3, <1>4, <3>1, <3>2, ReleasedAppend
      <3> QED BY <1>1, <3>2, <3>3 DEF NoEchoes
    <2> QED BY <1>1, <2>1 DEF Held, Released, HaltedFrom, Halts, threadVars
  <1>15. Balanced'
    BY <1>1, <1>5 DEF Inv, Balanced, Waiting, Tallied, Judgeables, Judgeable, IdsOf, threadVars, channels
  <1> QED BY <1>8, <1>9, <1>11, <1>13, <1>14, <1>15 DEF Inv

\* A step that only moves an event, judges the oldest, or brings one that is not judged.
LEMMA EventsOnly ==
    ASSUME Inv, UNCHANGED <<calls, nextPort, echoes, threadVars, queue>>, quiet' \in 0..3, stats' \in Stats,
           stats'.started = stats.started, reports' \in Seq(Happened), events' \in Seq(Happened),
           stats'.ok + stats'.failed + Waiting' = stats.ok + stats.failed + Waiting,
           phase' \in {"running", "joining", "collecting", "reported"},
           phase' \in {"collecting", "reported"} => thread = "ended",
           phase' = "reported" => events' = <<>>
    PROVE  Inv'
  <1>1. Typed'
    BY DEF Inv, Typed, threadVars, Ids
  <1>2. Phased'
    BY DEF Inv, Phased, threadVars
  <1>3. (Known(streams, stats.started, audible) /\ Scheduled(streams, due))'
    BY DEF Inv, Known, Scheduled, Distinct, Sounds, threadVars
  <1>4. Fresh(queue, stats.started, audible \cup IdsOf(streams))'
    BY DEF Inv, Fresh, IdsOf, threadVars
  <1>5. Held'
    BY DEF Inv, Held, NoEchoes, Released, HaltedFrom, Halts, threadVars
  <1>6. Balanced'
    <2>1. stats'.ok + stats'.failed + Waiting' = Cardinality(audible \ IdsOf(streams))
      BY DEF Inv, Balanced
    <2> QED BY <2>1 DEF Balanced, IdsOf, threadVars
  <1> QED BY <1>1, <1>2, <1>3, <1>4, <1>5, <1>6 DEF Inv

LEMMA JudgedIs ==
    ASSUME stats \in Stats, NEW e \in Happened
    PROVE  /\ Judged(e) \in Stats /\ Judged(e).started = stats.started
           /\ Judged(e).ok + Judged(e).failed = stats.ok + stats.failed + (IF Judgeable(e) THEN 1 ELSE 0)
  <1>1. stats.ok \in Nat /\ stats.failed \in Nat
    BY DEF Stats
  <1>2. CASE ~Judgeable(e)
    <2>1. Judged(e) = stats
      BY <1>2 DEF Judged, Judgeable
    <2> QED BY <1>1, <1>2, <2>1
  <1>3. CASE Judgeable(e)
    <2>1. \/ Judged(e) = [stats EXCEPT !.failed = @ + 1]
          \/ Judged(e) = [stats EXCEPT !.ok = @ + 1]
      BY <1>3 DEF Judged, Judgeable
    <2>2. CASE Judged(e) = [stats EXCEPT !.failed = @ + 1]
      <3>1. Judged(e) \in Stats /\ Judged(e).started = stats.started
            /\ Judged(e).failed = stats.failed + 1 /\ Judged(e).ok = stats.ok
        BY <2>2 DEF Stats
      <3> QED BY <1>1, <1>3, <3>1
    <2>3. CASE Judged(e) = [stats EXCEPT !.ok = @ + 1]
      <3>1. Judged(e) \in Stats /\ Judged(e).started = stats.started
            /\ Judged(e).ok = stats.ok + 1 /\ Judged(e).failed = stats.failed
        BY <2>3 DEF Stats
      <3> QED BY <1>1, <1>3, <3>1
    <2> QED BY <2>1, <2>2, <2>3
  <1> QED BY <1>2, <1>3

\* The oldest event is judged, or is none to judge.
LEMMA JudgedHead ==
    ASSUME Inv, events # <<>>, stats' = Judged(Head(events)), events' = Tail(events), reports' = reports
    PROVE  /\ stats' \in Stats /\ stats'.started = stats.started
           /\ reports' \in Seq(Happened) /\ events' \in Seq(Happened)
           /\ stats'.ok + stats'.failed + Waiting' = stats.ok + stats.failed + Waiting
  <1> DEFINE e == Head(events)
             one == IF Judgeable(e) THEN 1 ELSE 0
  <1>1. reports \in Seq(Happened) /\ events \in Seq(Happened) /\ stats \in Stats
    BY DEF Inv, Typed
  <1>2. e \in Happened /\ Tail(events) \in Seq(Happened) /\ Tallied(events) = Tallied(Tail(events)) + one
    BY <1>1, TalliedHead
  <1>3. Judged(e) \in Stats /\ Judged(e).started = stats.started
        /\ Judged(e).ok + Judged(e).failed = stats.ok + stats.failed + one
    BY <1>1, <1>2, JudgedIs
  <1>4. Tallied(Tail(events)) \in Nat /\ Tallied(reports) \in Nat
    BY <1>1, <1>2, JudgeablesAreFinite
  <1>5. one \in Nat
    OBVIOUS
  <1>6. stats.ok \in Nat /\ stats.failed \in Nat /\ stats'.ok \in Nat /\ stats'.failed \in Nat
    BY <1>1, <1>3 DEF Stats
  <1> HIDE DEF one
  <1>7. stats'.ok + stats'.failed = stats.ok + stats.failed + one
    BY <1>3
  <1>8. Waiting' = Tallied(reports) + Tallied(Tail(events))
    BY DEF Waiting, Tallied, Judgeables, Judgeable
  <1> QED BY <1>1, <1>2, <1>3, <1>4, <1>5, <1>6, <1>7, <1>8 DEF Waiting

LEMMA TakeEventKeeps == ASSUME Inv, TakeEvent PROVE Inv'
  <1>1. events # <<>> /\ stats' = Judged(Head(events)) /\ events' = Tail(events) /\ reports' = reports
    BY DEF TakeEvent
  <1>2. UNCHANGED <<calls, nextPort, echoes, threadVars, queue>> /\ phase' = "running" /\ quiet' \in 0..3
    BY DEF TakeEvent, endVars, Inv, Typed
  <1> QED BY <1>1, <1>2, JudgedHead, EventsOnly

LEMMA CollectKeeps == ASSUME Inv, Collect PROVE Inv'
  <1>1. events # <<>> /\ stats' = Judged(Head(events)) /\ events' = Tail(events) /\ reports' = reports
    BY DEF Collect, Collects, Judged, Judgeable
  <1>2. UNCHANGED <<calls, nextPort, echoes, threadVars, queue>> /\ phase' = "collecting" /\ thread = "ended"
    BY DEF Collect, Inv, Phased
  <1>3. quiet' \in 0..3
    BY DEF Collect, Inv, Typed
  <1> QED BY <1>1, <1>2, <1>3, JudgedHead, EventsOnly

LEMMA EndStepsKeep == ASSUME Inv, Join \/ QuietRound \/ OtherArrives PROVE Inv'
  <1>1. stats \in Stats /\ reports \in Seq(Happened) /\ events \in Seq(Happened) /\ quiet \in 0..3
    BY DEF Inv, Typed
  <1>2. CASE Join
    <2>1. UNCHANGED <<calls, nextPort, echoes, threadVars, queue>> /\ phase' = "collecting" /\ thread = "ended"
          /\ quiet' = quiet /\ stats' = stats /\ reports' = reports /\ events' = events
      BY <1>2 DEF Join, engineVars, channels
    <2>2. Waiting' = Waiting
      BY <2>1 DEF Waiting, Tallied, Judgeables, Judgeable
    <2> QED BY <1>1, <2>1, <2>2, EventsOnly
  <1>3. CASE QuietRound
    <2>1. quiet' \in 0..3 /\ phase' \in {"collecting", "reported"} /\ reports' = reports /\ events' = events
          /\ events = <<>> /\ thread = "ended" /\ stats' = stats
          /\ UNCHANGED <<calls, nextPort, echoes, threadVars, queue>>
      BY <1>1, <1>3 DEF QuietRound, engineVars, channels, Inv, Phased
    <2>2. Waiting' = Waiting
      BY <2>1 DEF Waiting, Tallied, Judgeables, Judgeable
    <2> QED BY <1>1, <2>1, <2>2, EventsOnly
  <1>4. CASE OtherArrives
    <2> DEFINE e == Event("other", NoStream)
    <2>1. e \in Happened /\ ~Judgeable(e)
      BY DEF Event, NoStream, NoSource, Happened, Tags, Judgeable
    <2>2. events' = Append(events, e) /\ reports' = reports
      BY <1>4 DEF OtherArrives
    <2> HIDE DEF e
    <2>3. events' \in Seq(Happened) /\ Waiting' = Waiting
      <3>1. Tallied(events) \in Nat
        BY <1>1, JudgeablesAreFinite
      <3>2. Append(events, e) \in Seq(Happened) /\ Tallied(Append(events, e)) = Tallied(events)
        BY <1>1, <2>1, <3>1, TalliedAppend
      <3>3. Waiting' = Tallied(reports) + Tallied(Append(events, e))
        BY <2>2 DEF Waiting, Tallied, Judgeables, Judgeable
      <3> QED BY <2>2, <3>2, <3>3 DEF Waiting
    <2>4. /\ UNCHANGED <<calls, nextPort, echoes, threadVars, queue>> /\ phase' = "collecting"
          /\ thread = "ended" /\ stats' = stats /\ quiet' = quiet
      BY <1>4 DEF OtherArrives, engineVars, Inv, Phased
    <2> QED BY <1>1, <2>2, <2>3, <2>4, EventsOnly
  <1> QED BY <1>2, <1>3, <1>4

LEMMA ForwardKeeps == ASSUME Inv, Forward PROVE Inv'
  <1> DEFINE e == Head(reports)
             one == IF Judgeable(e) THEN 1 ELSE 0
  <1>1. stats \in Stats /\ reports \in Seq(Happened) /\ events \in Seq(Happened) /\ quiet \in 0..3
    BY DEF Inv, Typed
  <1>2. /\ reports # <<>> /\ events' = Append(events, e) /\ reports' = Tail(reports) /\ phase # "reported"
        /\ UNCHANGED <<calls, nextPort, echoes, threadVars, queue>> /\ phase' = phase /\ quiet' = quiet
        /\ stats' = stats
    BY DEF Forward, engineVars, endVars
  <1>3. e \in Happened /\ Tail(reports) \in Seq(Happened) /\ Tallied(reports) = Tallied(Tail(reports)) + one
    BY <1>1, <1>2, TalliedHead
  <1>4. Append(events, e) \in Seq(Happened) /\ Tallied(Append(events, e)) = Tallied(events) + one
    BY <1>1, <1>3, TalliedAppend
  <1>5. Tallied(Tail(reports)) \in Nat /\ Tallied(events) \in Nat /\ one \in Nat
    BY <1>1, <1>3, JudgeablesAreFinite
  <1> HIDE DEF e, one
  <1>6. Waiting' = Tallied(Tail(reports)) + Tallied(Append(events, e))
    BY <1>2 DEF Waiting, Tallied, Judgeables, Judgeable
  <1>7. Waiting' = Waiting
    BY <1>3, <1>4, <1>5, <1>6 DEF Waiting
  <1>8. phase \in {"running", "joining", "collecting", "reported"} /\ (phase = "collecting" => thread = "ended")
    BY DEF Inv, Typed, Phased
  <1> QED BY <1>1, <1>2, <1>3, <1>4, <1>7, <1>8, EventsOnly

-----------------------------------------------------------------------------
(* The media thread's steps.                                                *)

LEMMA SomeStreams ==
    ASSUME Inv, NEW ended \in SUBSET streams
    PROVE  ended \in SUBSET Stream /\ IsFiniteSet(ended) /\ Distinct(ended)
  <1>1. streams \in SUBSET Stream /\ IsFiniteSet(streams) /\ Distinct(streams)
    BY DEF Inv, Typed, Known
  <1>2. IsFiniteSet(ended)
    BY <1>1, FS_Subset
  <1> QED BY <1>1, <1>2 DEF Distinct

\* The streams that end make up for those that are no longer in flight.
LEMMA Accounted ==
    ASSUME Inv, NEW ended \in SUBSET streams, NEW rest,
           \A id \in audible : id \in IdsOf(rest) <=> id \in IdsOf(streams \ ended)
    PROVE  /\ TalliesOf(ended) \in Seq(Happened)
           /\ Cardinality(audible \ IdsOf(rest)) = Cardinality(audible \ IdsOf(streams)) + Tallied(TalliesOf(ended))
  <1> DEFINE A == audible \ IdsOf(streams)
             B == Sounding(ended)
  <1>1. TalliesOf(ended) \in Seq(Happened) /\ Tallied(TalliesOf(ended)) = Cardinality(B) /\ IsFiniteSet(B)
    BY SomeStreams, TalliesAre
  <1>2. IsFiniteSet(A)
    BY AudibleIsFinite DEF Inv
  <1>3. Distinct(streams) /\ \A s \in streams : s.id \in audible <=> Sounds(s)
    BY DEF Inv, Known
  <1>4. A \cap B = {}
    BY DEF IdsOf, Sounding
  <1>5. audible \ IdsOf(rest) = A \cup B
    <2>1. ASSUME NEW id \in audible, id \notin IdsOf(rest), id \in IdsOf(streams) PROVE id \in B
      <3>1. PICK s \in streams : s.id = id
        BY <2>1 DEF IdsOf
      <3>2. s \in ended
        BY <2>1, <3>1 DEF IdsOf
      <3>3. Sounds(s)
        BY <1>3, <2>1, <3>1
      <3> QED BY <3>1, <3>2, <3>3 DEF Sounding
    <2>2. ASSUME NEW id \in A PROVE id \in audible /\ id \notin IdsOf(rest)
      BY DEF IdsOf
    <2>3. ASSUME NEW id \in B PROVE id \in audible /\ id \notin IdsOf(rest)
      <3>1. PICK s \in ended : Sounds(s) /\ s.id = id
        BY <2>3 DEF Sounding
      <3>2. id \in audible
        BY <1>3, <3>1
      <3>3. id \notin IdsOf(streams \ ended)
        BY <1>3, <3>1 DEF Distinct, IdsOf
      <3> QED BY <3>2, <3>3
    <2> QED BY <2>1, <2>2, <2>3
  <1> HIDE DEF A, B
  <1>6. Cardinality(A \cup B) = Cardinality(A) + Cardinality(B)
    <2>1. Cardinality(A \cup B) = Cardinality(A) + Cardinality(B) - Cardinality(A \cap B)
      BY <1>1, <1>2, FS_Union
    <2>2. Cardinality(A \cap B) = 0
      BY <1>4, FS_EmptySet
    <2>3. Cardinality(A) \in Nat /\ Cardinality(B) \in Nat
      BY <1>1, <1>2, FS_CardinalityType
    <2> QED BY <2>1, <2>2, <2>3
  <1> QED BY <1>1, <1>5, <1>6 DEF A

\* A step of the thread keeps the balance when its events make up for its streams.
LEMMA BalanceKept ==
    ASSUME Inv, NEW more \in Seq(Happened), reports' = reports \o more, events' = events, stats' = stats,
           Cardinality(audible' \ IdsOf(streams')) = Cardinality(audible \ IdsOf(streams)) + Tallied(more)
    PROVE  Balanced' /\ reports' \in Seq(Happened)
  <1>1. reports \in Seq(Happened) /\ events \in Seq(Happened) /\ stats.ok \in Nat /\ stats.failed \in Nat
    BY DEF Inv, Typed, Stats
  <1>2. reports' \in Seq(Happened) /\ Tallied(reports \o more) = Tallied(reports) + Tallied(more)
    BY <1>1, TalliedJoin
  <1>3. Tallied(reports) \in Nat /\ Tallied(events) \in Nat /\ Tallied(more) \in Nat
    BY <1>1, JudgeablesAreFinite
  <1>4. stats.ok + stats.failed + (Tallied(reports) + Tallied(events)) = Cardinality(audible \ IdsOf(streams))
    BY DEF Inv, Balanced, Waiting
  <1>5. stats.ok + stats.failed + (Tallied(reports \o more) + Tallied(events))
            = Cardinality(audible' \ IdsOf(streams'))
    BY <1>1, <1>2, <1>3, <1>4
  <1>6. Waiting' = Tallied(reports \o more) + Tallied(events)
    BY DEF Waiting, Tallied, Judgeables, Judgeable
  <1>7. Balanced' <=> stats'.ok + stats'.failed + Waiting' = Cardinality(audible' \ IdsOf(streams'))
    BY DEF Balanced, IdsOf
  <1> QED BY <1>2, <1>5, <1>6, <1>7

\* What holds when a command is taken, whichever it is.
LEMMA ReceiveFacts ==
    ASSUME Inv, Receive
    PROVE  /\ Head(queue) \in Commands /\ queue' = Tail(queue) /\ queue' \in Seq(Commands)
           /\ Apply(Head(queue)) /\ round = {} /\ phase # "reported" /\ thread = "receiving"
           /\ phase # "collecting" /\ queue \in Seq(Commands) /\ queue # <<>>
           /\ UNCHANGED <<calls, nextPort, echoes, stats, phase, quiet, others, round, audible, events>>
  <1>1. queue \in Seq(Commands) /\ queue # <<>> /\ thread = "receiving"
    BY DEF Receive, Inv, Typed
  <1>2. Head(queue) \in Commands /\ Tail(queue) \in Seq(Commands)
    BY <1>1, Shortened
  <1> QED BY <1>1, <1>2 DEF Receive, Inv, Phased, engineVars, endVars

\* What each command must still show for the invariant.
LEMMA ReceiveKeepsRest ==
    ASSUME Inv, Receive, streams' \in SUBSET Stream, IsFiniteSet(streams'), reports' \in Seq(Happened),
           due' \subseteq Ids, thread' \in {"receiving", "ended"}, thread' = "ended" => streams' = {},
           Known(streams', stats.started, audible), Scheduled(streams', due'),
           Fresh(Tail(queue), stats.started, audible \cup IdsOf(streams')),
           \A c \in Calls : (\E s \in streams' : s.call = c)
                                => \/ (\E s \in streams : s.call = c) /\ ~Halts(Head(queue), c)
                                   \/ Head(queue).do = "play" /\ Head(queue).call = c,
           Balanced'
    PROVE  Inv'
  <1>1. /\ queue' = Tail(queue) /\ queue' \in Seq(Commands) /\ round = {} /\ phase \notin {"reported", "collecting"}
        /\ queue \in Seq(Commands) /\ queue # <<>>
        /\ UNCHANGED <<calls, nextPort, echoes, stats, phase, quiet, others, round, audible, events>>
    BY ReceiveFacts
  <1>2. Typed'
    BY <1>1 DEF Inv, Typed, Ids
  <1>3. Phased'
    BY <1>1 DEF Inv, Phased
  <1>4. (Known(streams, stats.started, audible) /\ Scheduled(streams, due))'
    BY <1>1 DEF Known, Scheduled, Distinct, Sounds
  <1>5. Fresh(queue, stats.started, audible \cup IdsOf(streams))'
    BY <1>1 DEF Fresh, IdsOf
  <1>6. Held'
    <2>1. ASSUME NEW c \in Calls, calls[c].is = "ended" PROVE NoEchoes(c)' /\ Released(Tail(queue), c, streams')
      <3>1. NoEchoes(c) /\ Released(queue, c, streams)
        BY <2>1 DEF Inv, Held
      <3>2. Released(Tail(queue), c, streams')
        BY <1>1, <3>1, ReleasedTail
      <3> QED BY <1>1, <3>1, <3>2 DEF NoEchoes
    <2> QED BY <1>1, <2>1 DEF Held, Released, HaltedFrom, Halts
  <1> QED BY <1>2, <1>3, <1>4, <1>5, <1>6 DEF Inv

LEMMA FreshStays ==
    ASSUME Inv, queue # <<>>
    PROVE  Fresh(Tail(queue), stats.started, audible \cup IdsOf(streams))
  <1>1. queue \in Seq(Commands) /\ Fresh(queue, stats.started, audible \cup IdsOf(streams))
    BY DEF Inv, Typed
  <1> QED BY <1>1, FreshTail

LEMMA PlayIsTaken == ASSUME Inv, Receive, Head(queue).do = "play" PROVE Inv'
  <1> DEFINE cmd == Head(queue)
             new == cmd.stream
             old == Replaced(new)
             rest == (streams \ old) \cup {new}
             taken == audible \cup IdsOf(streams)
  <1>1. /\ cmd \in Commands /\ queue \in Seq(Commands) /\ queue # <<>> /\ thread = "receiving"
        /\ Apply(cmd) /\ stats' = stats /\ audible' = audible /\ events' = events
    BY ReceiveFacts
  <1>2. new \in Stream /\ new.sent = 0 /\ cmd.call = new.call /\ cmd.call \in Calls
    BY <1>1, CommandIs
  <1>3. streams' = rest /\ due' = due \cup {new.id} /\ reports' = reports \o TalliesOf(old) /\ thread' = thread
    BY <1>1 DEF Apply
  <1>4. new.id \in (1..stats.started) \ taken /\ Fresh(Tail(queue), stats.started, taken \cup {new.id})
    BY <1>1, FreshTail DEF Inv
  <1>5. streams \in SUBSET Stream /\ IsFiniteSet(streams) /\ due \subseteq Ids /\ new.id \in Ids
    BY <1>2, StreamFields DEF Inv, Typed
  <1>6. old \in SUBSET streams
    BY DEF Replaced
  <1>7. new.sent \in Nat /\ ~Sounds(new)
    BY <1>2 DEF Sounds
  <1> HIDE DEF cmd
  <1>8. rest \in SUBSET Stream /\ IsFiniteSet(rest)
    <2>0. streams \ old \in SUBSET streams
      OBVIOUS
    <2> HIDE DEF old
    <2>1. IsFiniteSet(streams \ old) /\ IsFiniteSet({new})
      BY <1>5, <2>0, FS_Subset, FS_Singleton
    <2>2. IsFiniteSet(rest)
      BY <2>1, FS_Union
    <2> QED BY <1>2, <1>5, <2>2
  <1>9. Known(rest, stats.started, audible)
    <2>1. Known(streams, stats.started, audible)
      BY DEF Inv
    <2>2. \A s \in streams : s.id # new.id
      BY <1>4 DEF IdsOf
    <2>3. \A s \in streams \ old : ~(s.call = new.call /\ s.source.tag = new.source.tag)
      BY DEF Replaced
    <2>4. Distinct(rest)
      BY <2>1, <2>2, <2>3 DEF Known, Distinct
    <2>5. \A s \in rest : s.id \in 1..stats.started /\ (s.id \in audible <=> Sounds(s))
      BY <1>4, <1>7, <2>1 DEF Known
    <2> QED BY <2>4, <2>5 DEF Known
  <1>10. Scheduled(rest, due')
    BY <1>3 DEF Inv, Scheduled
  <1>11. Fresh(Tail(queue), stats.started, audible \cup IdsOf(rest))
    <2>1. audible \cup IdsOf(rest) \subseteq taken \cup {new.id}
      BY DEF IdsOf
    <2> QED BY <1>4, <2>1, FreshFewer
  <1>12. \A c \in Calls : (\E s \in rest : s.call = c)
             => \/ (\E s \in streams : s.call = c) /\ ~Halts(cmd, c)
                \/ cmd.do = "play" /\ cmd.call = c
    <2>1. \A c \in Calls : ~Halts(cmd, c) /\ cmd.do = "play"
      BY DEF Halts, cmd
    <2> QED BY <1>2, <2>1
  <1>13. Balanced' /\ reports' \in Seq(Happened)
    <2>1. \A id \in audible : id \in IdsOf(rest) <=> id \in IdsOf(streams \ old)
      BY <1>4 DEF IdsOf
    <2>2. /\ TalliesOf(old) \in Seq(Happened)
          /\ Cardinality(audible \ IdsOf(rest)) = Cardinality(audible \ IdsOf(streams)) + Tallied(TalliesOf(old))
      BY <1>6, <2>1, Accounted
    <2> QED BY <1>1, <1>3, <2>2, BalanceKept
  <1>14. due' \subseteq Ids /\ thread' = "receiving"
    BY <1>1, <1>3, <1>5
  <1> HIDE DEF rest
  <1> QED BY <1>3, <1>8, <1>9, <1>10, <1>11, <1>12, <1>13, <1>14, ReceiveKeepsRest DEF cmd

\* A command that ends streams: the halted calls have none left.
LEMMA FewerStreams ==
    ASSUME Inv, Receive, NEW ended \in SUBSET streams, streams' = streams \ ended,
           reports' = reports \o TalliesOf(ended), due' \in {due, {}}, thread' \in {"receiving", "ended"},
           thread' = "ended" \/ due' = {} => streams' = {},
           \A c \in Calls : \A s \in streams : s.call = c /\ Halts(Head(queue), c) => s \in ended
    PROVE  Inv'
  <1>1. queue # <<>> /\ stats' = stats /\ audible' = audible /\ events' = events
    BY ReceiveFacts
  <1>2. streams \in SUBSET Stream /\ IsFiniteSet(streams) /\ due \subseteq Ids
    BY DEF Inv, Typed
  <1>3. streams' \in SUBSET Stream /\ IsFiniteSet(streams')
    BY <1>2, FS_Subset
  <1>4. Known(streams', stats.started, audible)
    BY DEF Inv, Known, Distinct
  <1>5. Scheduled(streams', due')
    BY DEF Inv, Scheduled
  <1>6. Fresh(Tail(queue), stats.started, audible \cup IdsOf(streams'))
    <2>1. audible \cup IdsOf(streams') \subseteq audible \cup IdsOf(streams)
      BY DEF IdsOf
    <2> QED BY <1>1, <2>1, FreshStays, FreshFewer
  <1>7. Balanced' /\ reports' \in Seq(Happened)
    <2>1. \A id \in audible : id \in IdsOf(streams') <=> id \in IdsOf(streams \ ended)
      OBVIOUS
    <2>2. /\ TalliesOf(ended) \in Seq(Happened)
          /\ Cardinality(audible \ IdsOf(streams'))
                 = Cardinality(audible \ IdsOf(streams)) + Tallied(TalliesOf(ended))
      BY <2>1, Accounted
    <2> QED BY <1>1, <2>2, BalanceKept
  <1>8. ASSUME NEW c \in Calls, \E s \in streams' : s.call = c
        PROVE  (\E s \in streams : s.call = c) /\ ~Halts(Head(queue), c)
    BY <1>8
  <1>9. due' \subseteq Ids
    BY <1>2
  <1> QED BY <1>3, <1>4, <1>5, <1>6, <1>7, <1>8, <1>9, ReceiveKeepsRest

LEMMA StopIsTaken == ASSUME Inv, Receive, Head(queue).do = "stop" PROVE Inv'
  <1> DEFINE cmd == Head(queue)
             ended == {s \in streams : Selects(cmd, s)}
  <1>1. cmd \in Commands /\ Apply(cmd) /\ thread = "receiving"
    BY ReceiveFacts
  <1>2. cmd.tag = All /\ cmd.call \in Calls
    BY <1>1, CommandIs
  <1>3. /\ streams' = {s \in streams : ~Selects(cmd, s)} /\ reports' = reports \o TalliesOf(ended)
        /\ due' = due /\ thread' = thread
    BY <1>1 DEF Apply
  <1>4. streams' = streams \ ended
    BY <1>3
  <1>5. ASSUME NEW c \in Calls, NEW s \in streams, s.call = c, Halts(cmd, c) PROVE s \in ended
    <2>1. s \in Stream
      BY DEF Inv, Typed
    <2>2. cmd.call # 0 /\ cmd.call \in {0, c}
      BY <1>2, <1>5, Bounds DEF Halts
    <2> QED BY <1>2, <1>5, <2>2 DEF Selects
  <1>6. due' = {} => streams' = {}
    BY <1>3 DEF Inv, Scheduled
  <1> HIDE DEF ended
  <1>7. ended \in SUBSET streams
    BY DEF ended
  <1> QED BY <1>1, <1>3, <1>4, <1>5, <1>6, <1>7, FewerStreams

LEMMA ShutdownIsTaken == ASSUME Inv, Receive, Head(queue).do = "shutdown" PROVE Inv'
  <1>1. Apply(Head(queue))
    BY ReceiveFacts
  <1>2. streams' = {} /\ due' = {} /\ reports' = reports \o TalliesOf(streams) /\ thread' = "ended"
    BY <1>1 DEF Apply
  <1>3. streams' = streams \ streams
    BY <1>2
  <1> QED BY <1>2, <1>3, FewerStreams

LEMMA PacedIs ==
    ASSUME NEW cmd \in Commands, NEW s \in Stream
    PROVE  /\ Paced(s, cmd) \in Stream /\ Paced(s, cmd).id = s.id /\ Paced(s, cmd).call = s.call
           /\ Paced(s, cmd).source = s.source /\ Paced(s, cmd).sent = s.sent
  <1> DEFINE on == cmd.paused
             t == [s EXCEPT !.paused = on]
  <1>1. on \in BOOLEAN
    BY CommandIs
  <1> HIDE DEF on
  <1>2. t \in Stream /\ t.id = s.id /\ t.call = s.call /\ t.source = s.source /\ t.sent = s.sent
    BY <1>1 DEF Stream
  <1>3. Paced(s, cmd) \in {s, t}
    BY DEF Paced, on
  <1> QED BY <1>2, <1>3

LEMMA PauseIsTaken == ASSUME Inv, Receive, Head(queue).do = "pause" PROVE Inv'
  <1> DEFINE cmd == Head(queue)
             after == {Paced(s, cmd) : s \in streams}
  <1>1. cmd \in Commands /\ Apply(cmd) /\ thread = "receiving" /\ queue # <<>>
        /\ stats' = stats /\ audible' = audible /\ events' = events
    BY ReceiveFacts
  <1>2. streams' = after /\ due' = due /\ reports' = reports /\ thread' = thread
    BY <1>1 DEF Apply
  <1>3. streams \in SUBSET Stream /\ IsFiniteSet(streams) /\ due \subseteq Ids /\ reports \in Seq(Happened)
    BY DEF Inv, Typed
  <1>4. ~\E c \in Calls : Halts(cmd, c)
    BY DEF Halts
  <1> HIDE DEF cmd
  <1>5. \A s \in streams : /\ Paced(s, cmd) \in Stream /\ Paced(s, cmd).id = s.id /\ Paced(s, cmd).call = s.call
                           /\ Paced(s, cmd).source = s.source /\ Paced(s, cmd).sent = s.sent
    BY <1>1, <1>3, PacedIs
  <1>6. after \in SUBSET Stream
    BY <1>5
  <1>7. IsFiniteSet(after)
    <2> DEFINE g == [s \in streams |-> Paced(s, cmd)]
    <2>1. g \in Surjection(streams, after)
      BY DEF Surjection
    <2> HIDE DEF g
    <2> QED BY <1>3, <2>1, FS_Surjection
  <1>8. \A t \in after : \E s \in streams : /\ t = Paced(s, cmd) /\ t.id = s.id /\ t.call = s.call
                                            /\ t.source = s.source /\ t.sent = s.sent
    BY <1>5
  <1>9. IdsOf(after) = IdsOf(streams)
    <2>1. ASSUME NEW id \in IdsOf(after) PROVE id \in IdsOf(streams)
      BY <1>8 DEF IdsOf
    <2>2. ASSUME NEW id \in IdsOf(streams) PROVE id \in IdsOf(after)
      BY <1>5 DEF IdsOf
    <2> QED BY <2>1, <2>2
  <1> HIDE DEF after
  <1>10. Known(after, stats.started, audible)
    <2>1. Known(streams, stats.started, audible)
      BY DEF Inv
    <2>2. Distinct(after)
      <3> SUFFICES ASSUME NEW t \in after, NEW u \in after,
                          t.id = u.id \/ (t.call = u.call /\ t.source.tag = u.source.tag)
                   PROVE  t = u
        BY DEF Distinct
      <3>1. PICK s \in streams : t = Paced(s, cmd) /\ t.id = s.id /\ t.call = s.call /\ t.source = s.source
        BY <1>8
      <3>2. PICK r \in streams : u = Paced(r, cmd) /\ u.id = r.id /\ u.call = r.call /\ u.source = r.source
        BY <1>8
      <3>3. s = r
        BY <2>1, <3>1, <3>2 DEF Known, Distinct
      <3> QED BY <3>1, <3>2, <3>3
    <2>3. ASSUME NEW t \in after PROVE t.id \in 1..stats.started /\ (t.id \in audible <=> Sounds(t))
      <3>1. PICK s \in streams : t.id = s.id /\ t.source = s.source /\ t.sent = s.sent
        BY <1>8
      <3>2. s.id \in 1..stats.started /\ (s.id \in audible <=> Sounds(s))
        BY <2>1 DEF Known
      <3>3. Sounds(t) <=> Sounds(s)
        BY <3>1 DEF Sounds
      <3> QED BY <3>1, <3>2, <3>3
    <2> QED BY <2>2, <2>3 DEF Known
  <1>11. Scheduled(after, due)
    BY <1>8 DEF Inv, Scheduled
  <1>12. Fresh(Tail(queue), stats.started, audible \cup IdsOf(after))
    BY <1>1, <1>9, FreshStays
  <1>13. \A c \in Calls : (\E s \in after : s.call = c) => (\E s \in streams : s.call = c)
    BY <1>8
  <1>14. Balanced'
    <2>1. Balanced
      BY DEF Inv
    <2>2. IdsOf(streams)' = IdsOf(streams)
      BY <1>2, <1>9 DEF IdsOf
    <2>3. Waiting' = Waiting
      BY <1>1, <1>2 DEF Waiting, Tallied, Judgeables, Judgeable
    <2> QED BY <1>1, <2>1, <2>2, <2>3 DEF Balanced
  <1> QED BY <1>1, <1>2, <1>3, <1>4, <1>6, <1>7, <1>10, <1>11, <1>12, <1>13, <1>14, ReceiveKeepsRest DEF cmd

LEMMA ReceiveKeeps == ASSUME Inv, Receive PROVE Inv'
  <1>1. Head(queue).do \in {"play", "pause", "stop", "shutdown"}
    BY ReceiveFacts, CommandIs
  <1> QED BY <1>1, PlayIsTaken, StopIsTaken, PauseIsTaken, ShutdownIsTaken

\* A step that only moves the heap and the round: no stream in flight leaves the heap.
LEMMA RoundOnly ==
    ASSUME Inv, UNCHANGED <<engineVars, endVars, streams, queue, channels, audible>>,
           due' \subseteq Ids, round' \subseteq due', Scheduled(streams, due'),
           thread' \in {"receiving", "pumping"}, thread # "ended", thread' = "receiving" => round' = {}
    PROVE  Inv'
  <1>1. Typed'
    BY DEF Inv, Typed, engineVars, endVars, channels, Ids
  <1>2. Phased'
    BY DEF Inv, Phased, endVars, channels
  <1>3. (Known(streams, stats.started, audible) /\ Scheduled(streams, due))'
    BY DEF Inv, Known, Scheduled, Distinct, Sounds, engineVars
  <1>4. Fresh(queue, stats.started, audible \cup IdsOf(streams))'
    BY DEF Inv, Fresh, IdsOf, engineVars
  <1>5. Held'
    BY DEF Inv, Held, NoEchoes, Released, HaltedFrom, Halts, engineVars
  <1>6. Balanced'
    BY DEF Inv, Balanced, Waiting, Tallied, Judgeables, Judgeable, IdsOf, engineVars, channels
  <1> QED BY <1>1, <1>2, <1>3, <1>4, <1>5, <1>6 DEF Inv

LEMMA RoundsKeep == ASSUME Inv, Wake \/ EndRound \/ \E id \in Ids : Stale(id) PROVE Inv'
  <1>1. due \subseteq Ids /\ round \subseteq due /\ Scheduled(streams, due)
    BY DEF Inv, Typed
  <1>2. CASE Wake
    BY <1>1, <1>2, RoundOnly DEF Wake
  <1>3. CASE EndRound
    BY <1>1, <1>3, RoundOnly DEF EndRound
  <1>4. CASE \E id \in Ids : Stale(id)
    <2>1. PICK id \in Ids : Stale(id)
      BY <1>4
    <2>2. due' = due \ {id} /\ round' = round \ {id} /\ thread' = "pumping" /\ thread = "pumping"
          /\ \A s \in streams : s.id # id
      BY <2>1 DEF Stale
    <2>3. Scheduled(streams, due')
      BY <1>1, <2>2 DEF Scheduled
    <2>4. UNCHANGED <<engineVars, endVars, streams, queue, channels, audible>>
      BY <2>1 DEF Stale
    <2> QED BY <1>1, <2>2, <2>3, <2>4, RoundOnly
  <1> QED BY <1>2, <1>3, <1>4

-----------------------------------------------------------------------------
(* What pumping makes of a stream.                                          *)

SameStream(s, t) == t.id = s.id /\ t.call = s.call /\ t.source = s.source

LEMMA BurstIs ==
    ASSUME NEW s \in Stream, NEW t \in Bursts(s), Sane(s, t)
    PROVE  t \in Stream /\ SameStream(s, t) /\ s.sent <= t.sent
  <1>1. PICK n \in 0..MaxBurst, f \in 0..(IF s.source.generated THEN MaxBurst ELSE 0) :
             /\ t = Burst(s, n, f)
             /\ s.left = Forever \/ n <= s.left
             /\ s.sent + n <= MaxSent
    BY DEF Bursts
  <1>2. /\ MaxSent \in Nat /\ MaxBurst \in Nat
        /\ s.left \in Nat \cup {Forever} /\ s.sent \in Nat /\ s.failed \in Nat /\ s.failed <= s.sent
    BY Bounds, StreamFields
  <1>3. n \in Nat /\ f \in Nat
    BY <1>1, <1>2
  <1> DEFINE sent == s.sent + n
             failed == s.failed + f
             left == Took(s, n)
  <1>4. left \in Nat \cup {Forever}
    BY <1>1, <1>2, <1>3 DEF Took, Forever
  <1>5. sent \in 0..MaxSent /\ failed \in Nat /\ s.sent <= sent
    BY <1>1, <1>2, <1>3
  <1>6. t = [s EXCEPT !.sent = sent, !.failed = failed, !.left = left]
    BY <1>1 DEF Burst
  <1>7. s.sent + n = sent /\ s.failed + f = failed
    OBVIOUS
  <1> HIDE DEF sent, failed, left
  <1>8. s \in [id : Ids, call : Calls, source : Sources, port : Nat, left : Nat \cup {Forever},
               paused : BOOLEAN, sent : 0..MaxSent, failed : Nat]
    BY DEF Stream
  <1>9. t.sent = sent /\ t.failed = failed /\ SameStream(s, t)
    BY <1>6, <1>8 DEF SameStream
  <1>10. failed <= sent
    BY <1>2, <1>5, <1>9 DEF Sane
  <1>11. t \in [id : Ids, call : Calls, source : Sources, port : Nat, left : Nat \cup {Forever},
                paused : BOOLEAN, sent : 0..MaxSent, failed : Nat]
    BY <1>4, <1>5, <1>6, <1>8
  <1> QED BY <1>5, <1>9, <1>10, <1>11 DEF Stream

LEMMA BlockedIs ==
    ASSUME NEW t \in Stream, More(t)
    PROVE  Blocked(t) \in Stream /\ SameStream(t, Blocked(t)) /\ Blocked(t).sent = t.sent
  <1> DEFINE left == Took(t, 1)
  <1>1. t.left \in Nat \cup {Forever} /\ t.left # 0
    BY StreamFields DEF More
  <1>2. left \in Nat \cup {Forever}
    BY <1>1 DEF Took, Forever
  <1>3. Blocked(t) \in {t, [t EXCEPT !.left = left]}
    BY DEF Blocked
  <1> HIDE DEF left
  <1>4. CASE Blocked(t) = t
    BY <1>4 DEF SameStream
  <1>5. CASE Blocked(t) = [t EXCEPT !.left = left]
    BY <1>2, <1>5 DEF SameStream, Stream
  <1> QED BY <1>3, <1>4, <1>5

\* The facts about the stream that is pumped.
LEMMA PumpedIs ==
    ASSUME Inv, NEW s \in streams, NEW t \in Stream, SameStream(s, t), s.sent <= t.sent
    PROVE  /\ s \in Stream /\ s.id \in 1..stats.started /\ s.id \in due
           /\ \A r \in streams : r.id = s.id => r = s
           /\ s.id \in audible => Sounds(t)
           /\ ~Sounds(t) => s.id \notin audible
  <1>1. s \in Stream /\ Known(streams, stats.started, audible) /\ Scheduled(streams, due)
    BY DEF Inv, Typed
  <1>2. s.sent \in Nat /\ t.sent \in Nat
    BY <1>1, StreamFields
  <1>3. Sounds(s) => Sounds(t)
    BY <1>2 DEF Sounds, SameStream
  <1> QED BY <1>1, <1>3 DEF Known, Distinct, Scheduled

\* What a pump must still show for the invariant.
LEMMA PumpKeepsRest ==
    ASSUME Inv, NEW id, Pump(id), streams' \in SUBSET Stream, IsFiniteSet(streams'), reports' \in Seq(Happened),
           due' \subseteq Ids, round \ {id} \subseteq due', audible' \subseteq 1..stats.started,
           Known(streams', stats.started, audible'), Scheduled(streams', due'),
           audible' \cup IdsOf(streams') \subseteq audible \cup IdsOf(streams),
           \A t \in streams' : \E s \in streams : s.call = t.call,
           Balanced'
    PROVE  Inv'
  <1>1. /\ UNCHANGED <<calls, nextPort, echoes, stats, phase, quiet, others, thread, queue, events>>
        /\ round' = round \ {id} /\ thread = "pumping"
    BY DEF Pump, Pumps, engineVars, endVars
  <1>2. Typed'
    BY <1>1 DEF Inv, Typed, Ids
  <1>3. Phased'
    BY <1>1 DEF Inv, Phased
  <1>4. (Known(streams, stats.started, audible) /\ Scheduled(streams, due))'
    BY <1>1 DEF Known, Scheduled, Distinct, Sounds
  <1>5. Fresh(queue, stats.started, audible' \cup IdsOf(streams'))
    BY FreshFewer DEF Inv
  <1>6. Fresh(queue, stats.started, audible \cup IdsOf(streams))'
    BY <1>1, <1>5 DEF Fresh, IdsOf
  <1>7. Held'
    <2>1. ASSUME NEW c \in Calls, calls[c].is = "ended" PROVE NoEchoes(c)' /\ Released(queue, c, streams')
      <3>1. NoEchoes(c) /\ Released(queue, c, streams)
        BY <2>1 DEF Inv, Held
      <3>2. Released(queue, c, streams')
        BY <3>1 DEF Released
      <3> QED BY <1>1, <3>1, <3>2 DEF NoEchoes
    <2> QED BY <1>1, <2>1 DEF Held, Released, HaltedFrom, Halts
  <1> QED BY <1>2, <1>3, <1>4, <1>6, <1>7 DEF Inv

LEMMA GoOnKeeps ==
    ASSUME Inv, NEW id, Pump(id), NEW s \in streams, s.id = id, GoOn(s)
    PROVE  Inv'
  <1>1. s \in Stream /\ streams \in SUBSET Stream /\ IsFiniteSet(streams) /\ due \subseteq Ids /\ round \subseteq due
        /\ reports \in Seq(Happened) /\ audible \subseteq 1..stats.started
    BY DEF Inv, Typed
  <1>2. PICK t \in {u \in Bursts(s) : Sane(s, u)}, blocked \in BOOLEAN :
             /\ blocked => More(t)
             /\ streams' = (streams \ {s}) \cup {IF blocked THEN Blocked(t) ELSE t}
             /\ due' = Rescheduled(t, blocked) /\ Heard(t)
    BY DEF GoOn
  <1> DEFINE u == IF blocked THEN Blocked(t) ELSE t
             rest == (streams \ {s}) \cup {u}
  <1>3. t \in Stream /\ SameStream(s, t) /\ s.sent <= t.sent
    BY <1>1, <1>2, BurstIs
  <1>4. u \in Stream /\ SameStream(s, u) /\ u.sent = t.sent
    BY <1>2, <1>3, BlockedIs DEF SameStream
  <1>5. streams' = rest /\ due' = due /\ reports' = reports
    BY <1>2 DEF Rescheduled, GoOn
  <1>6. stats' = stats /\ events' = events
    BY DEF Pump, engineVars
  <1> HIDE DEF u
  <1>7. s.id \in 1..stats.started /\ s.id \in due /\ (\A r \in streams : r.id = s.id => r = s)
        /\ (s.id \in audible => Sounds(t))
    BY <1>3, PumpedIs
  <1>8. Sounds(u) <=> Sounds(t)
    BY <1>3, <1>4 DEF Sounds, SameStream
  <1>9. audible' = IF Sounds(t) THEN audible \cup {s.id} ELSE audible
    BY <1>2, <1>3 DEF Heard, Sounds, SameStream
  <1>10. IdsOf(rest) = IdsOf(streams)
    BY <1>4 DEF IdsOf, SameStream
  <1>11. rest \in SUBSET Stream /\ IsFiniteSet(rest)
    <2>1. streams \ {s} \in SUBSET streams
      OBVIOUS
    <2>2. IsFiniteSet(streams \ {s}) /\ IsFiniteSet({u})
      BY <1>1, <2>1, FS_Subset, FS_Singleton
    <2>3. IsFiniteSet(rest)
      BY <2>2, FS_Union
    <2> QED BY <1>1, <1>4, <2>3
  <1>12. Known(rest, stats.started, audible')
    <2>1. Known(streams, stats.started, audible)
      BY DEF Inv
    <2>2. Distinct(rest)
      BY <1>4, <1>7, <2>1 DEF Known, Distinct, SameStream
    <2>3. ASSUME NEW r \in streams \ {s}
          PROVE  r.id \in 1..stats.started /\ (r.id \in audible' <=> Sounds(r))
      BY <1>7, <1>9, <2>1 DEF Known
    <2>4. u.id \in 1..stats.started /\ (u.id \in audible' <=> Sounds(u))
      BY <1>4, <1>7, <1>8, <1>9 DEF SameStream
    <2> QED BY <2>2, <2>3, <2>4 DEF Known
  <1>13. Scheduled(rest, due)
    BY <1>4, <1>7 DEF Inv, Scheduled, SameStream
  <1>14. audible' \subseteq 1..stats.started /\ audible' \cup IdsOf(rest) \subseteq audible \cup IdsOf(streams)
    <2>1. s.id \in IdsOf(streams)
      BY DEF IdsOf
    <2> QED BY <1>1, <1>7, <1>9, <1>10, <2>1
  <1>15. \A r \in rest : \E q \in streams : q.call = r.call
    BY <1>4 DEF SameStream
  <1>16. Balanced'
    <2>1. s.id \in IdsOf(streams)
      BY DEF IdsOf
    <2>2. audible' \ IdsOf(rest) = audible \ IdsOf(streams)
      BY <1>9, <1>10, <2>1
    <2>3. (audible \ IdsOf(streams))' = audible \ IdsOf(streams)
      BY <1>5, <2>2 DEF IdsOf
    <2>4. Waiting' = Waiting
      BY <1>5, <1>6 DEF Waiting, Tallied, Judgeables, Judgeable
    <2> QED BY <1>6, <2>3, <2>4 DEF Inv, Balanced
  <1> HIDE DEF rest
  <1>17. round \ {id} \subseteq due
    BY <1>1
  <1> QED BY <1>1, <1>5, <1>11, <1>12, <1>13, <1>14, <1>15, <1>16, <1>17, PumpKeepsRest

\* A stream that ends reports its tally, and its end.
LEMMA EndingIs ==
    ASSUME NEW t \in Stream, NEW how \in {"finished", "failed"}
    PROVE  Ending(t, how) \in Seq(Happened) /\ Tallied(Ending(t, how)) = IF Sounds(t) THEN 1 ELSE 0
  <1> DEFINE tallies == TalliesOf({t})
             last == <<Event(how, t)>>
  <1>1. {t} \in SUBSET Stream /\ IsFiniteSet({t}) /\ Distinct({t})
    BY FS_Singleton DEF Distinct
  <1>2. tallies \in Seq(Happened) /\ Tallied(tallies) = Cardinality(Sounding({t}))
    BY <1>1, TalliesAre
  <1>3. Sounding({t}) = IF Sounds(t) THEN {t.id} ELSE {}
    BY DEF Sounding
  <1>4. Cardinality({t.id}) = 1 /\ Cardinality({}) = 0
    BY FS_Singleton, FS_EmptySet
  <1>5. Event(how, t) \in Happened /\ ~Judgeable(Event(how, t))
    BY EventIs DEF Judgeable
  <1>6. last \in Seq(Happened) /\ Tallied(last) = 0
    BY <1>5, TalliedOne
  <1>7. Ending(t, how) = tallies \o last
    BY DEF Ending
  <1> HIDE DEF tallies, last
  <1>8. tallies \o last \in Seq(Happened) /\ Tallied(tallies \o last) = Tallied(tallies) + Tallied(last)
    BY <1>2, <1>6, TalliedJoin
  <1>9. Tallied(tallies) = IF Sounds(t) THEN 1 ELSE 0
    BY <1>2, <1>3, <1>4
  <1>10. Tallied(tallies) + Tallied(last) = Tallied(tallies)
    BY <1>6, <1>9
  <1> QED BY <1>7, <1>8, <1>9, <1>10

LEMMA EndStreamKeeps ==
    ASSUME Inv, NEW id, Pump(id), NEW s \in streams, s.id = id, NEW how \in {"finished", "failed"}, EndStream(s, how)
    PROVE  Inv'
  <1> DEFINE rest == streams \ {s}
  <1>1. s \in Stream /\ streams \in SUBSET Stream /\ IsFiniteSet(streams) /\ due \subseteq Ids /\ round \subseteq due
        /\ audible \subseteq 1..stats.started
    BY DEF Inv, Typed
  <1>2. PICK t \in {u \in Bursts(s) : Sane(s, u)} : reports' = reports \o Ending(t, how) /\ Heard(t)
    BY DEF EndStream
  <1>3. t \in Stream /\ SameStream(s, t) /\ s.sent <= t.sent
    BY <1>1, <1>2, BurstIs
  <1>4. streams' = rest /\ due' = due \ {id} /\ stats' = stats /\ events' = events
    BY DEF EndStream, Pump, engineVars
  <1>5. s.id \in 1..stats.started /\ (\A r \in streams : r.id = s.id => r = s)
        /\ (s.id \in audible => Sounds(t))
    BY <1>3, PumpedIs
  <1>6. audible' = IF Sounds(t) THEN audible \cup {s.id} ELSE audible
    BY <1>2, <1>3 DEF Heard, Sounds, SameStream
  <1>7. rest \in SUBSET Stream /\ IsFiniteSet(rest)
    BY <1>1, FS_Subset
  <1>8. Known(streams, stats.started, audible) /\ Scheduled(streams, due)
    BY DEF Inv
  <1>9. Known(rest, stats.started, audible')
    <2>1. Distinct(rest)
      BY <1>8 DEF Known, Distinct
    <2>2. ASSUME NEW r \in rest PROVE r.id \in 1..stats.started /\ (r.id \in audible' <=> Sounds(r))
      BY <1>5, <1>6, <1>8 DEF Known
    <2> QED BY <2>1, <2>2 DEF Known
  <1>10. Scheduled(rest, due')
    BY <1>4, <1>5, <1>8 DEF Scheduled
  <1>11. audible' \subseteq 1..stats.started /\ audible' \cup IdsOf(rest) \subseteq audible \cup IdsOf(streams)
    BY <1>1, <1>5, <1>6 DEF IdsOf
  <1>12. \A r \in rest : \E q \in streams : q.call = r.call
    OBVIOUS
  <1>13. Balanced' /\ reports' \in Seq(Happened)
    <2> DEFINE A == audible \ IdsOf(streams)
               one == IF Sounds(t) THEN 1 ELSE 0
    <2>1. Ending(t, how) \in Seq(Happened) /\ Tallied(Ending(t, how)) = one
      BY <1>3, EndingIs
    <2>2. IsFiniteSet(A) /\ Cardinality(A) \in Nat
      BY AudibleIsFinite, FS_CardinalityType DEF Inv
    <2>3. s.id \notin A /\ s.id \notin IdsOf(rest) /\ IdsOf(streams) = IdsOf(rest) \cup {s.id}
      BY <1>5 DEF IdsOf
    <2>4. audible' \ IdsOf(rest) = IF Sounds(t) THEN A \cup {s.id} ELSE A
      <3>1. ~Sounds(t) => s.id \notin audible
        BY <1>5
      <3> QED BY <1>6, <2>3, <3>1
    <2> HIDE DEF A
    <2>5. Cardinality(A \cup {s.id}) = Cardinality(A) + 1
      BY <2>2, <2>3, FS_AddElement
    <2>6. Cardinality(audible' \ IdsOf(rest)) = Cardinality(A) + one
      <3>1. CASE Sounds(t)
        BY <2>4, <2>5, <3>1
      <3>2. CASE ~Sounds(t)
        <4>1. audible' \ IdsOf(rest) = A /\ one = 0
          BY <2>4, <3>2
        <4>2. Cardinality(audible' \ IdsOf(rest)) = Cardinality(A)
          BY <4>1
        <4> HIDE DEF one, rest
        <4> QED BY <2>2, <4>1, <4>2
      <3> QED BY <3>1, <3>2
    <2> QED BY <1>2, <1>4, <2>1, <2>6, BalanceKept DEF A
  <1> HIDE DEF rest
  <1>14. due' \subseteq Ids /\ round \ {id} \subseteq due'
    BY <1>1, <1>4
  <1> QED BY <1>4, <1>7, <1>9, <1>10, <1>11, <1>12, <1>13, <1>14, PumpKeepsRest DEF rest

LEMMA PumpKeeps == ASSUME Inv, NEW id, Pump(id) PROVE Inv'
  <1>1. PICK s \in streams : s.id = id /\ (GoOn(s) \/ EndStream(s, "finished") \/ EndStream(s, "failed"))
    BY DEF Pump
  <1> QED BY <1>1, GoOnKeeps, EndStreamKeeps

-----------------------------------------------------------------------------
(* The properties of the run.                                               *)

LEMMA NextKeeps == ASSUME Inv, [Next]_vars PROVE Inv'
  <1>1. CASE EngineSteps
    BY <1>1, OpenCallKeeps, EndCallKeeps, PlayKeeps, RenderPortKeeps, EchoStartsKeeps, EchoStopsKeeps,
       PauseRtpKeeps, DropPlayerKeeps DEF EngineSteps
  <1>2. CASE TakeEvent
    BY <1>2, TakeEventKeeps
  <1>3. CASE FinalSteps
    BY <1>3, EndStepsKeep, CollectKeeps DEF FinalSteps
  <1>4. CASE OtherArrives
    BY <1>4, EndStepsKeep
  <1>5. CASE ThreadSteps
    BY <1>5, ReceiveKeeps, RoundsKeep, PumpKeeps DEF ThreadSteps
  <1>6. CASE Forward
    BY <1>6, ForwardKeeps
  <1>7. CASE UNCHANGED vars
    <2>1. /\ UNCHANGED <<engineVars, endVars, streams, queue, channels, audible>> /\ due' = due /\ round' = round
          /\ thread' = thread
      BY <1>7 DEF vars, threadVars
    <2>2. calls' \in CallSet /\ nextPort' \in Nat /\ UNCHANGED <<stats, endVars, threadVars, queue, channels>>
          /\ calls' = calls /\ echoes' = echoes
      BY <1>7 DEF vars, engineVars, Inv, Typed
    <2>3. \A c \in Calls : calls'[c].is = "ended" => calls[c].is = "ended" /\ NoEchoes(c)'
      BY <2>2 DEF Inv, Held, NoEchoes
    <2> QED BY <2>2, <2>3, EngineOnly
  <1> QED BY <1>1, <1>2, <1>3, <1>4, <1>5, <1>6, <1>7 DEF Next

LEMMA Invariance == Spec => []Inv
  <1>1. Inv /\ [Next]_vars => Inv'
    BY NextKeeps
  <1> QED BY <1>1, InitHolds, PTL DEF Spec

(* A call has one stream of a tag, a stream in flight is scheduled, and a     *)
(* call that ended holds no echo and no stream but those that a stop on its   *)
(* way ends (apply and run of replay.rs, stop_media).                         *)
THEOREM StreamsAreAlwaysKept == Spec => []StreamsAreKept
  <1>1. ASSUME Inv PROVE TypeOK
    <2>1. stats.ok + stats.failed <= stats.started
      <3> DEFINE A == audible \ IdsOf(streams)
      <3>1. A \in SUBSET (1..stats.started) /\ stats.started \in Nat
        BY <1>1, AudibleIsFinite DEF Inv, Typed
      <3>2. Cardinality(A) <= stats.started /\ Cardinality(A) \in Nat
        <4>0. ASSUME NEW n \in Nat PROVE IsFiniteSet(1..n) /\ Cardinality(1..n) = n
          BY FS_Interval
        <4> HIDE DEF A
        <4>1. IsFiniteSet(1..stats.started) /\ Cardinality(1..stats.started) = stats.started
          BY <3>1, <4>0
        <4>2. IsFiniteSet(A) /\ Cardinality(A) <= Cardinality(1..stats.started)
          BY <3>1, <4>1, FS_Subset
        <4>3. Cardinality(A) \in Nat
          BY <4>2, FS_CardinalityType
        <4> QED BY <4>1, <4>2, <4>3
      <3>3. Waiting \in Nat
        <4>1. Tallied(reports) \in Nat /\ Tallied(events) \in Nat
          BY <1>1, JudgeablesAreFinite DEF Inv, Typed
        <4> QED BY <4>1 DEF Waiting
      <3>4. stats.ok \in Nat /\ stats.failed \in Nat
        BY <1>1 DEF Inv, Typed, Stats
      <3>5. stats.ok + stats.failed + Waiting = Cardinality(A)
        BY <1>1 DEF Inv, Balanced
      <3> HIDE DEF A
      <3> QED BY <3>1, <3>2, <3>3, <3>4, <3>5
    <2>2. \A s \in streams : /\ s.id \in Ids /\ s.call \in Calls /\ s.source \in Sources
                             /\ s.left \in Nat \cup {Forever} /\ s.failed <= s.sent /\ s.sent <= MaxSent
      <3> TAKE s \in streams
      <3>1. s \in Stream
        BY <1>1 DEF Inv, Typed
      <3>2. s.sent <= MaxSent
        BY <3>1, StreamFields, Bounds
      <3> QED BY <3>1, <3>2, StreamFields
    <2>3. audible \subseteq Ids
      <3>1. stats.started \in 0..MaxPlays /\ MaxPlays \in Nat /\ audible \subseteq 1..stats.started
        BY <1>1, Bounds DEF Inv, Typed, Stats
      <3> QED BY <3>1 DEF Ids
    <2> QED BY <1>1, <2>1, <2>2, <2>3 DEF TypeOK, Inv, Typed, CallSet
  <1>2. Inv => OneStreamPerTag /\ StreamsAreScheduled
    BY DEF Inv, Known, Distinct, Scheduled, OneStreamPerTag, StreamsAreScheduled
  <1>3. ASSUME Inv PROVE EndedCallsHoldNothing
    <2> SUFFICES ASSUME NEW c \in Calls, calls[c].is = "ended"
                 PROVE  /\ \A e \in DOMAIN echoes : e[1] # c
                        /\ (\E s \in streams : s.call = c) => StopAhead(c, 1)
                        /\ \A i \in DOMAIN queue : queue[i].do = "play" /\ queue[i].call = c => StopAhead(c, i + 1)
      BY DEF EndedCallsHoldNothing
    <2>1. NoEchoes(c) /\ Released(queue, c, streams)
      BY <1>3 DEF Inv, Held
    <2>2. DOMAIN queue = 1..Len(queue)
      BY <1>3 DEF Inv, Typed
    <2>3. \A from : HaltedFrom(queue, c, from) => StopAhead(c, from)
      BY DEF HaltedFrom, Halts, StopAhead
    <2> QED BY <2>1, <2>2, <2>3 DEF NoEchoes, Released
  <1>4. Inv => StreamsAreKept
    BY <1>1, <1>2, <1>3 DEF StreamsAreKept
  <1> QED BY <1>4, Invariance, PTL

(* When the report comes, every generated stream that sent something was      *)
(* judged, once, or its tally is what the bridge still holds: whatever ended  *)
(* it, in whatever order the events came, however late the bridge is          *)
(* (end_stream, on_media_event, collect_final_media_events).                  *)
THEOREM EveryStreamIsAlwaysJudged == Spec => []EveryStreamIsJudged
  <1>1. ASSUME Inv, phase = "reported"
        PROVE  stats.ok + stats.failed + Cardinality(HeldBack) = Cardinality(audible)
    <2>1. streams = {} /\ events = <<>> /\ reports \in Seq(Happened)
      BY <1>1 DEF Inv, Phased, Typed
    <2>2. audible \ IdsOf(streams) = audible
      BY <2>1 DEF IdsOf
    <2>3. Tallied(events) = 0 /\ Tallied(reports) \in Nat
      BY <2>1, TalliedNone, JudgeablesAreFinite
    <2>4. HeldBack = Judgeables(reports)
      BY <2>1 DEF HeldBack, Judgeables
    <2>5. stats.ok + stats.failed + Waiting = Cardinality(audible)
      BY <1>1, <2>2 DEF Inv, Balanced
    <2>6. Waiting = Cardinality(HeldBack)
      BY <2>3, <2>4 DEF Waiting, Tallied
    <2> QED BY <2>5, <2>6
  <1>2. Inv => EveryStreamIsJudged
    BY <1>1 DEF EveryStreamIsJudged
  <1> QED BY <1>2, Invariance, PTL

-----------------------------------------------------------------------------
(* The rollover counter of SRTP (MediaSources).                             *)

CONSTANT SeqModulus
Srtp == INSTANCE MediaSources

\* The context stands at the index h: the number that was reached, rollovers counted.
StandsAt(context, h) ==
    /\ context = [roc |-> context.roc, highest |-> context.highest]
    /\ context.roc \in Nat /\ context.highest \in 0..SeqModulus - 1
    /\ h = context.roc * SeqModulus + context.highest

\* Two indices less than half the numbers apart are in the same round or in two that
\* follow one another.
LEMMA RoundsAreNear ==
    ASSUME NEW half \in Nat \ {0}, NEW p \in Nat, NEW q \in Nat,
           NEW r \in 0..2 * half - 1, NEW s \in 0..2 * half - 1,
           LET d == (q * (2 * half) + s) - (p * (2 * half) + r) IN d < half /\ -half < d
    PROVE  q \in {p - 1, p, p + 1}
  <1> DEFINE M == 2 * half
  <1>1. M \in Nat \ {0} /\ p * M \in Nat /\ q * M \in Nat /\ M = half + half
    OBVIOUS
  <1> HIDE DEF M
  <1>2. ASSUME q > p + 1 PROVE FALSE
    <2>1. PICK k \in Nat : q = p + 2 + k
      <3>1. q - p - 2 \in Nat /\ q = p + 2 + (q - p - 2)
        BY <1>2
      <3> QED BY <3>1
    <2>2. q * M = p * M + M + M + k * M /\ k * M \in Nat
      BY <1>1, <2>1
    <2> QED BY <1>1, <2>2 DEF M
  <1>3. ASSUME p > q + 1 PROVE FALSE
    <2>1. PICK k \in Nat : p = q + 2 + k
      <3>1. p - q - 2 \in Nat /\ p = q + 2 + (p - q - 2)
        BY <1>3
      <3> QED BY <3>1
    <2>2. p * M = q * M + M + M + k * M /\ k * M \in Nat
      BY <1>1, <2>1
    <2> QED BY <1>1, <2>2 DEF M
  <1> QED BY <1>2, <1>3

\* The index x in its round q, under its number s.
IndexIs(x, q, s) == q \in Nat /\ s \in 0..SeqModulus - 1 /\ x = q * SeqModulus + s

\* Less than half the numbers lie between the indices x and h.
AreNear(x, h, half) ==
    half \in Nat \ {0} /\ SeqModulus = half + half /\ x - h < half /\ h - x < half

LEMMA RoundAndNumber ==
    ASSUME SeqModulus \in Nat \ {0}, NEW x \in Nat
    PROVE  IndexIs(x, x \div SeqModulus, x % SeqModulus)
  BY DEF IndexIs

\* The context's guess of the round is right for what is within half the numbers.
LEMMA EstimateIsRight ==
    ASSUME NEW h \in Nat, NEW c, StandsAt(c, h), NEW x \in Nat, NEW half, AreNear(x, h, half),
           NEW q, NEW s, IndexIs(x, q, s)
    PROVE  Srtp!EstimateRoc(c, s) = q
  <1> DEFINE M == SeqModulus
             p == c.roc
             r == c.highest
  <1>1. M \in Nat \ {0} /\ M = 2 * half /\ M = half + half /\ M \div 2 = half
        /\ half \in Nat \ {0} /\ x - h < half /\ h - x < half
    BY DEF AreNear
  <1>2. q \in Nat /\ s \in 0..M - 1 /\ x = q * M + s
    BY DEF IndexIs
  <1>3. p \in Nat /\ r \in 0..M - 1 /\ h = p * M + r
    BY DEF StandsAt
  <1>4. Srtp!EstimateRoc(c, s) =
            IF r < half THEN IF s - r > half THEN p - 1 ELSE p
            ELSE IF s - r < -half THEN p + 1 ELSE p
    BY <1>1, <1>3 DEF Srtp!EstimateRoc, Srtp!Half, Srtp!NoSeq
  <1> HIDE DEF M, p, r
  <1>5. q \in {p - 1, p, p + 1}
    BY <1>1, <1>2, <1>3, RoundsAreNear
  <1>6. p * M \in Nat /\ q * M \in Nat
    BY <1>1, <1>2, <1>3
  <1>7. CASE q = p
    BY <1>1, <1>2, <1>3, <1>4, <1>6, <1>7
  <1>8. CASE q = p + 1
    <2>1. q * M = p * M + M
      BY <1>1, <1>3, <1>8
    <2> QED BY <1>1, <1>2, <1>3, <1>4, <1>6, <1>8, <2>1
  <1>9. CASE q = p - 1
    <2>1. p * M = q * M + M
      BY <1>1, <1>2, <1>3, <1>9
    <2> QED BY <1>1, <1>2, <1>3, <1>4, <1>6, <1>9, <2>1
  <1> QED BY <1>5, <1>7, <1>8, <1>9

\* A context that takes an index it reckoned right stands at the higher one.
LEMMA AdvanceStands ==
    ASSUME SeqModulus \in Nat \ {0}, NEW h \in Nat, NEW c, StandsAt(c, h), NEW x \in Nat,
           NEW q, NEW s, IndexIs(x, q, s)
    PROVE  StandsAt(Srtp!Advance(c, q, s), IF x > h THEN x ELSE h)
  <1>1. Srtp!Newer(c, q, s) <=> x > h
    BY DEF Srtp!Newer, Srtp!NoSeq, StandsAt, IndexIs
  <1>2. CASE x > h
    <2>1. Srtp!Advance(c, q, s) = [roc |-> q, highest |-> s]
      BY <1>1, <1>2 DEF Srtp!Advance
    <2>2. StandsAt([roc |-> q, highest |-> s], x)
      BY DEF StandsAt, IndexIs
    <2> QED BY <1>2, <2>1, <2>2
  <1>3. CASE ~(x > h)
    <2>1. Srtp!Advance(c, q, s) = c
      BY <1>1, <1>3 DEF Srtp!Advance
    <2> QED BY <1>3, <2>1
  <1> QED BY <1>2, <1>3

\* Whatever was lost or came out of order, and however often the sixteen bits of the
\* sequence numbers have rolled over: a packet less than half the numbers from the newest
\* before it is decrypted under the index it was encrypted with, and the receiver stands
\* at the newest of them; so is the first one, if it is of the sender's first round
\* (estimate_roc, advance, unprotect).
THEOREM PacketsAlwaysDecrypt ==
    ASSUME NEW half \in Nat \ {0}, SeqModulus = half + half, NEW x \in Nat
    PROVE  LET u(c) == Srtp!Unprotect(c, x % SeqModulus, x)
           IN  /\ x < SeqModulus => u(Srtp!Context).ok /\ StandsAt(u(Srtp!Context).context, x)
               /\ \A h \in Nat : \A c :
                     StandsAt(c, h) /\ x - h < half /\ h - x < half
                         => u(c).ok /\ StandsAt(u(c).context, IF x > h THEN x ELSE h)
  <1> DEFINE first == Srtp!Context
             u(c) == Srtp!Unprotect(c, x % SeqModulus, x)
             q == x \div SeqModulus
             s == x % SeqModulus
  <1>1. SeqModulus \in Nat \ {0, 1}
    OBVIOUS
  <1>2. IndexIs(x, q, s) /\ q \in Nat /\ s \in 0..SeqModulus - 1 /\ x = q * SeqModulus + s
    <2>1. IndexIs(x, q, s)
      BY <1>1, RoundAndNumber
    <2> QED BY <2>1 DEF IndexIs
  <1>3. ASSUME x < SeqModulus PROVE u(first).ok /\ StandsAt(u(first).context, x)
    <2>1. q = 0 /\ s = x
      BY <1>1, <1>3
    <2>2. first = [roc |-> 0, highest |-> Srtp!NoSeq]
      BY DEF Srtp!Context
    <2> HIDE DEF first, s
    <2>3. Srtp!EstimateRoc(first, s) = 0
      BY <2>2 DEF Srtp!EstimateRoc
    <2>4. Srtp!Advance(first, 0, s) = [roc |-> 0, highest |-> s]
      BY <2>2 DEF Srtp!Advance, Srtp!Newer
    <2>5. u(first) = [ok |-> TRUE, context |-> [roc |-> 0, highest |-> s]]
      BY <1>1, <1>2, <2>1, <2>3, <2>4 DEF Srtp!Unprotect, s
    <2>6. StandsAt([roc |-> 0, highest |-> s], x)
      BY <1>1, <1>2, <2>1 DEF StandsAt
    <2> HIDE DEF u
    <2> QED BY <2>5, <2>6
  <1>4. ASSUME NEW h \in Nat, NEW c, StandsAt(c, h), x - h < half, h - x < half
        PROVE  u(c).ok /\ StandsAt(u(c).context, IF x > h THEN x ELSE h)
    <2>0. AreNear(x, h, half)
      BY <1>4 DEF AreNear
    <2> HIDE DEF q, s
    <2>1. Srtp!EstimateRoc(c, s) = q
      BY <1>2, <1>4, <2>0, EstimateIsRight
    <2>2. StandsAt(Srtp!Advance(c, q, s), IF x > h THEN x ELSE h)
      BY <1>1, <1>2, <1>4, AdvanceStands
    <2> USE DEF s
    <2>3. u(c) = [ok |-> TRUE, context |-> Srtp!Advance(c, q, s)]
      BY <1>2, <2>1 DEF Srtp!Unprotect
    <2> HIDE DEF u
    <2> QED BY <2>2, <2>3
  <1> QED BY <1>3, <1>4

\* The packets a sender protects one after the other have the indices that follow one
\* another, over every rollover: no index keys two of them (protect).
THEOREM IndicesAlwaysFollow ==
    ASSUME NEW half \in Nat \ {0}, half > 1, SeqModulus = half + half
    PROVE  LET p(c, x) == Srtp!Protect(c, x % SeqModulus)
           IN  /\ p(Srtp!Context, 0).index = 0 /\ StandsAt(p(Srtp!Context, 0).context, 0)
               /\ \A h \in Nat : \A c : StandsAt(c, h) => /\ p(c, h + 1).index = h + 1
                                                          /\ StandsAt(p(c, h + 1).context, h + 1)
  <1> DEFINE first == Srtp!Context
             p(c, x) == Srtp!Protect(c, x % SeqModulus)
  <1>1. SeqModulus \in Nat \ {0, 1}
    OBVIOUS
  <1>2. p(first, 0).index = 0 /\ StandsAt(p(first, 0).context, 0)
    <2>1. 0 % SeqModulus = 0
      BY <1>1
    <2>2. first = [roc |-> 0, highest |-> Srtp!NoSeq]
      BY DEF Srtp!Context
    <2> HIDE DEF first
    <2>3. Srtp!EstimateRoc(first, 0) = 0
      BY <2>2 DEF Srtp!EstimateRoc
    <2>4. Srtp!Advance(first, 0, 0) = [roc |-> 0, highest |-> 0]
      BY <2>2 DEF Srtp!Advance, Srtp!Newer
    <2>5. p(first, 0) = [index |-> 0, context |-> [roc |-> 0, highest |-> 0]]
      BY <1>1, <2>1, <2>3, <2>4 DEF Srtp!Protect
    <2>6. StandsAt([roc |-> 0, highest |-> 0], 0)
      BY <1>1 DEF StandsAt
    <2> HIDE DEF p
    <2> QED BY <2>5, <2>6
  <1>3. ASSUME NEW h \in Nat, NEW c, StandsAt(c, h), NEW x \in Nat, x = h + 1
        PROVE  p(c, x).index = x /\ StandsAt(p(c, x).context, x)
    <2> DEFINE q == x \div SeqModulus
               s == x % SeqModulus
    <2>1. AreNear(x, h, half) /\ x > h
      BY <1>3 DEF AreNear
    <2>2. IndexIs(x, q, s)
      BY <1>1, RoundAndNumber
    <2> HIDE DEF q, s
    <2>3. Srtp!EstimateRoc(c, s) = q
      BY <1>3, <2>1, <2>2, EstimateIsRight
    <2>4. StandsAt(Srtp!Advance(c, q, s), x)
      <3>1. StandsAt(Srtp!Advance(c, q, s), IF x > h THEN x ELSE h)
        BY <1>1, <1>3, <2>2, AdvanceStands
      <3> QED BY <2>1, <3>1
    <2>5. p(c, x) = [index |-> x, context |-> Srtp!Advance(c, q, s)]
      <3>1. x = q * SeqModulus + s
        BY <2>2 DEF IndexIs
      <3> QED BY <2>3, <3>1 DEF Srtp!Protect, s
    <2> HIDE DEF p
    <2> QED BY <2>4, <2>5
  <1>4. ASSUME NEW h \in Nat PROVE h + 1 \in Nat
    OBVIOUS
  <1> HIDE DEF p
  <1> QED BY <1>2, <1>3, <1>4 DEF p
=============================================================================
