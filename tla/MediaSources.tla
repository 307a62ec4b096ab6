---------------------------- MODULE MediaSources ----------------------------
(***************************************************************************)
(* What the packets of a stream hold: the generated streams of             *)
(* crates/sipr-media/src/rtp.rs, the telephone events of dtmf.rs, and the  *)
(* rollover counter of srtp.rs.  Sequence numbers are modulo SeqModulus,   *)
(* 65536 in the code; a timestamp is a whole number, of 32 bits there.     *)
(***************************************************************************)
EXTENDS Integers, Sequences, SequencesExt, FiniteSets

CONSTANT SeqModulus

Forever == -1

-----------------------------------------------------------------------------
(* RtpSource.                                                              *)

RtpSource(data, loops, bytes, ticks) ==
    [data |-> data, bytes |-> bytes, step |-> ticks, cursor |-> 0, loops |-> loops,
     seq |-> 0, timestamp |-> 0, ticks |-> 0, paused |-> FALSE]
SetPaused(source, paused) == [source EXCEPT !.paused = paused]

Rewound(loops) == IF loops > 0 THEN loops - 1 ELSE loops

\* The payload of a packet, spliced across the end of the data: of what is still
\* needed, the place in the data and the loops left.
Splice(data, need, cursor, loops) ==
    LET splice[n \in 0..need, at \in 0..Len(data), rounds \in Int] ==
            LET take == IF n <= Len(data) - at THEN n ELSE Len(data) - at
                piece == SubSeq(data, at + 1, at + take)
                atEnd == at + take >= Len(data)
                left == IF atEnd THEN Rewound(rounds) ELSE rounds
                next == IF atEnd THEN 0 ELSE at + take
            IN  IF n = take \/ (atEnd /\ left = 0)
                THEN [payload |-> piece, cursor |-> next, loops |-> left]
                ELSE [splice[n - take, next, left] EXCEPT !.payload = piece \o @]
    IN  splice[need, cursor, loops]

\* next_packet: the source after one interval, and what it sends.
Packet(source, payload) == [seq |-> source.seq, timestamp |-> source.timestamp, payload |-> payload]
Nothing == << >>
NextPacket(source) ==
    LET ticked == [source EXCEPT !.ticks = @ + 1, !.timestamp = @ + source.step]
        spliced == Splice(source.data, source.bytes, source.cursor, source.loops)
    IN  IF source.loops = 0 \/ source.data = << >> THEN [source |-> source, is |-> "done", packet |-> Nothing]
        ELSE IF source.paused THEN [source |-> ticked, is |-> "silent", packet |-> Nothing]
        ELSE [source |-> [ticked EXCEPT !.seq = (@ + 1) % SeqModulus, !.cursor = spliced.cursor, !.loops = spliced.loops],
              is |-> "packet", packet |-> <<Packet(source, spliced.payload)>>]

-----------------------------------------------------------------------------
(* play_dtmf: a burst of packets that carry no event, then for each digit    *)
(* its packets and three that end it.  Times are milliseconds.             *)

NoopPackets == 20
PacketMs == 20
TimestampStart == 24000
DefaultTone == 200
Tone(ms) == IF ms \in 50..2000 THEN ms ELSE DefaultTone
Digits == {"1", "*"}
Frame(at, seq, timestamp, marker, event, duration, ends) ==
    [at |-> at, seq |-> seq % SeqModulus, timestamp |-> timestamp, marker |-> marker, event |-> event,
     duration |-> duration, ends |-> ends]

WarmUp(seq) ==
    [i \in 1..NoopPackets |-> Frame((i - 1) * PacketMs, seq + i - 1, TimestampStart + (i - 1) * PacketMs, FALSE, "none", 0, FALSE)]

\* The packets of the k-th event, from 0.
Pulses(tone) == (tone + PacketMs - 1) \div PacketMs
DigitFrames(digit, k, tone, seq) ==
    LET warm == NoopPackets * PacketMs
        from == warm + (k + 1) * tone * 2
        timestamp == TimestampStart + warm + k * tone * 2
    IN  [i \in 1..Pulses(tone) + 3 |->
            IF i <= Pulses(tone)
            THEN Frame(from + (i - 1) * PacketMs, seq + i - 1, timestamp, i = 1, digit, (i - 1) * PacketMs * 8, FALSE)
            ELSE Frame(from + tone + i - Pulses(tone), seq + i - 1, timestamp, FALSE, digit, tone * 8, TRUE)]

\* generate, of the characters that are digits; start_dtmf goes on with the sequence
\* number after the last.
Generate(digits, tone, seq) ==
    IF digits = << >> THEN << >>
    ELSE WarmUp(seq) \o FlattenSeq([k \in DOMAIN digits |->
            DigitFrames(digits[k], k - 1, Tone(tone), seq + NoopPackets + (k - 1) * (Pulses(Tone(tone)) + 3))])
Dtmf(value, tone, seq) ==
    LET frames == Generate(SelectSeq(value, LAMBDA c : c \in Digits), tone, seq)
    IN  [frames |-> frames, seq |-> (seq + Len(frames)) % SeqModulus]

-----------------------------------------------------------------------------
(* SrtpContext: the rollover counter and the highest number seen.          *)

NoSeq == -1
Context == [roc |-> 0, highest |-> NoSeq]
Half == SeqModulus \div 2

EstimateRoc(context, seq) ==
    IF context.highest = NoSeq THEN context.roc
    ELSE IF context.highest < Half
         THEN IF seq - context.highest > Half THEN context.roc - 1 ELSE context.roc
         ELSE IF seq - context.highest < -Half THEN context.roc + 1 ELSE context.roc

Newer(context, roc, seq) ==
    context.highest = NoSeq \/ roc * SeqModulus + seq > context.roc * SeqModulus + context.highest

Advance(context, roc, seq) == IF Newer(context, roc, seq) THEN [roc |-> roc, highest |-> seq] ELSE context

\* protect and unprotect: the index that keys the packet, and the context after; a
\* packet whose index is not the sender's does not authenticate and leaves no trace.
Protect(context, seq) ==
    LET roc == EstimateRoc(context, seq) IN [index |-> roc * SeqModulus + seq, context |-> Advance(context, roc, seq)]
Unprotect(context, seq, index) ==
    LET roc == EstimateRoc(context, seq)
    IN  IF roc * SeqModulus + seq = index THEN [ok |-> TRUE, context |-> Advance(context, roc, seq)]
        ELSE [ok |-> FALSE, context |-> context]

-----------------------------------------------------------------------------
(* Properties.                                                             *)

\* A source driven by "tick", "pause" and "resume", and what it sent.
Driven(source, inputs) ==
    FoldLeft(LAMBDA s, i :
                IF i # "tick" THEN [s EXCEPT !.source = SetPaused(@, i = "pause")]
                ELSE LET step == NextPacket(s.source)
                     IN  [source |-> step.source, packets |-> s.packets \o step.packet, done |-> step.is = "done"],
             [source |-> source, packets |-> << >>, done |-> FALSE], inputs)
PlaysItsLoops(data, loops, bytes, inputs) ==
    LET run == Driven(RtpSource(data, loops, bytes, 5), inputs)
        played == FlattenSeq([i \in DOMAIN run.packets |-> run.packets[i].payload])
        whole == loops * Len(data)
    IN  /\ \A i \in DOMAIN played : played[i] = data[((i - 1) % Len(data)) + 1]
        /\ loops # Forever => Len(played) <= whole /\ (run.done => Len(played) = whole)
        /\ \A i \in DOMAIN run.packets : /\ run.packets[i].seq = (i - 1) % SeqModulus
                                         /\ i < Len(run.packets) => Len(run.packets[i].payload) = bytes
                                         /\ i > 1 => run.packets[i].timestamp > run.packets[i - 1].timestamp

\* Bursts of a call one after the other.
Bursts(values, start) ==
    FoldLeft(LAMBDA s, v : LET b == Dtmf(v[1], v[2], s.seq) IN [seq |-> b.seq, frames |-> Append(s.frames, b.frames)],
             [seq |-> start, frames |-> << >>], values).frames
EventsOf(frames) == {frames[i].timestamp : i \in {j \in DOMAIN frames : frames[j].event # "none"}}
WellTimed(frames) ==
    /\ \A i \in DOMAIN frames : i > 1 => frames[i].at > frames[i - 1].at
    /\ \A i, j \in DOMAIN frames : i < j /\ frames[i].event # "none" /\ frames[i].timestamp = frames[j].timestamp =>
          frames[i].duration <= frames[j].duration /\ (frames[i].ends => frames[j].ends)
    /\ \A t \in EventsOf(frames) : LET own == {i \in DOMAIN frames : frames[i].event # "none" /\ frames[i].timestamp = t}
                                   IN  \E i \in own : frames[i].marker /\ \A j \in own \ {i} : j > i /\ ~frames[j].marker
BurstsAreWellFormed(values, start) ==
    LET bursts == Bursts(values, start)
        all == FlattenSeq(bursts)
    IN  /\ \A i \in DOMAIN all : all[i].seq = (start + i - 1) % SeqModulus
        /\ \A b \in DOMAIN bursts : WellTimed(bursts[b])
        /\ \A b \in DOMAIN bursts : Cardinality(EventsOf(bursts[b])) = Len(SelectSeq(values[b][1], LAMBDA c : c \in Digits))

\* A receiver that is given the packets of a sender at the indices that were not lost,
\* in some order, each within half the numbers of the highest before it.
Sent(n) == FoldLeft(LAMBDA s, i : LET p == Protect(s.context, (i - 1) % SeqModulus)
                                  IN  [context |-> p.context, index |-> Append(s.index, p.index)],
                    [context |-> Context, index |-> << >>], [i \in 1..n |-> i]).index
Highest(s) == IF s = << >> THEN 0 ELSE CHOOSE m \in Range(s) : \A x \in Range(s) : x <= m
InWindow(arrivals) ==
    \A i \in DOMAIN arrivals : IF i = 1 THEN arrivals[i] < SeqModulus
                               ELSE LET far == arrivals[i] - Highest(SubSeq(arrivals, 1, i - 1)) IN far < Half /\ far > -Half
AllDecrypt(arrivals) ==
    LET index == Sent(Highest(arrivals) + 1)
        run == FoldLeft(LAMBDA s, i : LET u == Unprotect(s.context, i % SeqModulus, index[i + 1])
                                      IN  [ok |-> s.ok /\ u.ok, context |-> u.context],
                        [ok |-> TRUE, context |-> Context], arrivals)
    IN  run.ok /\ \A i \in DOMAIN index : index[i] = i - 1
=============================================================================
