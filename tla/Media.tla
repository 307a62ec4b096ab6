------------------------------- MODULE Media -------------------------------
(***************************************************************************)
(* The media of the calls: crates/sipr-media/src/replay.rs and             *)
(* srtp_echo.rs, with the engine's side of them.  The engine binds a       *)
(* stream's sockets and hands it to the media thread over a channel of     *)
(* commands; the thread paces all streams, and reports over a channel of   *)
(* its own, which a bridge thread that nobody waits for forwards to the    *)
(* engine's, an event at a time.  Sends may block or fail                  *)
(* and the peer may echo or not; time is the choice of the streams that    *)
(* are due.  What a packet holds is MediaSources's.                        *)
(***************************************************************************)
EXTENDS MediaPorts, SequencesExt, FiniteSetsExt

CONSTANTS Calls,       \* 1..n, by number
          Scripts,     \* what the scenario of each does: "render" a port, "echo", "pause"
          Sources,     \* what scenarios play: tag, generated, offsets, packets
          AutoPort,    \* whether the scenario's SDP says [auto_media_port]
          Base,        \* -mp
          MaxRtpPort,  \* -max_rtp_port
          Kinds,       \* "audio" and "video": what the scenarios use of them
          MaxPlays, MaxQueue, MaxBurst, MaxSent, MaxOthers   \* bounds

Forever == -1
Free == 0          \* no port

ASSUME MediaAssumption ==
    /\ Calls \subseteq Nat \ {0} /\ Scripts \in [Calls -> SUBSET {"render", "echo", "pause"}] /\ Base \in Nat \ {0} /\ MaxRtpPort \in Nat
    /\ AutoPort \in BOOLEAN /\ Kinds \subseteq {"audio", "video"}
    /\ Sources \subseteq [tag : {"rtp-audio", "rtp-video", "audio", "video"}, generated : BOOLEAN,
                          offsets : SUBSET Nat, packets : Nat \cup {Forever}]
    /\ {MaxPlays, MaxQueue, MaxBurst, MaxSent, MaxOthers} \subseteq Nat

VARIABLES
    calls,     \* state and the ports given to the call
    nextPort,  \* next_rtp_port
    echoes,    \* call_echoes: the port of each echo that runs
    queue,     \* the commands on their way
    thread,    \* "receiving", "pumping" or "ended"
    streams,   \* the streams in flight
    due,       \* the heap: ids of streams
    round,     \* the ids popped so far in this pass are no longer in it
    reports,   \* the media thread's events, on their way to the bridge
    events,    \* those that the bridge has forwarded, on their way to the engine
    stats,     \* rtp_streams_started, rtp_check_ok, rtp_check_failed
    phase,     \* "running", "joining", "collecting" or "reported"
    quiet,     \* quiet_rounds
    others,    \* events of other kinds that arrived while collecting
    audible    \* history: generated streams that sent something

engineVars == <<calls, nextPort, echoes, stats>>
endVars == <<phase, quiet, others>>
threadVars == <<thread, streams, due, round, audible>>
channels == <<reports, events>>
vars == <<engineVars, endVars, threadVars, queue, channels>>

-----------------------------------------------------------------------------

KindOf(tag) == IF tag \in {"rtp-video", "video"} THEN "video" ELSE "audio"

PortsOf(stream) == {stream.port + o : o \in stream.source.offsets}
Plays == {queue[i] : i \in {j \in DOMAIN queue : queue[j].do = "play"}}
Bound == (UNION {PortsOf(s) : s \in streams}) \cup (UNION {PortsOf(p.stream) : p \in Plays})
            \cup {echoes[e] : e \in DOMAIN echoes}

Command(do, call, tag, paused, stream) ==
    [do |-> do, call |-> call, tag |-> tag, paused |-> paused, stream |-> stream]
All == "all"       \* no tag
NoSource == [tag |-> All, generated |-> FALSE, offsets |-> {}, packets |-> 0]
NoStream == [id |-> 0, call |-> 0, source |-> NoSource, port |-> 0, left |-> 0, paused |-> FALSE, sent |-> 0, failed |-> 0]

Selects(cmd, s) == s.call = cmd.call /\ cmd.tag \in {All, s.source.tag}

Init ==
    /\ calls = [c \in Calls |-> [is |-> "new", port |-> [k \in Kinds |-> Free]]]
    /\ nextPort = Base
    /\ echoes = << >>
    /\ queue = << >> /\ reports = << >> /\ events = << >>
    /\ thread = "receiving" /\ streams = {} /\ due = {} /\ round = {}
    /\ stats = [started |-> 0, ok |-> 0, failed |-> 0]
    /\ phase = "running" /\ quiet = 0 /\ others = 0
    /\ audible = {}

-----------------------------------------------------------------------------
(* The engine's side.                                                      *)

Live(c) == phase = "running" /\ calls[c].is = "live"
Sends(cmd) == Len(queue) < MaxQueue /\ queue' = Append(queue, cmd)

OpenCall(c) ==
    /\ phase = "running" /\ calls[c].is = "new"
    /\ calls' = [calls EXCEPT ![c].is = "live"]
    /\ UNCHANGED <<nextPort, echoes, stats, endVars, threadVars, queue, channels>>

\* allocate_rtpstream_ports.
RenderPort(c, kind) ==
    /\ Live(c) /\ "render" \in Scripts[c] /\ calls[c].port[kind] = Free
    /\ calls' = [calls EXCEPT ![c].port[kind] = nextPort]
    /\ nextPort' = PortAfter(nextPort, Base, MaxRtpPort)
    /\ UNCHANGED <<echoes, stats, endVars, threadVars, queue, channels>>

\* The port that the SDP advertised for a kind (media_port_value).
MediaPort(c) == MediaPortValue(Base, AutoPort, 0, c)
AllocatedPort(c, kind) == IF kind \in Kinds /\ calls[c].port[kind] # Free THEN calls[c].port[kind] ELSE MediaPort(c)
LocalPort(c, source) == IF source.generated THEN AllocatedPort(c, KindOf(source.tag)) ELSE MediaPort(c)

\* start_rtp_stream, start_pcap and start_dtmf, and MediaPlayer::play: without an
\* endpoint from the peer's SDP nothing happens; the sockets are bound here, all of
\* them or none.
NewStream(c, source) ==
    [NoStream EXCEPT !.id = stats.started + 1, !.call = c, !.source = source, !.port = LocalPort(c, source),
                     !.left = source.packets]
CanBind(stream) == PortsOf(stream) \cap Bound = {}
Play(c, source) ==
    LET stream == NewStream(c, source)
    IN  /\ Live(c)
        /\ stats.started < MaxPlays
        /\ CanBind(stream)
        /\ Sends(Command("play", c, source.tag, FALSE, stream))
        /\ stats' = [stats EXCEPT !.started = @ + 1]
        /\ UNCHANGED <<calls, nextPort, echoes, endVars, threadVars, channels>>

\* on_rtp_stream: pauseapattern and the like.
PauseRtp(c, tag, paused) ==
    /\ Live(c) /\ "pause" \in Scripts[c]
    /\ Sends(Command("pause", c, tag, paused, NoStream))
    /\ UNCHANGED <<engineVars, endVars, threadVars, channels>>

\* on_rtp_echo: a start or an update replaces the echo that runs, freeing its
\* port first, because stop joins the echo's thread.
EchoStarts(c, kind) ==
    LET rest == Restrict(echoes, DOMAIN echoes \ {<<c, kind>>})
        port == AllocatedPort(c, kind)
        taken == port \in Bound /\ ~(<<c, kind>> \in DOMAIN echoes /\ echoes[<<c, kind>>] = port)
    IN  /\ Live(c) /\ "echo" \in Scripts[c]
        /\ echoes' = IF taken THEN rest ELSE [e \in DOMAIN rest \cup {<<c, kind>>} |-> IF e = <<c, kind>> THEN port ELSE rest[e]]
        /\ UNCHANGED <<calls, nextPort, stats, endVars, threadVars, queue, channels>>
EchoStops(c, kind) ==
    /\ Live(c)
    /\ echoes' = Restrict(echoes, DOMAIN echoes \ {<<c, kind>>})
    /\ UNCHANGED <<calls, nextPort, stats, endVars, threadVars, queue, channels>>

\* stop_media, in remove_call.
EchoesWithout(c) == Restrict(echoes, {e \in DOMAIN echoes : e[1] # c})
EndCall(c) ==
    /\ Live(c)
    /\ calls' = [calls EXCEPT ![c].is = "ended"]
    /\ queue' = Append(queue, Command("stop", c, All, FALSE, NoStream))
    /\ echoes' = EchoesWithout(c)
    /\ UNCHANGED <<nextPort, stats, endVars, threadVars, channels>>

\* on_media_event: a stream that sent something is judged by its tolerance, here
\* the default of 1.0.
Judgeable(e) == e.is = "check" /\ e.sent # 0
Judged(e) ==
    IF ~Judgeable(e) THEN stats
    ELSE IF e.failed >= e.sent THEN [stats EXCEPT !.failed = @ + 1] ELSE [stats EXCEPT !.ok = @ + 1]
TakeEvent ==
    /\ phase = "running" /\ events # << >>
    /\ stats' = Judged(Head(events))
    /\ events' = Tail(events)
    /\ UNCHANGED <<calls, nextPort, echoes, endVars, threadVars, queue, reports>>

\* A mutant of Dismissed: the thread is joined without a word.
DismissedSilently == queue

\* Drop of MediaPlayer.
Dismissed == Append(queue, Command("shutdown", 0, All, FALSE, NoStream))

\* The run ends, with or without its calls, and drops the player: a command, and a
\* join that blocks the engine.
DropPlayer ==
    /\ phase = "running" /\ phase' = "joining"
    /\ queue' = Dismissed
    /\ UNCHANGED <<engineVars, quiet, others, threadVars, channels>>
Join ==
    /\ phase = "joining" /\ thread = "ended"
    /\ phase' = "collecting"
    /\ UNCHANGED <<engineVars, quiet, others, threadVars, queue, channels>>

\* A mutant of Collects: what comes after the join is not judged.
CollectsNothing(e) == stats

\* collect_final_media_events: until three quiet rounds.
Collects(e) == IF e.is = "other" THEN stats ELSE Judged(e)
Collect ==
    /\ phase = "collecting" /\ events # << >>
    /\ stats' = Collects(Head(events))
    /\ quiet' = IF Head(events).is = "other" THEN quiet ELSE 0
    /\ events' = Tail(events)
    /\ UNCHANGED <<calls, nextPort, echoes, phase, others, threadVars, queue, reports>>
\* A round is quiet after 50 ms in which nothing came: the bridge may be as late.
QuietRound ==
    /\ phase = "collecting" /\ events = << >> /\ quiet < 3
    /\ quiet' = quiet + 1
    /\ phase' = IF quiet' = 3 THEN "reported" ELSE phase
    /\ UNCHANGED <<engineVars, others, threadVars, queue, channels>>

Event(is, s) == [is |-> is, call |-> s.call, tag |-> s.source.tag, sent |-> s.sent, failed |-> s.failed]

\* A packet of a peer, a timer: what else the engine's channel brings.
OtherArrives ==
    /\ phase = "collecting" /\ others < MaxOthers
    /\ others' = others + 1
    /\ events' = Append(events, Event("other", NoStream))
    /\ UNCHANGED <<engineVars, phase, quiet, threadVars, queue, reports>>

-----------------------------------------------------------------------------
(* The media thread.                                                       *)

\* end_stream: a generated stream reports its tally.
TalliesOf(ended) ==
    SetToSeq({Event("check", s) : s \in {t \in ended : t.source.generated}})

\* A mutant of Replaced: a play takes the place of all of the call's streams' ports
\* but leaves the streams.
ReplacedNone(new) == {}

\* apply: what a command makes of the streams.
Paced(s, cmd) == IF Selects(cmd, s) /\ s.source.generated THEN [s EXCEPT !.paused = cmd.paused] ELSE s
Replaced(new) == {s \in streams : s.call = new.call /\ s.source.tag = new.source.tag}
Apply(cmd) ==
    CASE cmd.do = "play" ->
            /\ streams' = (streams \ Replaced(cmd.stream)) \cup {cmd.stream}
            /\ due' = due \cup {cmd.stream.id}
            /\ reports' = reports \o TalliesOf(Replaced(cmd.stream))
            /\ thread' = thread
      [] cmd.do = "stop" ->
            /\ streams' = {s \in streams : ~Selects(cmd, s)}
            /\ reports' = reports \o TalliesOf({s \in streams : Selects(cmd, s)})
            /\ UNCHANGED <<due, thread>>
      [] cmd.do = "pause" ->
            /\ streams' = {Paced(s, cmd) : s \in streams}
            /\ UNCHANGED <<due, reports, thread>>
      [] cmd.do = "shutdown" ->
            /\ streams' = {} /\ due' = {}
            /\ reports' = reports \o TalliesOf(streams)
            /\ thread' = "ended"

\* run: commands come before packets, all that are there.
Receive ==
    /\ thread = "receiving" /\ queue # << >>
    /\ Apply(Head(queue))
    /\ queue' = Tail(queue)
    /\ UNCHANGED <<engineVars, endVars, round, audible, events>>
Wake ==
    /\ thread = "receiving" /\ queue = << >>
    /\ thread' = "pumping"
    /\ round' \in SUBSET due \ {{}}
    /\ UNCHANGED <<engineVars, endVars, streams, due, queue, channels, audible>>
EndRound ==
    /\ thread = "pumping" /\ round = {}
    /\ thread' = "receiving"
    /\ UNCHANGED <<engineVars, endVars, streams, due, round, queue, channels, audible>>
Stale(id) ==
    /\ thread = "pumping" /\ id \in round /\ \A s \in streams : s.id # id
    /\ round' = round \ {id} /\ due' = due \ {id}
    /\ UNCHANGED <<engineVars, endVars, thread, streams, queue, channels, audible>>

\* The streams that pumping s may leave: n packets, of which f were not echoed as
\* they were sent.  A generated packet that blocks is lost, a captured one is kept.
Took(s, n) == IF s.left = Forever THEN Forever ELSE s.left - n
Burst(s, n, f) == [s EXCEPT !.sent = @ + n, !.failed = @ + f, !.left = Took(s, n)]
Bursts(s) ==
    {Burst(s, n, f) : n \in {m \in 0..MaxBurst : /\ s.left = Forever \/ m <= s.left
                                                 /\ s.paused => m = 0
                                                 /\ s.sent + m <= MaxSent},
                      f \in 0..(IF s.source.generated THEN MaxBurst ELSE 0)}
Sane(s, t) == t.failed - s.failed <= t.sent - s.sent
More(t) == t.left # 0 /\ ~t.paused
Blocked(t) == IF t.source.generated THEN [t EXCEPT !.left = Took(t, 1)] ELSE t

\* Mutants of Rescheduled and of Ending: a stream that blocks is not put back; one
\* that ends reports twice; one that fails does not report.
RescheduledUnlessBlocked(t, blocked) == IF blocked THEN due \ {t.id} ELSE due
EndingTwice(t, how) == TalliesOf({t}) \o TalliesOf({t}) \o <<Event(how, t)>>
Rescheduled(t, blocked) == due
Ending(t, how) == TalliesOf({t}) \o <<Event(how, t)>>

Pumps(id) == thread = "pumping" /\ id \in round
Heard(t) == audible' = IF t.source.generated /\ t.sent > 0 THEN audible \cup {t.id} ELSE audible
GoOn(s) ==
    /\ \E t \in {u \in Bursts(s) : Sane(s, u)} : \E blocked \in {FALSE} \cup {b \in {TRUE} : More(t)} :
          /\ streams' = (streams \ {s}) \cup {IF blocked THEN Blocked(t) ELSE t}
          /\ due' = Rescheduled(t, blocked)
          /\ Heard(t)
    /\ reports' = reports
EndStream(s, how) ==
    /\ \E t \in {u \in Bursts(s) : Sane(s, u)} :
          /\ IF how = "finished" THEN t.left = 0 ELSE More(t)
          /\ reports' = reports \o Ending(t, how)
          /\ Heard(t)
    /\ streams' = streams \ {s}
    /\ due' = due \ {s.id}
Pump(id) ==
    /\ Pumps(id)
    /\ \E s \in streams :
          /\ s.id = id
          /\ GoOn(s) \/ EndStream(s, "finished") \/ EndStream(s, "failed")
    /\ round' = round \ {id}
    /\ UNCHANGED <<engineVars, endVars, thread, queue, events>>

-----------------------------------------------------------------------------
(* The bridge.                                                             *)

\* It forwards until the engine is gone.
Forward ==
    /\ phase # "reported" /\ reports # << >>
    /\ events' = Append(events, Head(reports))
    /\ reports' = Tail(reports)
    /\ UNCHANGED <<engineVars, endVars, threadVars, queue>>

-----------------------------------------------------------------------------

EngineSteps ==
    \/ \E c \in Calls : \/ OpenCall(c) \/ EndCall(c)
                        \/ \E s \in Sources : Play(c, s)
                        \/ \E k \in Kinds : RenderPort(c, k) \/ EchoStarts(c, k) \/ EchoStops(c, k)
                        \/ \E b \in BOOLEAN : PauseRtp(c, "rtp-audio", b)
    \/ DropPlayer
Ids == 1..MaxPlays
ThreadSteps == Receive \/ Wake \/ EndRound \/ \E id \in Ids : Stale(id) \/ Pump(id)
FinalSteps == Join \/ Collect \/ QuietRound
Next == EngineSteps \/ TakeEvent \/ FinalSteps \/ OtherArrives \/ ThreadSteps \/ Forward

Spec == /\ Init /\ [][Next]_vars
        /\ WF_vars(ThreadSteps) /\ WF_vars(FinalSteps)

-----------------------------------------------------------------------------

\* Every variable has its type.
TypeOK ==
    /\ calls \in [Calls -> [is : {"new", "live", "ended"}, port : [Kinds -> Nat]]]
    /\ thread \in {"receiving", "pumping", "ended"} /\ phase \in {"running", "joining", "collecting", "reported"}
    /\ round \subseteq due /\ due \subseteq Ids /\ audible \subseteq Ids
    /\ \A s \in streams : /\ s.id \in Ids /\ s.call \in Calls /\ s.source \in Sources
                          /\ s.left \in Nat \cup {Forever} /\ s.failed <= s.sent /\ s.sent <= MaxSent
    /\ stats.ok + stats.failed <= stats.started /\ quiet \in 0..3

\* A call plays at most one stream of a tag (apply: a new play replaces the old).
OneStreamPerTag == \A s, t \in streams : s.call = t.call /\ s.source.tag = t.source.tag => s = t

\* A stream in flight is in the heap, or nothing would ever send its packets (run).
StreamsAreScheduled == \A s \in streams : s.id \in due

\* A call that ended holds no echo, and no stream that a stop on its way will not
\* end (stop_media).
StopAhead(c, from) == \E i \in from..Len(queue) : queue[i].do \in {"stop", "shutdown"} /\ queue[i].call \in {0, c}
EndedCallsHoldNothing ==
    \A c \in Calls : calls[c].is = "ended" =>
        /\ \A e \in DOMAIN echoes : e[1] # c
        /\ (\E s \in streams : s.call = c) => StopAhead(c, 1)
        /\ \A i \in DOMAIN queue : queue[i].do = "play" /\ queue[i].call = c => StopAhead(c, i + 1)

\* Streams are kept exactly while their calls want them, and are scheduled meanwhile.
StreamsAreKept == TypeOK /\ OneStreamPerTag /\ StreamsAreScheduled /\ EndedCallsHoldNothing

\* When the report is made, every generated stream that sent something was judged,
\* once, but for the tallies that the bridge holds back: none is lost with the
\* stream's end, with the thread's, or between the last call and the report
\* (end_stream, on_media_event, collect_final_media_events).
HeldBack == {i \in DOMAIN reports : Judgeable(reports[i])}
EveryStreamIsJudged ==
    phase = "reported" => stats.ok + stats.failed + Cardinality(HeldBack) = Cardinality(audible)

\* A run that ends its media reports, however many streams there are, when the peers
\* fall silent (Drop of MediaPlayer, collect_final_media_events).
ReportComes == phase = "joining" ~> phase = "reported"
=============================================================================
