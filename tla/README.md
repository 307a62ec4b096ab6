# sipr in TLA+

sipr is a SIP traffic generator: it executes XML scenarios (SIPp's) for many
calls at once, over UDP, TCP, TLS, WebSocket and SCTP, as client, as server or
as a third-party controller. One engine thread owns all calls and takes the
events of one channel; the sockets' readers, the timer thread, the pacer, the
media thread's bridge, the control channel and the twin's readers send into it.
This directory models the parts of the program where the order of those events
matters, and the algorithms whose inputs nobody wrote a test for; TLC checks
the models, and TLAPS proves the invariants of the state machines for instances
of any size.

## 1. Inventory

| Component (source) | State | Operations | What makes it correct |
|---|---|---|---|
| Timer service (`sipr-net/src/timer.rs`) | heap, tombstones, `wakes_at`, `shutdown`; the driver's sleep | arm, cancel, drop; the driver's look, send, wait | no wakeup or shutdown lost; a timer fires once, in time, in order, not after its cancellation |
| Receive window (`sipr-engine/src/engine.rs`, `scan_for_match`) | none | match a message against a scenario | the step found is the one the window's rules name |
| Call execution (`engine.rs`, `advance` ... `fail_call`) | `CallState`: index, waiting, timers, generation, deadlines | one step of the scenario; a message, a timer's fire, a twin's command, a lost connection | no timer is orphaned, no wait untimed, no stale fire acted on, a call that completes is left alone, what is interrupted is resumed, every call ends |
| Retransmission schedule (`retrans.rs`) | attempts so far | the next interval, or giving up | as often as the caps allow, at T1's doubled instants |
| Call pool and run loop (`engine.rs`, `run_loop`; `tdm.rs`) | the call table, user ids, circuits, counts, `paused`, `soft_stopping`, `hard_stop` | pacer tick, refill, caps, requests to stop, set users | ids and circuits neither shared nor lost; caps hold; the counts agree whichever way calls end; the run stops when asked, with every call reported |
| Connections (`engine.rs`, `send_for_call`, `on_disconnected`, `apply_setdest`) | `mono_conn_invalid`, `pending_reset`, `reconnects_left`, the socket pool, each call's socket | send, dial, reset, disconnect, setdest | each call is counted, a loss is noticed, no call stays on a dead connection, sockets stay within the cap |
| Stream transports (`tcp.rs`, `tls.rs`, `ws.rs`, `sctp.rs`) | the connection table, a reader per connection | dial, accept, read, write, close | messages are cut where they were joined; an end is reported once, last |
| Twin channels (`twin.rs`) | links, partial frames | connect, frame, send | commands are neither split nor merged |
| Media (`sipr-media/src/replay.rs`, `echo.rs`, `srtp_echo.rs`; `engine.rs`) | streams in flight, the heap of due ones, commands and events on their way, the calls' ports | play, replace, pause, stop, end; collecting at the end of a run | one stream of a tag per call, none of an ended call, each judged once, the report comes |
| RTP, DTMF, SRTP, SDP (`rtp.rs`, `dtmf.rs`, `srtp.rs`, `sdp.rs`; `engine.rs`) | sequence numbers, rollovers, keys | next packet, protect, unprotect, offer, answer | loops without a gap; late packets decrypt; both sides end with the same keys |
| Statistics (`sipr-stats`) | counters, their periods, tables, buffered rows, the rotated files | count, dump, snapshot, reset, rotate | periods add up; tables follow samples; rows have their header's columns; the latest files are kept |
| Scenario compiler and lints (`compile.rs`, `lint.rs`) | labels, transactions, variables seen so far | compile an element, resolve, lint | branches land where they say; what is called unreachable is |
| Templates, rendering, parser (`template.rs`, `render.rs`, `message.rs`) | dynamic ids | tokenize, render, parse, rebuild | lengths are true; headers end; a rebuilt message reads the same |
| Regular expressions (`regex.rs`) | captures | compile, match | what a leftmost-first backtracker finds |
| Actions, variables, injection files (`actions.rs`, `vars.rs`, `inject.rs`) | tables of the run, the users and the calls; rows and their index | each action; insert, replace, look up; a call's lines | a read sees the last write of that name; a lookup follows the rows |
| Authentication (`sipr-auth`) | AKA's sequence number | challenge, answer, verify, resynchronise | an answer verifies; a resynchronisation converges |
| Control channel, terminal, command line, exec, UDP sockets | - | text to commands and back; system calls | not modelled, see section 6 |

What is hard: the engine is sequential, but what it reacts to is not. A fire
stays in the channel after its timer was cancelled; a message, a timeout, a
command and a disconnection of one call arrive in any order; the handlers are
long and call one another (a step that fails ends the call inside the loop that
opened it; a failed send fails its call, resets the connection and closes other
calls); a request to stop is a flag that each place which opens calls has to
honour by itself; the timer thread's lock is given up while it sleeps; and the
media thread is still sending when the engine counts what it sent.
`PROJECT.json` lists each such hazard at its line.

## 2. Modules

State machines:

| Module | Models | Composes |
|---|---|---|
| `TimerQueue` | the pure queue: entries, tombstones, `pop_due`, `next_deadline` | |
| `TimerContract` | what the timer service promises (abstract) | |
| `TimerService` | the mutex, the condition variable, the driver thread and the engine's calls; implements `TimerContract` | `TimerQueue`, `TimerContract` |
| `CallMachine` | one Call-ID's calls, from opening to removal | `RecvWindow`, `StepFlow` |
| `CallPool` | which calls are opened and how the run ends | |
| `StreamTransport` | connections, their readers, the events they report | |
| `Connections` | the engine's use of them | `StreamTransport` |
| `Media` | the engine's and the media thread's steps | `MediaPorts` |
| `Statistics` | counters, dumps, snapshots, resets, the ring of rotated files | |
| `StreamSession` | two ends of a byte stream, read in pieces of any size | `StreamFraming` (the readers) |

Pure algorithms, each with operators that state what it ought to yield:
`RecvWindow` (the scan), `StepFlow` (where steps lead), `RetransSchedule`,
`TdmMap`, `ScenarioActions` and `ScenarioCompiler` (reference:
`ScenarioReference`), `ScenarioLint` (reference: `StepFlow`), `Templates`,
`Rendering`, `Inbound`, `Regex` (reference: `RegexReference`),
`CallActions` and `Injection` (reference: `ActionsReference`), `MediaPorts`,
`MediaSources`, `SessionDescription`, `Digest`.

Proofs: `TimerServiceProofs`, `CallPoolProofs`, `CallMachineProofs`, `StepFlowProofs`,
`ConnectionsProofs`, `StatisticsProofs`, `MediaProofs`, `ScenarioProofs`. Instances for TLC: `MCCall`
(scenarios and their peers), `MCConnections` (command lines), `MCScenario`
(vocabularies of elements), `MCStatistics`, `MCMedia`, `MCReferences` with
`MCStreamCases` (inputs of the pure algorithms); `TimerService` and `CallPool` are
checked as they are, their instances being bounds and modes that the `.cfg` files give.

A name that begins a comment with "A mutant of" is a plausible bug in the
definition after it; it belongs to no specification, and shows that the
property it is listed with in `PROJECT.json` notices that bug. Its map names the
definitions that translate code; shorthands, absent values and helpers whose lines
another row names too have no row of their own.

### TimerService

The engine's thread is `epc` (`idle`, about to `notify`, `dropping`, in `join`,
`gone`), the driver's is `pc` (`look`, `send` with the mutex held, `asleep`,
`done`). Every critical section is an action, except the driver's: it reads the
clock (`lookedAt`), sends what is due one entry at a time, and computes its
timeout from that old reading, so that `overshoot` time may pass before it
sleeps. A notification to a driver that does not sleep is lost, and a driver may
wake for no reason. `queue` holds the record of `TimerQueue`'s fields.

### CallMachine

`call` is the `CallState` of the one Call-ID followed, with the fields its
control depends on: `waiting`, `awaiting_cmd`, `completing`, `generation`, the
handles `timer` and `retrans`, whether `recv_deadline` is set, the step of
`pause_deadline`, `last_recv_key`, the INVITE's number, the transactions, and
`_unexp.retaddr` and `_unexp.pausedaddr`. `running` says that the engine is
inside `advance`; each of the loop's turns is one `Run...` action. `events` is
the channel, `armed` the timers the timer service still holds: `Fire` moves a
timer from one to the other, at any time after it was armed (durations belong to
the scenario), and cancelling removes it from `armed` only. A handler takes the
head of `events`. An unexpected message that jumps to `_unexp.main` stays there while the
handler's steps run, and is offered to where they rest, as `on_packet` offers it again.

What an action of the scenario (regular expressions, variables, `exec`) comes to
is a choice here: the step goes on, or fails the call (`fails`), and which of its
jumps comes last is one too; `CallActions` says which. Whether it jumps is not: a step
with a jump to a message (`jump`), or to the one that `_unexp.retaddr` holds
(`returns`), takes it, and `<pauserestore>` (`restores`) leaves a pause that `advance`
serves before the next step it comes to. A probability or a variable in
`next`, `condexec`, `lost=` and the failure of a send are choices too. Left out:
the bytes of answers (an answer sent again to a repeated message changes nothing
here), the abort messages.

`StepFlow` says where a step leads (`Onto`, `WaitsOn`, `PassesOver`, `Timeouts`)
and which messages an unexpected one may interrupt (`Marks`); `Reached` is the
closure of both from the first step and the handler, `CallsStayOnTheirPath` that no
order of events takes a call elsewhere. A scenario that jumps to where a variable of
its own says (`computed`) may go anywhere, and the property says nothing of it.

### CallPool

A call is a record of its user id, its circuit and whether it runs the secondary
scenario. `phase` is where `run_loop` is: `refill` (`refill_users`), `top` (the
loop's head), `event`, `place` (the calls of a pacer tick), `failing`
(`fail_all`, one call at a time), `done`. `Outcomes` says what a call may come
to while it is opened: it lives, ends at once, or its first action stops the
run. What a call does later is `CallEnds` at any event, or `CallIsPinged`. `created`
and `ended` are the counts of the report, the latter all that is successful or failed;
`aside` is a history variable for what the code leaves out of the one or the other:
calls that were live when `reset stats` zeroed them, calls that found no circuit and
fail without being created (`Refused`), calls that a PING removes. The float credit of the pacer is a
choice of a number of calls per tick. `mode` (rate, `-users`, server, a twin's
commands) is chosen once, in `Init`, from the constant `Modes`.

### StreamTransport and Connections

`sys.link[k]` is connection `k`: its two ends' state, its peer, its local port,
its reader thread, what the peer sent that was not read; `sys.table` is the
transport's map by peer, `sys.events` the engine's channel. A reader takes what
arrived one message at a time, reports a violation of the framing or the end
once, and is joined by nobody. Connections are numbered in the order in which
they are opened, so the pool, which the code keeps as a list, is a set. The
engine's handlers call one another (a failed send fails its call, whose abort
message may fail too), so they are operators from a state to the set of states
they may leave; an action applies one to the head of the channel. `cfg` is the
command line: shared, pooled or per-call sockets, `-max_socket`,
`-max_reconnect`, `-reconnect_close`, `-sendbuffer_warn`, `-lost`, a scenario
with `setdest`, a server with `-rsa`. A dial may be refused, and a peer may close
cleanly, reset, or break the framing at any time. When a lost
connection or a send error ends the run, all calls are failed (`FailsAll`), but the turn that
ends it goes on: it may open further calls, and these act until the next one is
opened (`Acts`). `end` is the history of it: the `late` calls, the one whose `turn` it is, and
the `guilty` ones, whose own failure ended the run.

### Media

`calls`, `nextPort`, `echoes`, `stats` are the engine's; `queue` the commands on
their way to the thread; `streams`, `due` (the heap), `round` (what was popped
in this pass) the thread's; `reports` what it sends to the bridge, `events` what the bridge
has sent on (`Forward`) to the engine. A pass of the thread pumps
each due stream: a packet is sent, blocked or failed, and the peer may answer.
When a stream is due is a choice. `DropPlayer`, `Join`, `Collect` and
`QuietRound` are the end of the run: `collect_final_media_events` waits for
three rounds of 50 ms in which nothing arrives. The thread is joined, the bridge is not: a
round may be quiet, and the report made, while the bridge holds something back.

### Statistics

`stats` holds a `StatSet` per scenario; a dump writes each counter's growth
since the last one, and `files` adds up what was written since the last reset.
A duration is its class in the table. `log` is the error log with its rotated
files, a row being its number.

### Pure algorithms

Text is a sequence of tokens, and a token is what the algorithm tells apart: in
`Templates` a bracket or a keyword, in `Inbound` a line end, a colon or a word,
in `Rendering` a run of bytes. Keys, hashes and Milenage's functions are terms,
equal when their arguments are. `StreamFraming`'s units are the smallest pieces
a read can separate that matter; `StreamSession` reads them in every split.
`MCReferences` builds every sequence of up to so many pieces per topic, and each
topic's properties say what the algorithm ought to make of it.

## 3. Runs

| Run | Instance | Shows |
|---|---|---|
| `timer_service` | three timers, three instants | no lost wakeup or shutdown; the refinement of `TimerContract`; timers fire and `Drop` returns |
| `call_client` | a controller's client call of 20 steps: timeouts with and without a label, pauses, named transactions, `condexec`, the twin's commands, a jump to `_unexp.main` and back | `TimersFollowWaits`: no timer orphaned, no wait untimed, no call forgotten; the scenario's paths; stale fires; a pause that was interrupted is the one that is resumed; every call ends |
| `call_server` | a Call-ID used twice, an optional receive that resumes its wait, connections that close | no stale fire is taken while dead calls are remembered; a timewait is left alone until it ends (`TimewaitIsQuiet`) |
| `pool_users` | `-users` 2, raised to 3 and lowered to 1, secondary calls | ids neither shared nor lost, the population holds |
| `pool_open` | the pacer, a server, a twin's commands; `-l` 1 and 2, `-m` 3, two circuits, every request to stop | caps, circuits, counts through `reset stats`, refused calls and PINGs, no call abandoned, a stop is honoured |
| `pool_turns` | the closed loop, three ids | each free user id gets its turn |
| `connections` | two calls, three connections, two ports, 13 command lines | each call is reported, twice only if its own failure ended the run; a run that ended has none but late calls; losses are noticed, sockets and reconnections stay within their budgets, the reader's end comes last, lingering calls complete |
| `scenario` | every document of up to 5 elements of 7 vocabularies | compiled branches, scopes, transactions, directives; the lints' claims against `StepFlow` |
| `statistics` | three things counted, three turns (dumps, snapshots, resets, switches), one second | periods, tables, rows, rates, the ring of files |
| `media` | two calls, a generated stream of two packets and a replay on two ports, two plays | streams are kept while wanted, judged once by the report, but for what the bridge still holds, and the report comes |
| `references` | the pure algorithms on every input of a few pieces (`Lengths0`) | each meets its reference |

One run finds a violation of what the repository says: `call_stale_retrans`.
`on_retrans_timer` does not compare generations, so the retransmission timer of
an INVITE that was answered by a challenge, firing late, is taken for that of
the second INVITE (`engine.rs:1105`: "Bumped whenever timers are (re)armed;
stale fires are ignored.").

A property that a run lists is often a conjunction; the module states each
conjunct with the code it is about. In `references`, each conjunct is about the
inputs of one topic.

`CHECK_DEADLOCK FALSE` stands where the system may really stop: when a run's
connections are used up or the run is halted, when all events and turns of the
statistics are spent, when the media has reported, when an input has its length.

### Other disagreements

Of the code with its documentation and comments, or with what its author must
have meant, seen while modelling; no run is spent on these.

Timers and calls (`engine.rs` unless named):

- `timer.rs:125`: `is_empty` subtracts the tombstones of timers that already
  fired, so it may say true with a live timer. Only tests call it.
- 7131: a new call's generation starts at 0, so with `-deadcall_wait 0` a fire
  left behind by a call may time out the next call of its Call-ID.
- 5727: a twin's command taken during a pause leaves `pause_deadline` set; under
  `-pause_msg_ign` the call then drops all messages. One taken during a timewait is
  handled like any other, and may take the call on.
- 6584: `on_retrans_exhausted` does not look at `completing`, so a call in its
  timewait fails when its last retransmission runs out (1056: "In timewait:
  absorb retransmissions, never fail."), or goes to its `ontimeout` label.
  `TimewaitIsQuiet` excepts this fire and a twin's command, and nothing else.
- 5827: without `_unexp.retaddr`, or when the interrupted message's index is 0,
  `try_unexpected_jump` and `on_packet` call each other without end (5825: "Not re-entered
  while `_unexp.retaddr` is non-zero"). The run's scenario declares it, and interrupts
  nothing at index 0.
- `retrans.rs:49`: an INVITE "keeps doubling past T2", up to 2^16 times T1 only.
- `lint.rs` calls steps unreachable that are not: behind a `timewait` with
  `condexec` (3803 falls through it), behind a `<nop next>` that a command skips
  to a `recvCmd` (5727), after a command during a timewait, behind a jump by
  `_unexp.retaddr` (docs/LINTS.md: "no path through the scenario reaches").
  `Foreseen` in `ScenarioLint` names these shapes; the run's vocabularies hold none of
  them.
- 3778: a restored pause passes over the step the call is at with `index + 1`,
  whatever that step's `next` is ("which is then skipped with `next()`"), so a step
  that only such a skip leads to is called unreachable and runs. The run
  checks the lints' claims of the steps without `<pauserestore>` (`Unrestored`).

The pool:

- 4933: stop_now sets `hard_stop` only; `refill_users` opens replacements before
  the loop looks at it, and they are abandoned (`actions.rs:115`: "Stop the whole
  run immediately (`exec stop_now`).").
- 3707: `refill_users` goes on while calls end as they open, and a request to
  stop is never taken (875: "End the run gracefully (SIPp's `q`): no new calls,
  the live ones finish, then the report comes."); it ignores `paused` (864: "Stop
  placing new calls").
- 3637: `start_call` drops the user id when every circuit is busy
  (docs/SIPP_COMPAT.md: "the population stays constant until `-m` total is
  reached").
  The id is gone, and `refill_users` goes on with the next one until none is left.
- 3642, 3663: that call is counted as failed without having been created, and a call that a
  PING removes (6853) as created without having ended: the report's numbers are off by
  them (`aside`).
- 4319: a draining server still opens calls (875: "no new calls").
- 3299: `reset stats` zeroes the count `-m` is compared with (84: "Total calls to
  start").
- `tdm.rs:54`: the product of the three ranges wraps at 2^32 in a release build;
  an empty table neither caps the calls nor names their circuits.

Connections:

- 6196: the Disconnected event of a connection that was replaced meanwhile
  invalidates the new one and fails its calls.
- 5068: a dial that `apply_setdest` fails with `-max_reconnect 0` counts its call
  twice; so does a send error under `-sendbuffer_warn` whose abort message fails
  too (6735, 6819). These are the `guilty` calls of `EveryCallIsReported`.
- 3411, 3711: the loops that open calls do not look at `hard_stop`. After "Max number of
  reconnections reached" (5068, 6113) or a fatal send error (6819), the same turn may open
  further calls, which are live when the run ends and in no count but the created ones:
  `HaltedRunHasLateCallsOnly` leaves out these, and only these.
- 5907: a pooled socket that another call moved by `setdest` carries messages to
  the wrong peer.
- The reader of a connection that WebSocket replaced answers on the new one,
  looked up by peer (`tcp.rs`, `register`); a server with `-rsa` keeps a shared
  socket that died; `pending_reset` is taken only after a send failed; a
  retransmission does not open a call's socket; a WebSocket head longer than its
  maximum is taken or refused depending on where the reads end; a dial has no
  timeout and blocks the engine.
- `twin.rs`: a peer accepted while the mesh is dropped is registered after the
  others were closed, and never sees its end.

Scenarios, text and data:

- `regex.rs`: groups and alternations are atomic: `(a|ab)c` does not match
  "abc", and `(.*)@` never matches; a repeated body that matches nothing fails
  under a minimum. docs/SIPP_COMPAT.md and `regex.rs:5` say "leftmost-first
  greedy backtracker". `RegexBacktracks` is about patterns without such groups.
- `model.rs:145`: a response time without repeat is taken again from the call's
  start when its step runs twice.
- `inject.rs`: replacing the line that won a duplicate key makes the lookup miss;
  `%.0d` prints 0 as "0"; an insert during the run changes the modulus a
  sequential file turns by; `validate_field_files` looks at `<send>` only.
- `actions.rs`: the actions after a jump to oneself still write shared data,
  though the jump fails the call; `url_decode` takes "%+4"; an error inside
  `[file]` is swallowed where a message is rendered to a string.
- `render.rs:856`: under `Authorization: [authentication]` the answer to a 407
  goes out under `Authorization`; `nc` is 1 when a nonce is used again; a `[len]`
  in the body counts its own marker.
- `message.rs`: a message with LF ends whose body holds an empty CRLF line is
  split there; `;tag=` inside `<...>` is read as the tag.

Statistics:

- `set reset` drops the rows that `-trace_rtt` has buffered, and the codes.
- The codes grow without bound when `-trace_error_codes` is off.
- `max_log_size` is of all files by its comment, of one by the code; switching a
  trace off and on forgets the rotated files, and a clock set back may overwrite
  one that is kept.

Media:

- `replay.rs:231`: "Replaces any stream already playing for the same call and
  tag", but the new stream's port is bound before the old one's socket closes:
  replaying on the same port fails, and the old stream goes on.
- 2934: counters are sampled "at the end", after `media.take()`, so packets sent
  since the last sample are missed.
- 2915: `collect_final_media_events` counts only rounds without a message; peers
  that send more than 20 a second hold the report for ever. Nor does it wait for the bridge
  (2357), which nobody joins: three timeouts of 50 ms may pass while a tally is on its way
  there, and the report lacks it (2913: "drain what the bridge forwards before the
  report"). `EveryStreamIsJudged` says that no tally is missing but those.
- `sdp.rs`: without a session's connection line, that of another section is
  taken for it.
- 5186: `ue` sticks to a call's keys; an answer without keys keeps the old ones;
  when the peer takes our second suite, it decrypts with our first key.

### Bounds

- Timers: three timers and three instants are enough for two entries due at once
  and a third that is armed, cancelled or earlier than both while the driver is
  between any two of its steps. The proofs have no bound.
- Calls: six handles (one per timer in use: the wait's, the retransmission's and
  their stale fires), one or two fires in the channel, a few messages, one
  retransmission, two calls of one Call-ID. Two fires are one stale and one due.
- Pool: two to four calls, two users raised to three and lowered to one, up to
  four ids, one or two circuits, two calls per tick. `Wrap` bounds the counters
  of a run that has no end; they are compared modulo it, and it is larger than `-m`.
- Connections: two calls contend for one connection or for a pool of two; three
  connections are an old one, the one that replaced it, and one more that a
  setdest or a second loss opens; one message on its way per connection.
- Scenarios: five elements hold a label, a branch to it, a step between them and
  two more; each vocabulary has the elements that interact with one another.
- Statistics: three events are two calls, or a call with a response time; three
  turns are a dump, a reset and a dump. The ring has two files and a row fills one.
- Media: two plays are one that is replaced and the one that replaces it, or one
  for each call; ports 10 to 13 wrap around after two pairs. `MaxOthers` bounds the
  peers' messages while the end of the run collects.
- References: the lengths are those at which every rule of the topic meets every
  other at least once; the largest topics have 10^4 to 10^5 inputs.

### Fairness

- `TimerService`: the clock advances, the driver is scheduled, and the engine
  finishes a call of the service it has begun. Nothing makes it begin one, and
  spurious wakeups are not relied on.
- `CallMachine`: the engine's thread takes its next step and the next event, and
  the timer thread fires what is due (what `timer_service` shows). Messages may
  never come.
- `CallPool`: the loop goes on (weak fairness). The channel is first in, first
  out, so a request in it is taken however many events are in front of it: with
  the channel abstracted to the set `asked`, that is strong fairness of `Serve`.
  Each call ends some time (what `call_client` shows of a timed scenario); a call
  may end at an event only, hence strong fairness.
- `Media`: the media thread is scheduled and the engine goes on with the end of
  the run. That the peers fall silent is the bound `MaxOthers`: the code does
  not end otherwise (see above).
- `Connections`, `Statistics` and `ScenarioCompiler` state safety only.

## 4. Proofs

`TimerServiceProofs`, for every `MaxTimers` and `MaxTime`:

- `InvariantHolds`: `IInv` is inductive. `NoLostWakeup` alone is not: it says
  nothing of a driver that is about to sleep, or of one that is about to be
  notified. `WakesAtCovers` adds that `wakes_at` never lies beyond a deadline in
  the heap while the driver sleeps, and that the sleep never ends after
  `wakes_at` unless a notification is under way; `LookSplitsPending` that what
  the driver leaves behind when it looks is later than its look; `UniqueIds` that
  an id is in one place.
- `TypeCorrect`, `WakeupsAreNotLost`, `ShutdownIsNotLost` follow from it.
- `ServiceImplementsContract`: under the mapping `armed <- Live(queue) \cup
  batch`, `used <- queue.nextId` each step is a step of the contract or a stutter;
  the driver's `DriverSend` is the contract's fire.

`CallPoolProofs`, for any call table, pools, circuits, limits and modes:

- `PoolInvariantHolds`: `IInv` is inductive. `UserIdsAreUnique` alone is not: a
  growth of `-users` makes ids from `nextUserId` on, which are new only because
  no id anywhere has reached it (`UserIdsAreOld`); `DoomedAreLive` keeps the calls
  that a handler is failing among the live ones, so that each returns its id
  once; `PlacesUnpaused` carries the pacer's look at `paused` to the calls it
  places. The pools are sequences: `PushId`, `PopId`, `JoinIds` and `PieceOfIds`
  say what taking, returning and splicing do to their members.
- `PoolTypeCorrect`, `UserIdsStayUnique`, `CircuitsStayWithCalls` follow from it.
- `CallsAlwaysStartWithinCaps`: no step but `Refill`, `PlaceCall`, `Commanded` and
  (in a server) `Incoming` adds a main call, whichever calls are failed, closed
  or spawned, and each of the first three asks for the caps in the state it starts from.
- For the next three every action is shown to have one of a few effects on calls,
  ids and counts (`Effect`): none, a call leaves, one enters, one ends as it opens,
  one finds no circuit, or it is one of the three actions that spawn a secondary
  call, set the users and reset the counts. `StepEffect` says so once.
- `UserIdsAreNeverLost`: the ids below `nextUserId` are exactly those in a pool or
  with a call (`IdsAreKept`). Assumed: no circuits, since a call that finds all of
  them busy drops its id (section 3, 3637).
- `PopulationIsAlwaysKept`: `EnoughIds` says that the free ids and the live calls
  are at least `users`; `KeptWhileWaiting` that `refill_users` has left nothing to
  open when the loop waits. Without circuits again.
- `CountsAlwaysAgree`: counters are taken modulo `Wrap`, so the invariant says that
  what was created and stands aside differs from what ended and lives by a
  multiple of `Wrap` (`Balanced`). A call that enters, leaves, ends as it opens, is refused
  or is removed by a PING each moves two of the four numbers.
- `NoCallIsEverAbandoned`: once `hard` is set, the live calls are those being
  failed, and nothing that opens calls is reached (`HaltInv`). Assumed
  (`StopsAreFinal`): no opening call stops the run of the pacer or of the closed
  loop, and neither `exec` nor a twin that ends hard does that of the closed loop;
  there the code does abandon calls (section 3, 4933).
- `CircuitsAreAlwaysTold`, of `TdmMap`: a circuit's name is its number in three digits,
  each of a base of its own (`NameOfDigits`, `DigitsOfCircuit`), so that two circuits
  never share one. It is `CircuitsHaveTheirOwnNames` for every map; where the count of
  circuits overflows, that says nothing, and section 3 says what happens. That
  2 ^ `Width` is a number is a hypothesis only because no prover here computes powers.

`CallMachineProofs`, for any scenario, peer, twin and bounds:

- Each action is shown to have one of a few effects on the call's entry: it lasts
  with its generation and timer, it is cleared under a higher generation, it is
  armed with a new timer of a higher generation, it is over, or the fire of its
  timer is taken. The invariants need only the effects.
- `WaitsInvariantHolds`: the timer service holds no timer of a wait but the one the
  call holds (`ArmedAreHeld`); a fire in the channel has at most the call's
  generation, and one of that generation is the held timer's and the only one
  (`FiresAreOld`); a call opens with none in the channel (`OpensAfresh`). The
  generation alone is not inductive: that cancelling or firing leaves no second
  timer of the generation is what makes comparing it enough.
- `StaleWaitFiresAreIgnored`: hence `StaleWaitFiresIgnored`. Both suppose `Distinct`: at
  most one call opens under the Call-ID, or dead calls are remembered and none is
  given up for a PING. Both runs that check the property are such instances;
  without the condition it fails (section 3).
- `TimersAlwaysFollowWaits`: `TimersFollowWaits`. That a held timer is armed or has
  its fire in the channel is not inductive, because of what becomes of the entry
  next: `Fitting` says which of its fields go together (a call that runs holds no
  wait's timer; the deadline is set exactly while the wait's timer is a receive
  timeout; a call that neither waits nor runs, past its first step, holds a timer;
  its two handles differ; the handler of unexpected messages returns to a message)
  and `Held` that each handle stands for a timer that is armed or fired, that of
  the wait with the call's generation. Assumed beside `Distinct`: that branches and
  labels lead to steps of the scenario (`StepsAssumption`), which holds of whatever the
  compiler hands over (`CompiledIsResolved`, a part of `CompiledFaithfully` below), and
  that what a peer sends are messages (`PeerAssumption`).
- `TimewaitsAreAlwaysQuiet`: `TimewaitIsQuiet`, under `Distinct` too. The code decides what
  to do with a message or a disconnection by `completing`, and with a fire by its
  generation; `LingerInv` says that whatever holds a timewait's timer is `completing`,
  however jumps, labels and commands led there, and `HeldInv` that it does not run and
  that a fire of its generation is that timer's.
- `PausesAreAlwaysRestored`: `PauseIsRestored`. The invariant (`ResumeInv`) follows the pause
  over the steps between: the pause that runs is one of the scenario's; what
  `_unexp.retaddr` holds while `_unexp.pausedaddr` is set is the number of a pause; and
  where the deadline has been restored, the call is at the pause of that number. That a
  number tells one message (`MessagesAreCounted`, `MessageIsFound`) makes it the same one.
  Assumed beside `Distinct` (`Restoring`): the handler restores the pause and returns in one step, as
  the corpus' `unexp_handler.xml` does, and no `next` of the message before a pause leads
  away from it; a handler that returns elsewhere restores its deadline where it goes.
- `CallsAlwaysStayOnTheirPath`: `CallsStayOnTheirPath` speaks of the step the call is
  at; the invariant (`PathInv`) also of what it holds to go on from later: the step of
  its retransmission is a `send` that is reached, the messages that its pause and
  `_unexp.retaddr` stand for are among those that may be interrupted (`Noticed`), a
  restored pause is only pending where one may be passed over (`MayPass`), and where
  the call waits, the step, what a command may take it to from there, and what a
  timeout does are reached (`MayRest`). No condition on Call-IDs is needed, since a
  stale fire ends a wait where the call is.
- `SendsAreAlwaysInTime`, of `RetransSchedule`: `SendsInTime` for every base, caps, `T2`
  and kind of message. The course of an unanswered message is the iteration of its
  timer's fire: `CopiesFollow` says what stands after each copy, `WaitDoubles` what each
  gap is. Assumed: `Doubles`, the rule of the powers of two, which no prover here
  computes, and `T2` <= 2 ^ `MaxShift`, as the code's 4000 ms and 16 are; else a base
  below `T2` would stop doubling before it reaches the cap.

`StepFlowProofs`, for every scenario:

- `ReachedIsClosed`: `Reached` is defined by 2 * `End` rounds of a recursive function;
  the theorem says that this is the closure, hence that the number hides nothing. A
  round that changes something finds a step or a message, of which there are `End`
  each (`WithinCounts`, `WithinGrows`), so that one of the rounds changes nothing, and
  no later one does.
- `ScanIsExpected`: the scan is a loop that runs over the window with an early
  return and two remembered candidates; the theorem says which step it yields, for
  any index and message: the next one that expects it, else the last optional one
  passed that does, else the latest transaction.
- `LintsTellTheTruth`, of any resolved steps (`ScenarioProofs` brings it to documents):
  `optional-window` names what the scan's windows make of a run of optional receives
  (`RunIsWindow`), in every scenario; and no step it calls dead is reached, in a
  scenario that is `Foreseen`. Len(Steps) rounds close what the lint finds
  (`FoundIsClosed`, by the same counting). Then each way the engine has on from a step
  that is found (`LeadsAreLive`: a branch, a jump, a receive in the window, a command's
  taker, a timeout, a return) leads to a found one or past the last step, and what
  `_unexp.retaddr` holds to such a one too; by induction over `Within`, so does a
  call. Without `Foreseen` it is false: section 3 lists the shapes.

`ConnectionsProofs`, for any number of calls, connections and ports and any
command line:

- A handler may leave any of a set of states, so the proofs are of operators:
  `Sound(s)` is the invariant of the engine's and the transport's state, and each
  handler's lemma says that of a sound state it leaves sound states only and none
  that breaks what is counted (`Proper(w, v)`, which composes as handlers do).
- The parts of `Sound`, each needed for the next: `Streams` (an end in the channel
  means that its reader is done, hence nothing of it can follow: `EndIsLast`);
  `Sockets` (a call's socket is in the pool and its end not handled, so that
  `LossesAreNoticed` survives a connection that replaces another on the same
  port); `Losses` (a client's shared connection is marked once its end was
  handled); `Budget`, `Marked`, `CountedOnce` (of a call that is not guilty; who is guilty has ended the
  run, and a halted run holds late calls only); `Spares` (the connections not yet
  opened are unused: a dial takes one that nothing refers to).
- `CallsAreReported`, `LossesAreAlwaysNoticed`, `BudgetsAlwaysHold`, `EndIsAlwaysLast`
  and `LingeringCallsAlwaysComplete` are the run's five properties.

`StatisticsProofs`, for any counters, response times, classes, traces, ring and
bounds:

- `Accounts` is the inductive invariant of the counts and the rows. The properties
  relate a total to the rows and the period; the invariant says of each part where it
  stands: the rows sum up to what each counter was when the period began, and to the
  histogram less the period's (`Booked`); rows written and waiting are the samples
  (`Rowed`); a table is its histogram (`Tabled`); the snapshots since the display was
  chosen make the count it last saw (`Rated`).
- What an event counts is shown to keep all of these at once and to compose
  (`Grows`), so that a handler that counts several things needs only its parts;
  `DumpedIs` is the one lemma on a dump, whichever files are asked for.
- `CountsAlwaysAddUp`, `RowsAlwaysAgree`: the properties. That dumps write integers,
  not only naturals, is all that is typed of the rows: a period never shrinks because
  the totals are what they are.
- `RingAlwaysKeepsTheLatest`: `RingKeepsTheLatest` alone is not inductive, since a
  rename may replace a file that is kept. `Chain` adds that the names of the files
  kept ascend, by the second and then by the number, and are no later than the second
  the current file was opened in; hence a rotation's name is a new one among them,
  whatever files an earlier log has left on disk.

`MediaProofs`, for any calls, sources, ports and bounds, however the engine, the
media thread and the peers take turns:

- `Balanced` is the heart of the inductive invariant: the streams judged and the
  tallies still with the bridge or in the engine's channel are as many as the streams that
  were heard and are no longer in flight; forwarding one moves it from the one to the other.
  `EveryStreamIsJudged` speaks of the report only; that it follows
  then needs that the thread has ended, leaving no stream, before the engine collects,
  and that a report leaves no event in the engine's channel (`Phased`).
- For a tally to count once, a stream's id must be its own: `Known` (in flight, no two
  streams have an id or, of one call, a tag; an id was heard exactly if its stream has
  sent) and `Fresh` (a play on its way has a number no other has, in flight or heard).
- `Released` says of an ended call that its streams, and each of its plays on their way,
  have a stop behind them in the channel: as commands are taken in order, that stop
  ends them, and `EndedCallsHoldNothing` follows.
- `TalliesAre` and `Accounted` are the lemmas on what ends: a set of streams yields one
  judged tally for each that was heard, whichever order they are reported in.
- `StreamsAreAlwaysKept` and `EveryStreamIsAlwaysJudged` are the run's two invariants.
- Of the rollover counter (`MediaSources`), `PacketsAlwaysDecrypt` and
  `IndicesAlwaysFollow` are the steps of what the run `references` checks of whole
  sequences of packets (`PacketsDecrypt`): the receiver, standing at an index, reckons
  the right round of whatever comes within half the numbers of it (`RoundsAreNear`,
  `EstimateIsRight`) and stands at the newer of the two (`AdvanceStands`); the sender
  goes up by one. They hold of every even modulus, the code's 2 ^ 16 among them.

`ScenarioProofs`, for documents of any length in any vocabulary:

- The compiler reads a document element by element, and `ScenarioReference` states what
  comes of it of the whole document at once. `GatheredIsRead` says that the two agree
  after every element: `IInv` has a conjunct for each thing the compiler keeps. None of
  the properties is inductive, since all speak of a document that compiled.
  - `StepsFollow`: the steps are the stepping elements, in order; the place of one is how
    many of them stand up to it (`PlaceOf`), so that one more element moves no other.
  - `BranchesWait`: the branches to resolve are those of the elements, each with its step.
  - `LabelsStand`: while no error was reported, every label is known at its place, and
    nothing else is. It needs the condition: a second label of a name takes the place
    of the first, and the document is rejected only at its end.
  - `VariablesKnown`, `TransactionsKnown`: what is read was interned and recorded as read,
    what is written is written by some action, scopes come from declarations.
  - `DirectivesWait`: what the compiler remembers of directives is what those after the
    last element allow, and each step is allowed just what those right before it do.
  - `OutcomeFollows`: a scenario handed over is `Resolved` of these, without an error.
- `CompiledFaithfully`: a branch's label is among those of its name, of which there is
  one, since a repeated name is an error (`LabelsStand`); a jump's number counts
  messages, and `StepOf` finds one by counting, which exists and is unique because the
  counts rise by one from message to message. That branches, jumps and the handler
  lead to steps or past the last one (`CompiledIsResolved`) is the assumption under
  which `CallMachineProofs` and `StepFlowProofs` speak of scenarios.
- `DeclarationsKept`: scopes, transactions and directives, from the invariant.
- `LintsHoldTrue`: the steps handed over, without the pauses they restore, meet the
  hypotheses of `LintsTellTheTruth`, so the lints' claims hold of every compiled
  document: `OptionalsHaveAWindow` always, all of `LintsAreTrue` where the outcome is
  `Foreseen`, as those of the run's vocabularies are. For the other shapes, named in
  section 3, the lint says what is not so.

Assumed there: elements have the attributes, values and lints' names that the XML
reader hands over (`VocabulariesAssumption`), and the empty string is a string
(`TextAssumption`), which no prover knows by itself.

That a set of naturals has a first one (`LeastNatural`), which the heap's `First`, the
choice of the first free circuit and the scan's next step rest on, is proved by
well-founded induction in each of the three modules that cite it.

Assumed of the constants: the bounds are natural numbers, the call table is
finite, circuits are numbered from 1, `Wrap` exceeds `-m`, `-max_socket` and
`-max_reconnect` are natural numbers; each module names its assumptions, and TLC
evaluates them on the instances.

Only model-checked:

- liveness under fairness (`DriverGetsOn`, `CallsEnd`, `StopEndsTheRun`,
  `UsersTakeTurns`, `ReportComes`), which TLAPS cannot treat;
- the run `references`: recursive functions and folds over sequences of any length,
  whose values for every input only an induction over data could give. Of the
  operators its properties are about, theorems without a property of their own treat
  the scan, the schedule and the circuits' names (`ScanIsExpected`,
  `SendsAreAlwaysInTime`, `CircuitsAreAlwaysTold`: the parts of `CallRulesMeetReference`,
  for every input), what a scenario reaches (`ReachedIsClosed`) and each step of the
  rollover counter (`PacketsAlwaysDecrypt`, `IndicesAlwaysFollow`).

Every other property of the runs is stated by a theorem; where one has a condition
that the code does not meet, it is named above with what goes wrong without it.

## 5. Plan

Modelled and checked: the components of sections 1 and 2. What remains:

- A controller and its twin, two `CallMachine`s over one framed stream.

## 6. Not modelled

- UDP sockets, wake-ups and socket options: a blocking read per socket and
  system calls, without state between them.
- TLS's record layer and SCTP's foreign functions: libraries; `StreamTransport`
  treats them as the stream and the messages they deliver.
- The twin's mesh: its accept thread and registration.
- The sharded call table (`table.rs`), which the engine does not use.
- The control channel's servers, the terminal interface and the command line:
  text to commands and back. What the commands do is in `CallPool`.
- External commands (`exec.rs`) and notices.
- The XML reader, the distributions (arithmetic on floats), the `rtp_stream` and
  `rtp_echo` argument grammars, the lint of message texts, the capture readers.
- Ciphers and hashes: `Digest` and `MediaSources` take them as free functions.
