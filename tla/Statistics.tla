----------------------------- MODULE Statistics -----------------------------
(***************************************************************************)
(* The statistics of a run: StatSet of crates/sipr-stats/src/lib.rs (one   *)
(* per scenario), fed, dumped, shown and reset by the engine's loop        *)
(* (crates/sipr-engine/src/engine.rs), and the error log the failures of   *)
(* calls go to.                                                            *)
(*                                                                         *)
(* A dump writes, of each counter, what it grew by since the last one (P)  *)
(* and its value (C).  Of the calls' durations and response times only the *)
(* table class matters: a Class is a millisecond range between two bounds. *)
(***************************************************************************)
EXTENDS Integers, Sequences, FiniteSets

CONSTANTS
    Counters,     \* the cumulative counters, "created" and "failed" among them
    Rtds,         \* response times the scenario names, RTD "1" among them
    Classes,      \* classes of durations: one more than the bounds
    Ticked,       \* generic counters
    Kinds,        \* of the steps, in order: "send", "timed send", "recv", "pause", "label"
    Hidden,       \* steps with hide=
    Loss,         \* some packet is dropped on purpose
    Mixed,        \* a secondary scenario is loaded
    Traces,       \* the files asked for: "stat", "counts", "codes", "rtt"
    PeriodicRtd,  \* -periodic_rtd
    RttFreq,      \* -rtt_freq
    RingFiles,    \* -ringbuffer_files: rotated files kept (0: truncate in place)
    RingSize,     \* -ringbuffer_size, in bytes on some scale (0: never rotate)
    MaxLogSize,   \* -max_log_size (0: never close)
    MaxEvents,    \* bound: things counted
    MaxTurns,     \* bound: dumps, refreshes and resets
    MaxSeconds    \* bound: seconds of the run

ASSUME StatisticsAssumption ==
    /\ {"created", "failed"} \subseteq Counters
    /\ {RttFreq, RingFiles, RingSize, MaxLogSize, MaxEvents, MaxTurns, MaxSeconds} \subseteq Nat
    /\ {Loss, Mixed, PeriodicRtd} \subseteq BOOLEAN

VARIABLES
    stats,    \* [scenario -> StatSet]
    screen,   \* display_secondary, last_snapshot and what was shown of it
    files,    \* what is in the statistics files since the last reset
    log,      \* the -trace_err file
    failures, \* rows of the log since it was opened
    clock,    \* seconds
    events, turns, over

vars == <<stats, screen, files, log, failures, clock, events, turns, over>>

Main == "main"
Secondary == "secondary"
Scenarios == {Main} \cup (IF Mixed THEN {Secondary} ELSE {})

-----------------------------------------------------------------------------
(* A log file with SIPp's size-based rotation: TraceFile.  Its rows are    *)
(* numbered in the order they are written.                                 *)

NoFiles == [name \in {} |-> <<>>]

\* TraceFile::open with `overwrite`; rotated files of a run before stay.
Opened(disk, now) ==
    [open |-> TRUE, count |-> 0, started |-> now, kept |-> <<>>, content |-> <<>>, disk |-> disk]

Newest(names) == names[Len(names)]

\* The current file under its new name, beside those that are left.
Renamed(file, name, left) ==
    [f \in left \cup {name} |-> IF f = name THEN file.content ELSE file.disk[f]]

\* A mutant of Rotated: the second is enough of a name.
RotatedBySecond(file, now, reopens) ==
    LET full == Len(file.kept) >= RingFiles
        kept == IF full THEN Tail(file.kept) ELSE file.kept
        left == IF full THEN DOMAIN file.disk \ {Head(file.kept)} ELSE DOMAIN file.disk
        name == <<file.started, 0>>
    IN  [file EXCEPT !.open = reopens, !.started = now, !.content = <<>>,
                     !.kept = Append(kept, name),
                     !.disk = Renamed(file, name, left)]

\* rotate: the oldest file beyond the ring is deleted, the current one renamed
\* after the second it was opened in and, within one second, a number, and the
\* file opened again, which may fail.
Rotated(file, now, reopens) ==
    LET full == Len(file.kept) >= RingFiles
        kept == IF full THEN Tail(file.kept) ELSE file.kept
        left == IF full THEN DOMAIN file.disk \ {Head(file.kept)} ELSE DOMAIN file.disk
        again == kept # <<>> /\ Newest(kept)[1] = file.started
        name == <<file.started, IF again THEN Newest(kept)[2] + 1 ELSE 0>>
        fresh == [file EXCEPT !.open = reopens, !.started = now, !.content = <<>>]
    IN  IF RingFiles = 0 THEN fresh
        ELSE [fresh EXCEPT !.kept = Append(kept, name),
                           !.disk = Renamed(file, name, left)]

\* write: a failed write and a file past -max_log_size close it for good.
Written(file, row, size, now, writes, reopens) ==
    LET wrote == [file EXCEPT !.count = @ + size, !.content = Append(@, row)]
    IN  IF ~file.open THEN file
        ELSE IF ~writes THEN [file EXCEPT !.open = FALSE]
        ELSE IF MaxLogSize > 0 /\ wrote.count > MaxLogSize THEN [wrote EXCEPT !.open = FALSE]
        ELSE IF RingSize > 0 /\ wrote.count > RingSize
          THEN [Rotated(wrote, now, reopens) EXCEPT !.count = 0]
        ELSE wrote

-----------------------------------------------------------------------------
(* StatSet.                                                                *)

NoSamples == [k \in Classes |-> 0]

\* StatSet::new, then what new_stat_set says of the scenario.
Blank ==
    [n         |-> [c \in Counters |-> 0],
     last      |-> [c \in Counters |-> 0],
     rtd       |-> [r \in Rtds |-> NoSamples],
     rtdPeriod |-> [r \in Rtds |-> NoSamples],
     table     |-> [r \in Rtds |-> NoSamples],
     length    |-> NoSamples,
     lengthPeriod |-> NoSamples,
     lengthTable  |-> NoSamples,
     ticks     |-> [t \in Ticked |-> [total |-> 0, dumped |-> 0, shown |-> 0]],
     rtt       |-> <<>>,
     codes     |-> 0,
     kinds     |-> Kinds,
     hidden    |-> Hidden,
     loss      |-> Loss]

\* counted_steps: the steps with columns, as the number of their message, which
\* labels do not count in, and their kind.
CountedSteps(s) ==
    LET message(i) == Cardinality({j \in 1..i - 1 : s.kinds[j] # "label"})
    IN  {<<message(i), s.kinds[i]>> : i \in {j \in DOMAIN s.kinds \ s.hidden : s.kinds[j] # "label"}}

StepColumns(kind, loss) ==
    (CASE kind = "send"       -> {"Sent", "Retrans"}
       [] kind = "timed send" -> {"Sent", "Retrans", "Timeout"}
       [] kind = "recv"       -> {"Recv", "Retrans", "Timeout", "Unexp"}
       [] OTHER               -> {"Sessions", "Unexp"})
        \cup (IF loss /\ kind # "pause" THEN {"Lost"} ELSE {})

\* counts_header and counts_row.
CountsColumns(s) == UNION {{<<step[1], c>> : c \in StepColumns(step[2], s.loss)} : step \in CountedSteps(s)}

\* csv_header and csv_row.
StatColumns(s) == [counters |-> DOMAIN s.n, rtds |-> DOMAIN s.rtd, generic |-> DOMAIN s.ticks,
                   classes |-> DOMAIN s.lengthTable]

NothingDumped ==
    [n |-> [c \in Counters |-> 0], rtd |-> [r \in Rtds |-> NoSamples], length |-> NoSamples,
     ticks |-> [t \in Ticked |-> 0], rtt |-> <<>>, codes |-> 0,
     statHeader |-> StatColumns(Blank), countsHeader |-> CountsColumns(Blank),
     statRow |-> StatColumns(Blank), countsRow |-> CountsColumns(Blank)]

Init ==
    /\ stats = [s \in Scenarios |-> Blank]
    /\ screen = [shows |-> Main, created |-> 0, rated |-> 0, base |-> 0]
    /\ files = NothingDumped
    /\ log = Opened(NoFiles, 0)
    /\ failures = 0
    /\ clock = 0 /\ events = 0 /\ turns = 0 /\ over = FALSE

-----------------------------------------------------------------------------
(* What is counted.                                                        *)

One(counts, k) == [counts EXCEPT ![k] = @ + 1]

Counted(s, c) == [s EXCEPT !.n = One(@, c)]

\* A mutant of RecordRtd: the period's histogram is left out.
RecordRtdForGood(s, r, k, traced) ==
    [s EXCEPT !.rtd[r] = One(@, k), !.table[r] = One(@, k),
              !.rtt = IF traced THEN Append(@, <<r, k>>) ELSE @]

\* record_rtd; the secondary's set has no trace (DumpOptions::default).
RecordRtd(s, r, k, traced) ==
    [s EXCEPT !.rtd[r] = One(@, k), !.rtdPeriod[r] = One(@, k), !.table[r] = One(@, k),
              !.rtt = IF traced THEN Append(@, <<r, k>>) ELSE @]

\* record_call_length.
RecordLength(s, k) ==
    [s EXCEPT !.length = One(@, k), !.lengthPeriod = One(@, k), !.lengthTable = One(@, k)]

\* tick_counter.
Ticking(period) == [period EXCEPT !.total = @ + 1]
Tick(s, t) == [s EXCEPT !.ticks[t] = Ticking(@)]

\* flush_rtt after every event: all rows, once there are RttFreq.
Due(s) == "rtt" \in Traces /\ Len(s.rtt) >= (IF RttFreq = 0 THEN 1 ELSE RttFreq)

Flush(s) == IF Due(s) THEN [s |-> [s EXCEPT !.rtt = <<>>], rtt |-> s.rtt]
            ELSE [s |-> s, rtt |-> <<>>]

\* One event of the loop changes one scenario's set, then flush_rtt.
Feeds(sc, changed) ==
    /\ ~over /\ events < MaxEvents /\ events' = events + 1
    /\ LET all == [stats EXCEPT ![sc] = changed]
           flushed == Flush(all[Main])
       IN  /\ stats' = [all EXCEPT ![Main] = flushed.s]
           /\ files' = [files EXCEPT !.rtt = @ \o flushed.rtt]
    /\ UNCHANGED <<screen, clock, turns, over>>

Quiet == UNCHANGED <<log, failures>>

CallOpens == \E sc \in Scenarios : Feeds(sc, Counted(stats[sc], "created")) /\ Quiet

\* apply_rtds and tick_counter, as one step books itself.
StepRuns ==
    \E sc \in Scenarios, t \in Ticked, r \in Rtds, k \in Classes :
        /\ Feeds(sc, RecordRtd(Tick(stats[sc], t), r, k, sc = Main /\ "rtt" \in Traces))
        /\ Quiet

\* An unexpected response's code is for -trace_error_codes.
UnexpectedResponse ==
    \E sc \in Scenarios : Feeds(sc, [stats[sc] EXCEPT !.codes = @ + 1]) /\ Quiet

CallCompletes ==
    \E sc \in Scenarios, k \in Classes : Feeds(sc, RecordLength(stats[sc], k)) /\ Quiet

\* fail_call: the failure is counted and logged; the log may fail.
CallFails ==
    \E sc \in Scenarios, k \in Classes, size \in 1..2, writes, reopens \in BOOLEAN :
        /\ Feeds(sc, RecordLength(Counted(stats[sc], "failed"), k))
        /\ failures' = failures + 1
        /\ log' = Written(log, failures + 1, size, clock, writes, reopens)

-----------------------------------------------------------------------------
(* Dumps, screens and control.                                             *)

Turn == ~over /\ turns < MaxTurns /\ turns' = turns + 1

Sum(a, b) == [x \in DOMAIN a |-> a[x] + b[x]]
Grown(now, then) == [x \in DOMAIN now |-> now[x] - then[x]]

\* A mutant of EndPeriod: the generic counters start no new period.
EndPeriodOfCalls(s) ==
    [s EXCEPT !.last = s.n, !.rtdPeriod = [r \in Rtds |-> NoSamples], !.lengthPeriod = NoSamples]

\* end_period.
StartsAnew(period) == [period EXCEPT !.dumped = period.total]
EndPeriod(s) ==
    [s EXCEPT !.last = s.n,
              !.rtdPeriod = [r \in Rtds |-> NoSamples],
              !.lengthPeriod = NoSamples,
              !.ticks = [t \in Ticked |-> StartsAnew(s.ticks[t])],
              !.table = IF PeriodicRtd THEN [r \in Rtds |-> NoSamples] ELSE @,
              !.lengthTable = IF PeriodicRtd THEN NoSamples ELSE @]

\* The (P) columns of a -trace_stat row, added to the rows before.
StatRow(f, s) ==
    [f EXCEPT !.n = Sum(@, Grown(s.n, s.last)),
              !.rtd = [r \in Rtds |-> Sum(@[r], s.rtdPeriod[r])],
              !.length = Sum(@, s.lengthPeriod),
              !.ticks = [t \in Ticked |-> @[t] + s.ticks[t].total - s.ticks[t].dumped],
              !.statRow = StatColumns(s)]

\* dump_statistics: the rows asked for, and the period ends.
Dumped(f, s) ==
    IF Traces \cap {"stat", "counts", "codes"} = {} THEN [f |-> f, s |-> s]
    ELSE LET stat == IF "stat" \in Traces THEN StatRow(f, s) ELSE f
             counts == IF "counts" \in Traces THEN [stat EXCEPT !.countsRow = CountsColumns(s)] ELSE stat
             coded == "codes" \in Traces
         IN  [f |-> IF coded THEN [counts EXCEPT !.codes = @ + s.codes] ELSE counts,
              s |-> EndPeriod(IF coded THEN [s EXCEPT !.codes = 0] ELSE s)]

Dump ==
    /\ Turn
    /\ LET dumped == Dumped(files, stats[Main])
       IN  stats' = [stats EXCEPT ![Main] = dumped.s] /\ files' = dumped.f
    /\ UNCHANGED <<screen, log, failures, clock, events, over>>

Shown == stats[screen.shows]

\* publish_snapshot: rate_period is of the calls created since the last one.
Published == [screen EXCEPT !.rated = @ + Shown.n["created"] - screen.created,
                            !.created = Shown.n["created"]]

\* end_display_period, of the displayed scenario.
ShownAnew(period) == [period EXCEPT !.shown = period.total]
EndDisplayPeriod(s) == [s EXCEPT !.ticks = [t \in Ticked |-> ShownAnew(s.ticks[t])]]

Refresh ==
    /\ Turn
    /\ screen' = Published
    /\ stats' = [stats EXCEPT ![screen.shows] = EndDisplayPeriod(@)]
    /\ UNCHANGED <<files, log, failures, clock, events, over>>

\* A screen key publishes at once; the period goes on.
ScreenKey ==
    /\ Turn
    /\ screen' = Published
    /\ UNCHANGED <<stats, files, log, failures, clock, events, over>>

\* set display: the period's rate restarts from the displayed scenario's count.
Displays(shows) ==
    [shows |-> shows, created |-> stats[shows].n["created"], rated |-> 0,
     base |-> stats[shows].n["created"]]

SetDisplay ==
    /\ Turn
    /\ \E shows \in Scenarios : screen' = Displays(shows)
    /\ UNCHANGED <<stats, files, log, failures, clock, events, over>>

\* reset: every count is zero; what the scenario says of itself stays.
Reset(s) == [Blank EXCEPT !.kinds = s.kinds, !.hidden = s.hidden, !.loss = s.loss]

\* set reset: what was buffered for a file is gone.
ResetStats ==
    /\ Turn
    /\ stats' = [sc \in Scenarios |-> Reset(stats[sc])]
    /\ screen' = [screen EXCEPT !.created = 0, !.rated = 0, !.base = 0]
    /\ files' = [NothingDumped EXCEPT
                    !.statHeader = files.statHeader, !.countsHeader = files.countsHeader,
                    !.statRow = files.statRow, !.countsRow = files.countsRow]
    /\ UNCHANGED <<log, failures, clock, events, over>>

\* trace error off, then on: the log starts again and what was rotated stays.
RestartLog ==
    /\ Turn
    /\ log' = Opened(log.disk, clock) /\ failures' = 0
    /\ UNCHANGED <<stats, screen, files, clock, events, over>>

\* The end of run_loop: a last row of each file, a last snapshot.
Finish ==
    /\ ~over /\ over' = TRUE
    /\ LET dumped == Dumped(files, stats[Main])
           last == IF "rtt" \in Traces THEN [s |-> [dumped.s EXCEPT !.rtt = <<>>],
                                             rtt |-> dumped.s.rtt]
                                      ELSE [s |-> dumped.s, rtt |-> <<>>]
       IN  /\ stats' = [stats EXCEPT ![Main] = last.s]
           /\ files' = [dumped.f EXCEPT !.rtt = @ \o last.rtt]
    /\ screen' = Published
    /\ UNCHANGED <<log, failures, clock, events, turns>>

SecondPasses ==
    /\ ~over /\ clock < MaxSeconds /\ clock' = clock + 1
    /\ UNCHANGED <<stats, screen, files, log, failures, events, turns, over>>

Next == CallOpens \/ StepRuns \/ UnexpectedResponse \/ CallCompletes \/ CallFails
            \/ Dump \/ Refresh \/ ScreenKey \/ SetDisplay \/ ResetStats \/ RestartLog
            \/ Finish \/ SecondPasses

Spec == Init /\ [][Next]_vars

-----------------------------------------------------------------------------
(* Properties.                                                             *)

Samples == [Classes -> Nat]
Files ==
    [n : [Counters -> Int], rtd : [Rtds -> [Classes -> Int]], length : [Classes -> Int],
     ticks : [Ticked -> Int], rtt : Seq(Rtds \X Classes), codes : Nat,
     statHeader : {StatColumns(Blank)}, statRow : {StatColumns(Blank)},
     countsHeader : {CountsColumns(Blank)}, countsRow : {CountsColumns(Blank)}]
StatSet ==
    [n : [Counters -> Nat], last : [Counters -> Nat],
     rtd : [Rtds -> Samples], rtdPeriod : [Rtds -> Samples], table : [Rtds -> Samples],
     length : Samples, lengthPeriod : Samples, lengthTable : Samples,
     ticks : [Ticked -> [total : Nat, dumped : Nat, shown : Nat]],
     rtt : Seq(Rtds \X Classes), codes : Nat, kinds : {Kinds}, hidden : {Hidden}, loss : {Loss}]

\* Every variable has its type, and each scenario keeps the steps it was given.
TypeOK ==
    /\ stats \in [Scenarios -> StatSet] /\ files \in Files
    /\ screen \in [shows : Scenarios, created : Nat, rated : Nat, base : Nat]
    /\ failures \in Nat /\ clock \in 0..MaxSeconds /\ over \in BOOLEAN
    /\ events \in 0..MaxEvents /\ turns \in 0..MaxTurns

\* The (P) columns of a reader's rows add up to the (C) ones, whatever dumps,
\* resets and events lie between: the rows since the last reset and the period
\* that runs make the totals (csv_row, end_period, reset).
PeriodsAddUp ==
    "stat" \in Traces =>
        LET s == stats[Main] IN
        /\ Sum(files.n, Grown(s.n, s.last)) = s.n
        /\ \A r \in Rtds : Sum(files.rtd[r], s.rtdPeriod[r]) = s.rtd[r]
        /\ Sum(files.length, s.lengthPeriod) = s.length
        /\ \A t \in Ticked : files.ticks[t] + s.ticks[t].total - s.ticks[t].dumped = s.ticks[t].total

\* Each response time has one -trace_rtt row, written or waiting, and fewer than
\* -rtt_freq wait after an event (record_rtd, flush_rtt); at the end none does.
RttRows == files.rtt \o stats[Main].rtt
RowsOf(rows, r, k) == {i \in DOMAIN rows : rows[i] = <<r, k>>}
ResponsesHaveARow ==
    "rtt" \in Traces =>
        /\ \A r \in Rtds, k \in Classes : Cardinality(RowsOf(RttRows, r, k)) = stats[Main].rtd[r][k]
        /\ ~Due(stats[Main])
        /\ over => stats[Main].rtt = <<>>

\* A repartition table counts every sample of the run, of the period under
\* -periodic_rtd, in the same classes as the histogram.
TablesFollowSamples ==
    \A sc \in Scenarios :
        LET s == stats[sc]
            period == PeriodicRtd /\ sc = Main /\ Traces \cap {"stat", "counts", "codes"} # {}
        IN  /\ s.table = IF period THEN s.rtdPeriod ELSE s.rtd
            /\ s.lengthTable = IF period THEN s.lengthPeriod ELSE s.length

\* Every row has the columns of the header, which is written once, before any
\* reset (csv_header, counts_header).
RowsMatchHeaders ==
    /\ files.statRow = files.statHeader
    /\ files.countsRow = files.countsHeader

\* The period's rate counts each call once: the snapshots since the display was
\* chosen, and what came after the last of them, make the calls created since
\* (build_snapshot, set display, set reset).
RatesCountCallsOnce ==
    screen.base + screen.rated + (Shown.n["created"] - screen.created) = Shown.n["created"]

\* The ring keeps the latest rows and nothing else: what is left of the log, from
\* the oldest file kept to the current one, is every row from some one on, without
\* a gap or an older row, up to the last one while the log is open
\* (TraceFile::write, rotate).
Ascend(rows) == \A i \in 1..Len(rows) - 1 : rows[i + 1] = rows[i] + 1
GoesOnTo(older, newer) == newer # <<>> => newer[1] = older[Len(older)] + 1
Ends(rows, last) == rows[Len(rows)] = last
KeptFile(i) == log.disk[log.kept[i]]
RingKeepsTheLatest ==
    LET n == Len(log.kept)
    IN  /\ n <= RingFiles
        /\ Ascend(log.content)
        /\ \A i \in 1..n : KeptFile(i) # <<>> /\ Ascend(KeptFile(i))
        /\ \A i \in 1..n - 1 : GoesOnTo(KeptFile(i), KeptFile(i + 1))
        /\ n > 0 => GoesOnTo(KeptFile(n), log.content)
        /\ log.open => /\ log.content # <<>> => Ends(log.content, failures)
                       /\ log.content = <<>> /\ n > 0 => Ends(KeptFile(n), failures)

\* What the columns and the display say of calls and times adds up.
CountsAddUp == TypeOK /\ PeriodsAddUp /\ RatesCountCallsOnce

\* The rows and tables of the files agree with the samples and with their headers.
RowsAgree == ResponsesHaveARow /\ TablesFollowSamples /\ RowsMatchHeaders
=============================================================================
