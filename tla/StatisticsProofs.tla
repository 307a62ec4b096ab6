--------------------------- MODULE StatisticsProofs ---------------------------
(* What holds of the statistics for any counters, response times, traces,    *)
(* files and sequence of events, dumps, snapshots and resets.                *)
EXTENDS Statistics, FiniteSetTheorems, SequenceTheorems, TLAPS

-----------------------------------------------------------------------------
(* What the operations on a StatSet do to its fields.                       *)

LEMMA Bounds ==
    /\ "created" \in Counters /\ "failed" \in Counters
    /\ RttFreq \in Nat /\ RingFiles \in Nat /\ RingSize \in Nat /\ MaxLogSize \in Nat
    /\ MaxEvents \in Nat /\ MaxTurns \in Nat /\ MaxSeconds \in Nat
    /\ Loss \in BOOLEAN /\ Mixed \in BOOLEAN /\ PeriodicRtd \in BOOLEAN
    /\ Main \in Scenarios
  BY StatisticsAssumption DEF Scenarios

LEMMA OneMore ==
    ASSUME NEW S, NEW f \in [S -> Nat], NEW k \in S
    PROVE  /\ One(f, k) \in [S -> Nat]
           /\ One(f, k)[k] = f[k] + 1 /\ \A j \in S \ {k} : One(f, k)[j] = f[j]
           /\ \A j \in S : One(f, k)[j] >= f[j]
  BY DEF One

LEMMA NoneYet == NoSamples \in Samples /\ \A k \in Classes : NoSamples[k] = 0
  BY DEF NoSamples, Samples

\* The sets of every scenario have the columns of the blank one.
LEMMA SameColumns ==
    ASSUME NEW s \in StatSet
    PROVE  StatColumns(s) = StatColumns(Blank) /\ CountsColumns(s) = CountsColumns(Blank)
  <1>1. /\ DOMAIN s.n = Counters /\ DOMAIN s.rtd = Rtds /\ DOMAIN s.ticks = Ticked
        /\ DOMAIN s.lengthTable = Classes /\ s.kinds = Kinds /\ s.hidden = Hidden /\ s.loss = Loss
    BY DEF StatSet, Samples
  <1>2. /\ DOMAIN Blank.n = Counters /\ DOMAIN Blank.rtd = Rtds /\ DOMAIN Blank.ticks = Ticked
        /\ DOMAIN Blank.lengthTable = Classes
        /\ Blank.kinds = Kinds /\ Blank.hidden = Hidden /\ Blank.loss = Loss
    BY DEF Blank, NoSamples
  <1>3. StatColumns(s) = StatColumns(Blank)
    BY <1>1, <1>2 DEF StatColumns
  <1>4. CountedSteps(s) = CountedSteps(Blank)
    BY <1>1, <1>2 DEF CountedSteps
  <1>5. CountsColumns(s) = CountsColumns(Blank)
    BY <1>1, <1>2, <1>4 DEF CountsColumns
  <1> QED BY <1>3, <1>5

LEMMA BlankIsTyped == Blank \in StatSet
  BY NoneYet, Bounds, SMTT(30) DEF Blank, StatSet

\* A set of which one field, or those of one response time, have changed.
LEMMA SetN ==
    ASSUME NEW s \in StatSet, NEW n \in [Counters -> Nat]
    PROVE  [s EXCEPT !.n = n] \in StatSet
  BY DEF StatSet

LEMMA CountedIs ==
    ASSUME NEW s \in StatSet, NEW c \in Counters
    PROVE  Counted(s, c) \in StatSet /\ Counted(s, c) = [s EXCEPT !.n = One(s.n, c)]
  <1>1. s.n \in [Counters -> Nat]
    BY DEF StatSet
  <1>2. Counted(s, c) = [s EXCEPT !.n = One(s.n, c)]
    BY DEF Counted
  <1> QED BY <1>1, <1>2, OneMore, SetN

LEMMA SetRtd ==
    ASSUME NEW s \in StatSet, NEW a \in [Rtds -> Samples], NEW b \in [Rtds -> Samples],
           NEW d \in [Rtds -> Samples], NEW q \in Seq(Rtds \X Classes)
    PROVE  [s EXCEPT !.rtd = a, !.rtdPeriod = b, !.table = d, !.rtt = q] \in StatSet
  BY DEF StatSet

Sampled(a, r, k) == [a EXCEPT ![r] = One(@, k)]

LEMMA OneOf ==
    ASSUME NEW a \in [Rtds -> Samples], NEW r \in Rtds, NEW k \in Classes
    PROVE  /\ Sampled(a, r, k) \in [Rtds -> Samples]
           /\ Sampled(a, r, k)[r] = One(a[r], k)
           /\ \A q \in Rtds \ {r} : Sampled(a, r, k)[q] = a[q]
  <1>1. One(a[r], k) \in Samples
    BY OneMore DEF Samples
  <1> QED BY <1>1 DEF Sampled

LEMMA RecordRtdIs ==
    ASSUME NEW s \in StatSet, NEW r \in Rtds, NEW k \in Classes, NEW traced \in BOOLEAN
    PROVE  LET u == RecordRtd(s, r, k, traced) IN
           /\ u \in StatSet
           /\ u.rtd = Sampled(s.rtd, r, k) /\ u.rtdPeriod = Sampled(s.rtdPeriod, r, k)
           /\ u.table = Sampled(s.table, r, k)
           /\ traced => u.rtt = Append(s.rtt, <<r, k>>)
           /\ u.n = s.n /\ u.last = s.last /\ u.length = s.length /\ u.lengthPeriod = s.lengthPeriod
           /\ u.lengthTable = s.lengthTable /\ u.ticks = s.ticks
  <1> DEFINE u == RecordRtd(s, r, k, traced)
             q == IF traced THEN Append(s.rtt, <<r, k>>) ELSE s.rtt
  <1>1. /\ s.rtd \in [Rtds -> Samples] /\ s.rtdPeriod \in [Rtds -> Samples]
        /\ s.table \in [Rtds -> Samples] /\ s.rtt \in Seq(Rtds \X Classes)
    BY DEF StatSet
  <1>2. q \in Seq(Rtds \X Classes)
    BY <1>1
  <1>3. RecordRtd(s, r, k, traced)
           = [s EXCEPT !.rtd = Sampled(s.rtd, r, k), !.rtdPeriod = Sampled(s.rtdPeriod, r, k),
                       !.table = Sampled(s.table, r, k), !.rtt = q]
    BY DEF RecordRtd, Sampled
  <1>4. traced => q = Append(s.rtt, <<r, k>>)
    OBVIOUS
  <1> HIDE DEF q, u
  <1>5. [s EXCEPT !.rtd = Sampled(s.rtd, r, k), !.rtdPeriod = Sampled(s.rtdPeriod, r, k),
                  !.table = Sampled(s.table, r, k), !.rtt = q] \in StatSet
    BY <1>1, <1>2, OneOf, SetRtd
  <1>6. u = [s EXCEPT !.rtd = Sampled(s.rtd, r, k), !.rtdPeriod = Sampled(s.rtdPeriod, r, k),
                      !.table = Sampled(s.table, r, k), !.rtt = q]
    BY <1>3 DEF u
  <1>7. /\ u.rtd = Sampled(s.rtd, r, k) /\ u.rtdPeriod = Sampled(s.rtdPeriod, r, k)
        /\ u.table = Sampled(s.table, r, k) /\ u.rtt = q
        /\ u.n = s.n /\ u.last = s.last /\ u.length = s.length /\ u.lengthPeriod = s.lengthPeriod
        /\ u.lengthTable = s.lengthTable /\ u.ticks = s.ticks
    BY <1>6 DEF StatSet
  <1>8. u \in StatSet
    BY <1>5, <1>6
  <1> QED BY <1>4, <1>7, <1>8 DEF u

LEMMA SetLength ==
    ASSUME NEW s \in StatSet, NEW a \in Samples, NEW b \in Samples, NEW d \in Samples
    PROVE  [s EXCEPT !.length = a, !.lengthPeriod = b, !.lengthTable = d] \in StatSet
  BY DEF StatSet

LEMMA RecordLengthIs ==
    ASSUME NEW s \in StatSet, NEW k \in Classes
    PROVE  LET u == [s EXCEPT !.length = One(s.length, k), !.lengthPeriod = One(s.lengthPeriod, k),
                              !.lengthTable = One(s.lengthTable, k)]
           IN  RecordLength(s, k) = u /\ u \in StatSet
  <1>1. s.length \in Samples /\ s.lengthPeriod \in Samples /\ s.lengthTable \in Samples
    BY DEF StatSet
  <1>2. /\ One(s.length, k) \in Samples /\ One(s.lengthPeriod, k) \in Samples
        /\ One(s.lengthTable, k) \in Samples
    BY <1>1, OneMore DEF Samples
  <1> QED BY <1>2, SetLength DEF RecordLength

Periods == [total : Nat, dumped : Nat, shown : Nat]

LEMMA SetTicks ==
    ASSUME NEW s \in StatSet, NEW a \in [Ticked -> Periods]
    PROVE  [s EXCEPT !.ticks = a] \in StatSet
  BY DEF StatSet, Periods

LEMMA TickingIs ==
    ASSUME NEW p \in Periods
    PROVE  Ticking(p) \in Periods /\ Ticking(p).total = p.total + 1 /\ Ticking(p).dumped = p.dumped
  BY DEF Ticking, Periods

LEMMA TickIs ==
    ASSUME NEW s \in StatSet, NEW t \in Ticked
    PROVE  LET u == [s EXCEPT !.ticks = [s.ticks EXCEPT ![t] = Ticking(s.ticks[t])]]
           IN  Tick(s, t) = u /\ u \in StatSet
  <1>1. s.ticks \in [Ticked -> Periods]
    BY DEF StatSet, Periods
  <1>2. [s.ticks EXCEPT ![t] = Ticking(s.ticks[t])] \in [Ticked -> Periods]
    BY <1>1, TickingIs
  <1>3. Tick(s, t) = [s EXCEPT !.ticks = [s.ticks EXCEPT ![t] = Ticking(s.ticks[t])]]
    BY DEF Tick
  <1> QED BY <1>2, <1>3, SetTicks

LEMMA SetPeriod ==
    ASSUME NEW s \in StatSet, NEW l \in [Counters -> Nat], NEW p \in [Rtds -> Samples],
           NEW lp \in Samples, NEW a \in [Ticked -> Periods], NEW b \in [Rtds -> Samples],
           NEW lb \in Samples
    PROVE  [s EXCEPT !.last = l, !.rtdPeriod = p, !.lengthPeriod = lp, !.ticks = a,
                     !.table = b, !.lengthTable = lb] \in StatSet
  BY DEF StatSet, Periods

LEMMA EndPeriodIs ==
    ASSUME NEW s \in StatSet
    PROVE  LET u == [s EXCEPT !.last = s.n, !.rtdPeriod = [r \in Rtds |-> NoSamples],
                              !.lengthPeriod = NoSamples,
                              !.ticks = [t \in Ticked |-> StartsAnew(s.ticks[t])],
                              !.table = IF PeriodicRtd THEN [r \in Rtds |-> NoSamples] ELSE s.table,
                              !.lengthTable = IF PeriodicRtd THEN NoSamples ELSE s.lengthTable]
           IN  EndPeriod(s) = u /\ u \in StatSet
  <1>1. /\ s.ticks \in [Ticked -> Periods] /\ s.n \in [Counters -> Nat]
        /\ s.table \in [Rtds -> Samples] /\ s.lengthTable \in Samples
    BY DEF StatSet, Periods
  <1>2. \A p \in Periods : StartsAnew(p) \in Periods
    BY DEF Periods, StartsAnew
  <1>3. [t \in Ticked |-> StartsAnew(s.ticks[t])] \in [Ticked -> Periods]
    BY <1>1, <1>2
  <1>4. [r \in Rtds |-> NoSamples] \in [Rtds -> Samples] /\ NoSamples \in Samples
    BY NoneYet
  <1> QED BY <1>1, <1>3, <1>4, SetPeriod DEF EndPeriod

LEMMA EndDisplayPeriodIs ==
    ASSUME NEW s \in StatSet
    PROVE  LET u == [s EXCEPT !.ticks = [t \in Ticked |-> ShownAnew(s.ticks[t])]]
           IN  EndDisplayPeriod(s) = u /\ u \in StatSet
  <1>1. s.ticks \in [Ticked -> Periods]
    BY DEF StatSet, Periods
  <1>2. \A p \in Periods : ShownAnew(p) \in Periods
    BY DEF Periods, ShownAnew
  <1>3. [t \in Ticked |-> ShownAnew(s.ticks[t])] \in [Ticked -> Periods]
    BY <1>1, <1>2
  <1> QED BY <1>3, SetTicks DEF EndDisplayPeriod

LEMMA SetRtt ==
    ASSUME NEW s \in StatSet, NEW q \in Seq(Rtds \X Classes)
    PROVE  [s EXCEPT !.rtt = q] \in StatSet
  BY DEF StatSet

LEMMA SetCodes ==
    ASSUME NEW s \in StatSet, NEW n \in Nat
    PROVE  [s EXCEPT !.codes = n] \in StatSet
  BY DEF StatSet

LEMMA ResetIs == ASSUME NEW s \in StatSet PROVE Reset(s) = Blank
  <1>1. s.kinds = Blank.kinds /\ s.hidden = Blank.hidden /\ s.loss = Blank.loss
    BY DEF StatSet, Blank
  <1>2. \A u \in StatSet : [u EXCEPT !.kinds = u.kinds, !.hidden = u.hidden, !.loss = u.loss] = u
    BY DEF StatSet
  <1> QED BY <1>1, <1>2, BlankIsTyped DEF Reset

-----------------------------------------------------------------------------
(* What a scenario's set and the files have to do with each other.          *)

\* The rows written so far sum up to what the counters were when the period
\* that runs began, or to what the histograms held then.
Booked(f, s) ==
    "stat" \in Traces =>
        /\ \A c \in Counters : f.n[c] = s.last[c]
        /\ \A r \in Rtds, k \in Classes : f.rtd[r][k] + s.rtdPeriod[r][k] = s.rtd[r][k]
        /\ \A k \in Classes : f.length[k] + s.lengthPeriod[k] = s.length[k]
        /\ \A t \in Ticked : f.ticks[t] = s.ticks[t].dumped

Rowed(f, s) ==
    "rtt" \in Traces => \A r \in Rtds, k \in Classes :
        Cardinality(RowsOf(f.rtt \o s.rtt, r, k)) = s.rtd[r][k]

Tabled(s, periodic) ==
    /\ s.table = IF periodic THEN s.rtdPeriod ELSE s.rtd
    /\ s.lengthTable = IF periodic THEN s.lengthPeriod ELSE s.length

\* Something was counted, by which none of these is lost; the rows are the
\* main scenario's.
Grows(s, u, main) ==
    /\ u \in StatSet
    /\ u.n["created"] >= s.n["created"]
    /\ \A periodic \in BOOLEAN : Tabled(s, periodic) => Tabled(u, periodic)
    /\ \A f \in Files : Booked(f, s) => Booked(f, u)
    /\ main => \A f \in Files : Rowed(f, s) => Rowed(f, u)

LEMMA GrowsTwice ==
    ASSUME NEW s \in StatSet, NEW u, NEW v, NEW main \in BOOLEAN, Grows(s, u, main), Grows(u, v, main)
    PROVE  Grows(s, v, main)
  <1>1. /\ s.n["created"] \in Nat /\ u.n["created"] \in Nat /\ v.n["created"] \in Nat
    BY Bounds DEF Grows, StatSet
  <1>2. v.n["created"] >= s.n["created"]
    BY <1>1 DEF Grows
  <1>3. \A periodic \in BOOLEAN : Tabled(s, periodic) => Tabled(v, periodic)
    BY DEF Grows
  <1> QED BY <1>2, <1>3 DEF Grows

LEMMA CountedGrows ==
    ASSUME NEW s \in StatSet, NEW c \in Counters, NEW main \in BOOLEAN
    PROVE  Grows(s, Counted(s, c), main)
  <1> DEFINE u == Counted(s, c)
  <1>1. u \in StatSet /\ u = [s EXCEPT !.n = One(s.n, c)]
    BY CountedIs
  <1>2. /\ u.n = One(s.n, c) /\ u.last = s.last /\ u.rtd = s.rtd /\ u.rtdPeriod = s.rtdPeriod
        /\ u.length = s.length /\ u.lengthPeriod = s.lengthPeriod /\ u.ticks = s.ticks
        /\ u.table = s.table /\ u.lengthTable = s.lengthTable /\ u.rtt = s.rtt
    BY <1>1 DEF StatSet
  <1>3. s.n \in [Counters -> Nat]
    BY DEF StatSet
  <1> HIDE DEF u
  <1>4. u.n["created"] >= s.n["created"]
    BY <1>2, <1>3, OneMore, Bounds
  <1>5. Grows(s, u, main)
    BY <1>1, <1>2, <1>4 DEF Grows, Booked, Rowed, Tabled
  <1> QED BY <1>5 DEF u

LEMMA TickGrows ==
    ASSUME NEW s \in StatSet, NEW t \in Ticked, NEW main \in BOOLEAN
    PROVE  Grows(s, Tick(s, t), main)
  <1> DEFINE u == Tick(s, t)
  <1>1. u \in StatSet /\ u = [s EXCEPT !.ticks = [s.ticks EXCEPT ![t] = Ticking(s.ticks[t])]]
    BY TickIs
  <1>2. /\ u.ticks = [s.ticks EXCEPT ![t] = Ticking(s.ticks[t])]
        /\ u.n = s.n /\ u.last = s.last /\ u.rtd = s.rtd /\ u.rtdPeriod = s.rtdPeriod
        /\ u.length = s.length /\ u.lengthPeriod = s.lengthPeriod
        /\ u.table = s.table /\ u.lengthTable = s.lengthTable /\ u.rtt = s.rtt
    BY <1>1 DEF StatSet
  <1>3. s.ticks \in [Ticked -> Periods] /\ s.n["created"] \in Nat
    BY Bounds DEF StatSet, Periods
  <1> HIDE DEF u
  <1>4. \A q \in Ticked : u.ticks[q].dumped = s.ticks[q].dumped
    BY <1>2, <1>3, TickingIs
  <1>5. u.n["created"] >= s.n["created"]
    BY <1>2, <1>3
  <1>6. Grows(s, u, main)
    BY <1>1, <1>2, <1>4, <1>5 DEF Grows, Booked, Rowed, Tabled
  <1> QED BY <1>6 DEF u

LEMMA RecordLengthGrows ==
    ASSUME NEW s \in StatSet, NEW k \in Classes, NEW main \in BOOLEAN
    PROVE  Grows(s, RecordLength(s, k), main)
  <1> DEFINE u == RecordLength(s, k)
  <1>1. u \in StatSet
        /\ u = [s EXCEPT !.length = One(s.length, k), !.lengthPeriod = One(s.lengthPeriod, k),
                         !.lengthTable = One(s.lengthTable, k)]
    BY RecordLengthIs
  <1>2. /\ u.length = One(s.length, k) /\ u.lengthPeriod = One(s.lengthPeriod, k)
        /\ u.lengthTable = One(s.lengthTable, k)
        /\ u.n = s.n /\ u.last = s.last /\ u.rtd = s.rtd /\ u.rtdPeriod = s.rtdPeriod
        /\ u.ticks = s.ticks /\ u.table = s.table /\ u.rtt = s.rtt
    BY <1>1 DEF StatSet
  <1>3. /\ s.length \in [Classes -> Nat] /\ s.lengthPeriod \in [Classes -> Nat] /\ s.n["created"] \in Nat
    BY Bounds DEF StatSet, Samples
  <1> HIDE DEF u
  <1>4. \A f \in Files, j \in Classes :
           f.length[j] + s.lengthPeriod[j] = s.length[j] => f.length[j] + u.lengthPeriod[j] = u.length[j]
    <2> TAKE f \in Files, j \in Classes
    <2>1. f.length[j] \in Int /\ s.length[j] \in Int /\ s.lengthPeriod[j] \in Int
      BY <1>3 DEF Files
    <2>2. \E d \in 0..1 : u.length[j] = s.length[j] + d /\ u.lengthPeriod[j] = s.lengthPeriod[j] + d
      <3>1. CASE j = k
        <4>1. u.length[j] = s.length[j] + 1 /\ u.lengthPeriod[j] = s.lengthPeriod[j] + 1
          BY <1>2, <1>3, <3>1, OneMore
        <4> QED BY <4>1
      <3>2. CASE j # k
        BY <1>2, <1>3, <2>1, <3>2, OneMore
      <3> QED BY <3>1, <3>2
    <2> QED BY <2>1, <2>2
  <1>5. u.n["created"] >= s.n["created"]
    BY <1>2, <1>3
  <1>6. \A f \in Files : Booked(f, s) => Booked(f, u)
    BY <1>2, <1>4 DEF Booked
  <1>7. \A periodic \in BOOLEAN : Tabled(s, periodic) => Tabled(u, periodic)
    BY <1>2 DEF Tabled
  <1>8. \A f \in Files : Rowed(f, s) => Rowed(f, u)
    BY <1>2 DEF Rowed
  <1>9. Grows(s, u, main)
    BY <1>1, <1>5, <1>6, <1>7, <1>8 DEF Grows
  <1> QED BY <1>9 DEF u

\* The rows of one response time, when another row joins them.
RowType == Rtds \X Classes

LEMMA RowsOfMore ==
    ASSUME NEW rows \in Seq(RowType), NEW e \in RowType, NEW r, NEW k
    PROVE  /\ RowsOf(rows, r, k) \subseteq 1..Len(rows)
           /\ RowsOf(Append(rows, e), r, k)
                 = IF e = <<r, k>> THEN RowsOf(rows, r, k) \cup {Len(rows) + 1} ELSE RowsOf(rows, r, k)
  <1>1. /\ Append(rows, e) \in Seq(RowType) /\ Len(Append(rows, e)) = Len(rows) + 1
        /\ DOMAIN rows = 1..Len(rows) /\ DOMAIN Append(rows, e) = 1..Len(rows) + 1 /\ Len(rows) \in Nat
    OBVIOUS
  <1>2. \A i \in 1..Len(rows) : Append(rows, e)[i] = rows[i]
    OBVIOUS
  <1>3. Append(rows, e)[Len(rows) + 1] = e
    OBVIOUS
  <1>4. 1..Len(rows) + 1 = (1..Len(rows)) \cup {Len(rows) + 1}
    BY <1>1
  <1> QED BY <1>1, <1>2, <1>3, <1>4 DEF RowsOf

LEMMA OneMoreRow ==
    ASSUME NEW rows \in Seq(RowType), NEW e \in RowType, NEW r, NEW k
    PROVE  /\ Cardinality(RowsOf(rows, r, k)) \in Nat
           /\ Cardinality(RowsOf(Append(rows, e), r, k))
                 = Cardinality(RowsOf(rows, r, k)) + (IF e = <<r, k>> THEN 1 ELSE 0)
  <1>1. Len(rows) \in Nat
    OBVIOUS
  <1>2. IsFiniteSet(1..Len(rows))
    BY <1>1, FS_Interval
  <1>3. IsFiniteSet(RowsOf(rows, r, k)) /\ Len(rows) + 1 \notin RowsOf(rows, r, k)
    BY <1>1, <1>2, RowsOfMore, FS_Subset
  <1>4. Cardinality(RowsOf(rows, r, k)) \in Nat
    BY <1>3, FS_CardinalityType
  <1>5. CASE e = <<r, k>>
    <2>1. RowsOf(Append(rows, e), r, k) = RowsOf(rows, r, k) \cup {Len(rows) + 1}
      BY <1>5, RowsOfMore
    <2>2. Cardinality(RowsOf(rows, r, k) \cup {Len(rows) + 1}) = Cardinality(RowsOf(rows, r, k)) + 1
      BY <1>3, FS_AddElement
    <2> QED BY <1>4, <1>5, <2>1, <2>2
  <1>6. CASE e # <<r, k>>
    <2>1. RowsOf(Append(rows, e), r, k) = RowsOf(rows, r, k)
      BY <1>6, RowsOfMore
    <2> QED BY <1>4, <1>6, <2>1
  <1> QED BY <1>5, <1>6

LEMMA RowsJoin ==
    ASSUME NEW old \in Seq(RowType), NEW rows \in Seq(RowType), NEW e \in RowType
    PROVE  /\ old \o rows \in Seq(RowType)
           /\ old \o Append(rows, e) = Append(old \o rows, e)
           /\ (old \o rows) \o <<>> = old \o rows
  <1>1. old \o rows \in Seq(RowType) /\ Len(old \o rows) = Len(old) + Len(rows)
    BY ConcatProperties
  <1>2. Append(rows, e) = rows \o <<e>> /\ Append(old \o rows, e) = (old \o rows) \o <<e>>
    BY <1>1
  <1>3. <<e>> \in Seq(RowType)
    OBVIOUS
  <1>4. (old \o rows) \o <<e>> = old \o (rows \o <<e>>)
    BY <1>3, ConcatAssociative
  <1>5. (old \o rows) \o <<>> = old \o rows
    BY <1>1, ConcatEmptySeq
  <1> QED BY <1>1, <1>2, <1>4, <1>5

\* Samples of one response time, in one class.
LEMMA OneOfAt ==
    ASSUME NEW a \in [Rtds -> Samples], NEW r \in Rtds, NEW k \in Classes,
           NEW q \in Rtds, NEW j \in Classes
    PROVE  /\ a[q][j] \in Nat
           /\ Sampled(a, r, k)[q][j] = a[q][j] + (IF <<r, k>> = <<q, j>> THEN 1 ELSE 0)
  <1>1. a[q] \in [Classes -> Nat]
    BY DEF Samples
  <1>2. CASE q = r
    <2>1. Sampled(a, r, k)[q] = One(a[q], k)
      BY <1>2, OneOf
    <2>2. CASE j = k
      BY <1>1, <1>2, <2>1, <2>2, OneMore
    <2>3. CASE j # k
      BY <1>1, <1>2, <2>1, <2>3, OneMore
    <2> QED BY <2>2, <2>3
  <1>3. CASE q # r
    BY <1>1, <1>3, OneOf
  <1> QED BY <1>2, <1>3

LEMMA RecordRtdGrows ==
    ASSUME NEW s \in StatSet, NEW r \in Rtds, NEW k \in Classes, NEW main \in BOOLEAN,
           NEW traced \in BOOLEAN, main => (traced <=> "rtt" \in Traces)
    PROVE  Grows(s, RecordRtd(s, r, k, traced), main)
  <1> DEFINE u == RecordRtd(s, r, k, traced)
  <1>1. u \in StatSet
    BY RecordRtdIs
  <1>2. /\ u.rtd = Sampled(s.rtd, r, k) /\ u.rtdPeriod = Sampled(s.rtdPeriod, r, k)
        /\ u.table = Sampled(s.table, r, k) /\ (traced => u.rtt = Append(s.rtt, <<r, k>>))
        /\ u.n = s.n /\ u.last = s.last /\ u.length = s.length /\ u.lengthPeriod = s.lengthPeriod
        /\ u.lengthTable = s.lengthTable /\ u.ticks = s.ticks
    BY RecordRtdIs
  <1>3. /\ s.rtd \in [Rtds -> Samples] /\ s.rtdPeriod \in [Rtds -> Samples] /\ s.n["created"] \in Nat
        /\ s.rtt \in Seq(RowType) /\ <<r, k>> \in RowType
    BY Bounds DEF StatSet, RowType
  <1> HIDE DEF u
  <1>4. \A f \in Files, p \in Rtds, j \in Classes :
           f.rtd[p][j] + s.rtdPeriod[p][j] = s.rtd[p][j] => f.rtd[p][j] + u.rtdPeriod[p][j] = u.rtd[p][j]
    <2> TAKE f \in Files, p \in Rtds, j \in Classes
    <2> DEFINE d == IF <<r, k>> = <<p, j>> THEN 1 ELSE 0
    <2>1. f.rtd[p][j] \in Int /\ d \in Int
      BY DEF Files
    <2>2. /\ s.rtd[p][j] \in Nat /\ s.rtdPeriod[p][j] \in Nat
          /\ u.rtd[p][j] = s.rtd[p][j] + d /\ u.rtdPeriod[p][j] = s.rtdPeriod[p][j] + d
      <3>1. Sampled(s.rtd, r, k)[p][j] = s.rtd[p][j] + d /\ s.rtd[p][j] \in Nat
        BY <1>3, OneOfAt
      <3>2. Sampled(s.rtdPeriod, r, k)[p][j] = s.rtdPeriod[p][j] + d /\ s.rtdPeriod[p][j] \in Nat
        BY <1>3, OneOfAt
      <3> HIDE DEF d
      <3> QED BY <1>2, <3>1, <3>2
    <2> HIDE DEF d
    <2> QED BY <2>1, <2>2
  <1>5. \A f \in Files : main /\ Rowed(f, s) => Rowed(f, u)
    <2> SUFFICES ASSUME NEW f \in Files, main, "rtt" \in Traces, Rowed(f, s), NEW p \in Rtds, NEW j \in Classes
                 PROVE  Cardinality(RowsOf(f.rtt \o u.rtt, p, j)) = u.rtd[p][j]
      BY DEF Rowed
    <2> DEFINE d == IF <<r, k>> = <<p, j>> THEN 1 ELSE 0
               rows == f.rtt \o s.rtt
    <2>1. f.rtt \in Seq(RowType)
      BY DEF Files, RowType
    <2>2. u.rtt = Append(s.rtt, <<r, k>>)
      BY <1>2
    <2>3. f.rtt \o u.rtt = Append(rows, <<r, k>>) /\ rows \in Seq(RowType)
      <3>1. f.rtt \o Append(s.rtt, <<r, k>>) = Append(rows, <<r, k>>) /\ rows \in Seq(RowType)
        BY <1>3, <2>1, RowsJoin
      <3> QED BY <2>2, <3>1
    <2>4. Cardinality(RowsOf(rows, p, j)) = s.rtd[p][j]
      BY DEF Rowed
    <2>5. u.rtd[p][j] = s.rtd[p][j] + d
      <3>1. Sampled(s.rtd, r, k)[p][j] = s.rtd[p][j] + d
        BY <1>3, OneOfAt
      <3> HIDE DEF d
      <3> QED BY <1>2, <3>1
    <2> HIDE DEF rows
    <2>6. Cardinality(RowsOf(Append(rows, <<r, k>>), p, j)) = Cardinality(RowsOf(rows, p, j)) + d
      BY <1>3, <2>3, OneMoreRow
    <2> QED BY <2>3, <2>4, <2>5, <2>6
  <1>6. u.n["created"] >= s.n["created"]
    BY <1>2, <1>3
  <1>7. \A f \in Files : Booked(f, s) => Booked(f, u)
    BY <1>2, <1>4 DEF Booked
  <1>8. \A periodic \in BOOLEAN : Tabled(s, periodic) => Tabled(u, periodic)
    BY <1>2 DEF Tabled
  <1>9. Grows(s, u, main)
    BY <1>1, <1>5, <1>6, <1>7, <1>8 DEF Grows
  <1> QED BY <1>9 DEF u

LEMMA CodesGrow ==
    ASSUME NEW s \in StatSet, NEW main \in BOOLEAN
    PROVE  Grows(s, [s EXCEPT !.codes = @ + 1], main)
  <1> DEFINE u == [s EXCEPT !.codes = @ + 1]
  <1>1. s.codes + 1 \in Nat /\ s.n["created"] \in Nat
    BY Bounds DEF StatSet
  <1>2. u \in StatSet
    BY <1>1, SetCodes
  <1>3. /\ u.n = s.n /\ u.last = s.last /\ u.rtd = s.rtd /\ u.rtdPeriod = s.rtdPeriod
        /\ u.length = s.length /\ u.lengthPeriod = s.lengthPeriod /\ u.ticks = s.ticks
        /\ u.table = s.table /\ u.lengthTable = s.lengthTable /\ u.rtt = s.rtt
    BY DEF StatSet
  <1> HIDE DEF u
  <1>4. u.n["created"] >= s.n["created"]
    BY <1>1, <1>3
  <1>5. Grows(s, u, main)
    BY <1>2, <1>3, <1>4 DEF Grows, Booked, Rowed, Tabled
  <1> QED BY <1>5 DEF u

-----------------------------------------------------------------------------
(* What flushing and dumping leave in the files and in the set.             *)

LEMMA FileFields ==
    ASSUME NEW f \in Files
    PROVE  /\ f.n \in [Counters -> Int] /\ f.rtd \in [Rtds -> [Classes -> Int]]
           /\ f.length \in [Classes -> Int] /\ f.ticks \in [Ticked -> Int] /\ f.rtt \in Seq(RowType)
           /\ f.codes \in Nat
           /\ f.statRow = f.statHeader /\ f.countsRow = f.countsHeader
  BY DEF Files, RowType

LEMMA WritesRows ==
    ASSUME NEW f \in Files, NEW q \in Seq(RowType)
    PROVE  LET v == [f EXCEPT !.rtt = @ \o q] IN
           /\ v \in Files /\ v.rtt = f.rtt \o q
           /\ v.n = f.n /\ v.rtd = f.rtd /\ v.length = f.length /\ v.ticks = f.ticks
  <1>1. f.rtt \o q \in Seq(RowType)
    BY FileFields
  <1> QED BY <1>1 DEF Files, RowType

LEMMA EmptiesRows ==
    ASSUME NEW s \in StatSet
    PROVE  LET u == [s EXCEPT !.rtt = <<>>] IN
           /\ u \in StatSet /\ u.rtt = <<>>
           /\ u.n = s.n /\ u.last = s.last /\ u.rtd = s.rtd /\ u.rtdPeriod = s.rtdPeriod
           /\ u.length = s.length /\ u.lengthPeriod = s.lengthPeriod /\ u.ticks = s.ticks
           /\ u.table = s.table /\ u.lengthTable = s.lengthTable
  <1>1. <<>> \in Seq(Rtds \X Classes)
    OBVIOUS
  <1>2. [s EXCEPT !.rtt = <<>>] \in StatSet
    BY <1>1, SetRtt
  <1> QED BY <1>2 DEF StatSet

\* What is written of the rows that wait is not lost, nor written twice.
LEMMA RowsAreWritten ==
    ASSUME NEW f \in Files, NEW s \in StatSet
    PROVE  LET v == [f EXCEPT !.rtt = @ \o s.rtt]
               u == [s EXCEPT !.rtt = <<>>]
           IN  /\ v \in Files /\ u \in StatSet /\ u.n = s.n /\ u.rtt = <<>>
               /\ Booked(f, s) => Booked(v, u)
               /\ Rowed(f, s) => Rowed(v, u)
               /\ \A periodic \in BOOLEAN : Tabled(s, periodic) => Tabled(u, periodic)
  <1> DEFINE v == [f EXCEPT !.rtt = @ \o s.rtt]
             u == [s EXCEPT !.rtt = <<>>]
  <1>1. s.rtt \in Seq(RowType) /\ f.rtt \in Seq(RowType)
    BY FileFields DEF StatSet, RowType
  <1>2. /\ v \in Files /\ v.rtt = f.rtt \o s.rtt
        /\ v.n = f.n /\ v.rtd = f.rtd /\ v.length = f.length /\ v.ticks = f.ticks
    BY <1>1, WritesRows
  <1>3. /\ u \in StatSet /\ u.rtt = <<>>
        /\ u.n = s.n /\ u.last = s.last /\ u.rtd = s.rtd /\ u.rtdPeriod = s.rtdPeriod
        /\ u.length = s.length /\ u.lengthPeriod = s.lengthPeriod /\ u.ticks = s.ticks
        /\ u.table = s.table /\ u.lengthTable = s.lengthTable
    BY EmptiesRows
  <1>4. (f.rtt \o s.rtt) \o <<>> = f.rtt \o s.rtt
    BY <1>1, RowsJoin
  <1> HIDE DEF v, u
  <1>5. v.rtt \o u.rtt = f.rtt \o s.rtt
    BY <1>2, <1>3, <1>4
  <1>6. Rowed(f, s) => Rowed(v, u)
    BY <1>3, <1>5 DEF Rowed
  <1>7. Booked(f, s) => Booked(v, u)
    BY <1>2, <1>3 DEF Booked
  <1>8. \A periodic \in BOOLEAN : Tabled(s, periodic) => Tabled(u, periodic)
    BY <1>3 DEF Tabled
  <1> QED BY <1>2, <1>3, <1>6, <1>7, <1>8 DEF v, u

\* Whatever was asked for, a dump writes what the period grew by and starts the next.
Periodic == PeriodicRtd /\ Traces \cap {"stat", "counts", "codes"} # {}

AddsPeriod(f, v, s) ==
    /\ \A c \in Counters : v.n[c] = f.n[c] + (s.n[c] - s.last[c])
    /\ \A r \in Rtds, k \in Classes : v.rtd[r][k] = f.rtd[r][k] + s.rtdPeriod[r][k]
    /\ \A k \in Classes : v.length[k] = f.length[k] + s.lengthPeriod[k]
    /\ \A t \in Ticked : v.ticks[t] = f.ticks[t] + s.ticks[t].total - s.ticks[t].dumped

LEMMA StatRowIs ==
    ASSUME NEW f \in Files, NEW s \in StatSet
    PROVE  LET v == StatRow(f, s) IN v \in Files /\ v.rtt = f.rtt /\ AddsPeriod(f, v, s)
  <1> DEFINE n == Sum(f.n, Grown(s.n, s.last))
             rtd == [r \in Rtds |-> Sum(f.rtd[r], s.rtdPeriod[r])]
             length == Sum(f.length, s.lengthPeriod)
             ticks == [t \in Ticked |-> f.ticks[t] + s.ticks[t].total - s.ticks[t].dumped]
             v == [f EXCEPT !.n = n, !.rtd = rtd, !.length = length, !.ticks = ticks,
                            !.statRow = StatColumns(s)]
  <1>1. StatRow(f, s) = v
    BY DEF StatRow
  <1>2. /\ s.n \in [Counters -> Nat] /\ s.last \in [Counters -> Nat]
        /\ s.rtdPeriod \in [Rtds -> [Classes -> Nat]] /\ s.lengthPeriod \in [Classes -> Nat]
        /\ s.ticks \in [Ticked -> Periods]
    BY DEF StatSet, Samples, Periods
  <1>3. n \in [Counters -> Int] /\ \A c \in Counters : n[c] = f.n[c] + (s.n[c] - s.last[c])
    <2>1. Grown(s.n, s.last) = [c \in Counters |-> s.n[c] - s.last[c]]
      BY <1>2 DEF Grown
    <2>2. n = [c \in Counters |-> f.n[c] + (s.n[c] - s.last[c])]
      BY <2>1, FileFields DEF Sum
    <2>3. \A c \in Counters : f.n[c] + (s.n[c] - s.last[c]) \in Int
      BY <1>2, FileFields
    <2> QED BY <2>2, <2>3
  <1>4. rtd \in [Rtds -> [Classes -> Int]]
        /\ \A r \in Rtds, k \in Classes : rtd[r][k] = f.rtd[r][k] + s.rtdPeriod[r][k]
    <2>1. \A r \in Rtds : /\ Sum(f.rtd[r], s.rtdPeriod[r]) \in [Classes -> Int]
                          /\ \A k \in Classes : Sum(f.rtd[r], s.rtdPeriod[r])[k] = f.rtd[r][k] + s.rtdPeriod[r][k]
      <3> TAKE r \in Rtds
      <3>1. f.rtd[r] \in [Classes -> Int] /\ s.rtdPeriod[r] \in [Classes -> Nat]
        BY <1>2, FileFields
      <3> QED BY <3>1 DEF Sum
    <2> QED BY <2>1
  <1>5. length \in [Classes -> Int] /\ \A k \in Classes : length[k] = f.length[k] + s.lengthPeriod[k]
    BY <1>2, FileFields DEF Sum
  <1>6. ticks \in [Ticked -> Int]
    <2>1. \A t \in Ticked : f.ticks[t] \in Int /\ s.ticks[t].total \in Nat /\ s.ticks[t].dumped \in Nat
      BY <1>2, FileFields DEF Periods
    <2> QED BY <2>1
  <1>7. StatColumns(s) = StatColumns(Blank)
    BY SameColumns
  <1> HIDE DEF n, rtd, length
  <1>8. v \in Files /\ v.rtt = f.rtt /\ v.n = n /\ v.rtd = rtd /\ v.length = length /\ v.ticks = ticks
    <2> HIDE DEF ticks
    <2> QED BY <1>3, <1>4, <1>5, <1>6, <1>7 DEF Files
  <1> HIDE DEF v
  <1>9. AddsPeriod(f, v, s)
    BY <1>3, <1>4, <1>5, <1>8 DEF AddsPeriod
  <1> QED BY <1>1, <1>8, <1>9

\* Starting a period anew is right when what it grew by has been written.
LEMMA PeriodEnds ==
    ASSUME NEW f \in Files, NEW v \in Files, NEW s \in StatSet,
           "stat" \in Traces => AddsPeriod(f, v, s), v.rtt = f.rtt,
           Booked(f, s), Rowed(f, s), NEW periodic \in BOOLEAN, periodic <=> PeriodicRtd, Tabled(s, periodic)
    PROVE  LET u == EndPeriod(s) IN
           /\ u \in StatSet /\ u.n = s.n /\ u.rtt = s.rtt
           /\ Booked(v, u) /\ Rowed(v, u) /\ Tabled(u, periodic)
  <1> DEFINE u == EndPeriod(s)
             none == [r \in Rtds |-> NoSamples]
             ticks == [t \in Ticked |-> StartsAnew(s.ticks[t])]
             table == IF PeriodicRtd THEN none ELSE s.table
             lengthTable == IF PeriodicRtd THEN NoSamples ELSE s.lengthTable
  <1>1. u \in StatSet
    BY EndPeriodIs
  <1>2. u = [s EXCEPT !.last = s.n, !.rtdPeriod = none, !.lengthPeriod = NoSamples,
                      !.ticks = ticks, !.table = table, !.lengthTable = lengthTable]
    BY EndPeriodIs
  <1> HIDE DEF u, none, ticks, table, lengthTable
  <1>3. /\ u.last = s.n /\ u.rtdPeriod = none /\ u.lengthPeriod = NoSamples
        /\ u.ticks = ticks /\ u.table = table /\ u.lengthTable = lengthTable
        /\ u.n = s.n /\ u.rtd = s.rtd /\ u.length = s.length /\ u.rtt = s.rtt
    BY <1>2 DEF StatSet
  <1>4. /\ s.n \in [Counters -> Nat] /\ s.last \in [Counters -> Nat]
        /\ s.rtd \in [Rtds -> [Classes -> Nat]] /\ s.length \in [Classes -> Nat]
        /\ s.ticks \in [Ticked -> Periods]
    BY DEF StatSet, Samples, Periods
  <1>5. Booked(v, u)
    <2> SUFFICES ASSUME "stat" \in Traces
                 PROVE  /\ \A c \in Counters : v.n[c] = u.last[c]
                        /\ \A r \in Rtds, k \in Classes : v.rtd[r][k] + u.rtdPeriod[r][k] = u.rtd[r][k]
                        /\ \A k \in Classes : v.length[k] + u.lengthPeriod[k] = u.length[k]
                        /\ \A t \in Ticked : v.ticks[t] = u.ticks[t].dumped
      BY DEF Booked
    <2>2. /\ \A c \in Counters : f.n[c] = s.last[c]
          /\ \A r \in Rtds, k \in Classes : f.rtd[r][k] + s.rtdPeriod[r][k] = s.rtd[r][k]
          /\ \A k \in Classes : f.length[k] + s.lengthPeriod[k] = s.length[k]
          /\ \A t \in Ticked : f.ticks[t] = s.ticks[t].dumped
      BY DEF Booked
    <2>3. /\ \A c \in Counters : v.n[c] = f.n[c] + (s.n[c] - s.last[c])
          /\ \A r \in Rtds, k \in Classes : v.rtd[r][k] = f.rtd[r][k] + s.rtdPeriod[r][k]
          /\ \A k \in Classes : v.length[k] = f.length[k] + s.lengthPeriod[k]
          /\ \A t \in Ticked : v.ticks[t] = f.ticks[t] + s.ticks[t].total - s.ticks[t].dumped
      BY DEF AddsPeriod
    <2>4. ASSUME NEW c \in Counters PROVE v.n[c] = u.last[c]
      <3>1. s.n[c] \in Nat /\ s.last[c] \in Nat /\ f.n[c] = s.last[c] /\ v.n[c] = f.n[c] + (s.n[c] - s.last[c])
        BY <1>4, <2>2, <2>3
      <3> QED BY <1>3, <3>1
    <2>5. ASSUME NEW r \in Rtds, NEW k \in Classes PROVE v.rtd[r][k] + u.rtdPeriod[r][k] = u.rtd[r][k]
      <3>1. u.rtdPeriod[r][k] = 0
        BY <1>3, NoneYet DEF none
      <3>2. v.rtd[r][k] = s.rtd[r][k]
        BY <2>2, <2>3
      <3>3. s.rtd[r] \in [Classes -> Nat]
        BY <1>4
      <3>4. s.rtd[r][k] \in Nat
        BY <3>3
      <3> QED BY <1>3, <3>1, <3>2, <3>4
    <2>6. ASSUME NEW k \in Classes PROVE v.length[k] + u.lengthPeriod[k] = u.length[k]
      <3>1. u.lengthPeriod[k] = 0 /\ v.length[k] = s.length[k] /\ s.length[k] \in Nat
        BY <1>3, <1>4, <2>2, <2>3, NoneYet
      <3> QED BY <1>3, <3>1
    <2>7. ASSUME NEW t \in Ticked PROVE v.ticks[t] = u.ticks[t].dumped
      <3>1. s.ticks[t] \in Periods
        BY <1>4
      <3>2. StartsAnew(s.ticks[t]).dumped = s.ticks[t].total
        BY <3>1 DEF StartsAnew, Periods
      <3>3. u.ticks[t].dumped = s.ticks[t].total
        BY <1>3, <3>2 DEF ticks
      <3>4. s.ticks[t].total \in Nat /\ s.ticks[t].dumped \in Nat
        BY <3>1 DEF Periods
      <3>5. v.ticks[t] = s.ticks[t].dumped + s.ticks[t].total - s.ticks[t].dumped
        BY <2>2, <2>3
      <3> QED BY <3>3, <3>4, <3>5
    <2> QED BY <2>4, <2>5, <2>6, <2>7
  <1>6. Rowed(v, u)
    BY <1>3 DEF Rowed
  <1>7. Tabled(u, periodic)
    <2>1. CASE PeriodicRtd
      BY <1>3, <2>1 DEF Tabled, none, table, lengthTable
    <2>2. CASE ~PeriodicRtd
      BY <1>3, <2>2 DEF Tabled, table, lengthTable
    <2> QED BY <2>1, <2>2
  <1> QED BY <1>1, <1>3, <1>5, <1>6, <1>7 DEF u

LEMMA DumpedIs ==
    ASSUME NEW f \in Files, NEW s \in StatSet, Booked(f, s), Rowed(f, s), Tabled(s, Periodic)
    PROVE  LET d == Dumped(f, s) IN
           /\ d.f \in Files /\ d.s \in StatSet /\ d.s.n = s.n /\ d.s.rtt = s.rtt
           /\ Booked(d.f, d.s) /\ Rowed(d.f, d.s) /\ Tabled(d.s, Periodic)
  <1>1. CASE Traces \cap {"stat", "counts", "codes"} = {}
    BY <1>1 DEF Dumped
  <1>2. CASE Traces \cap {"stat", "counts", "codes"} # {}
    <2> DEFINE stat == IF "stat" \in Traces THEN StatRow(f, s) ELSE f
               counts == IF "counts" \in Traces THEN [stat EXCEPT !.countsRow = CountsColumns(s)] ELSE stat
               coded == IF "codes" \in Traces THEN [counts EXCEPT !.codes = @ + s.codes] ELSE counts
               after == IF "codes" \in Traces THEN [s EXCEPT !.codes = 0] ELSE s
    <2>1. Dumped(f, s) = [f |-> coded, s |-> EndPeriod(after)]
      BY <1>2 DEF Dumped
    <2>2. stat \in Files /\ stat.rtt = f.rtt
      BY StatRowIs
    <2> HIDE DEF stat
    <2>3. /\ counts \in Files /\ counts.rtt = f.rtt /\ counts.n = stat.n /\ counts.rtd = stat.rtd
          /\ counts.length = stat.length /\ counts.ticks = stat.ticks
      BY <2>2, SameColumns DEF Files
    <2> HIDE DEF counts
    <2>4. s.codes \in Nat /\ counts.codes \in Nat
      BY <2>3, FileFields DEF StatSet
    <2>5. /\ coded \in Files /\ coded.rtt = f.rtt /\ coded.n = stat.n /\ coded.rtd = stat.rtd
          /\ coded.length = stat.length /\ coded.ticks = stat.ticks
      <3> DEFINE sum == counts.codes + s.codes
                 more == [counts EXCEPT !.codes = sum]
      <3>1. sum \in Nat
        BY <2>4
      <3> HIDE DEF sum
      <3>2. /\ more \in Files /\ more.rtt = f.rtt /\ more.n = stat.n /\ more.rtd = stat.rtd
            /\ more.length = stat.length /\ more.ticks = stat.ticks
        BY <2>3, <3>1 DEF Files
      <3>3. coded = more \/ coded = counts
        BY DEF sum
      <3> HIDE DEF more, coded
      <3> QED BY <2>3, <3>2, <3>3
    <2>6. /\ after \in StatSet /\ after.n = s.n /\ after.last = s.last /\ after.rtd = s.rtd
          /\ after.rtdPeriod = s.rtdPeriod /\ after.length = s.length /\ after.lengthPeriod = s.lengthPeriod
          /\ after.ticks = s.ticks /\ after.table = s.table /\ after.lengthTable = s.lengthTable
          /\ after.rtt = s.rtt
      BY SetCodes DEF StatSet
    <2>7. "stat" \in Traces => AddsPeriod(f, stat, s)
      BY StatRowIs DEF stat
    <2> HIDE DEF coded, after
    <2>8. "stat" \in Traces => AddsPeriod(f, coded, after)
      BY <2>5, <2>6, <2>7 DEF AddsPeriod
    <2>9. Booked(f, after) /\ Rowed(f, after) /\ Tabled(after, Periodic)
      BY <2>6 DEF Booked, Rowed, Tabled
    <2>10. Periodic \in BOOLEAN /\ (Periodic <=> PeriodicRtd)
      BY <1>2, Bounds DEF Periodic
    <2>11. /\ EndPeriod(after) \in StatSet /\ EndPeriod(after).n = after.n /\ EndPeriod(after).rtt = after.rtt
           /\ Booked(coded, EndPeriod(after)) /\ Rowed(coded, EndPeriod(after))
           /\ Tabled(EndPeriod(after), Periodic)
      BY <2>5, <2>6, <2>8, <2>9, <2>10, PeriodEnds
    <2> QED BY <2>1, <2>5, <2>6, <2>11
  <1> QED BY <1>1, <1>2

-----------------------------------------------------------------------------
(* The inductive invariant of the counts, the rows and the display.         *)

PeriodicAt(sc) == Periodic /\ sc = Main

Sets(st, f) ==
    /\ st \in [Scenarios -> StatSet] /\ f \in Files
    /\ Booked(f, st[Main]) /\ Rowed(f, st[Main])
    /\ \A sc \in Scenarios : Tabled(st[sc], PeriodicAt(sc))

\* The display's rate counts from a count the displayed scenario has had.
Rated(sn, st) ==
    /\ sn \in [shows : Scenarios, created : Nat, rated : Nat, base : Nat]
    /\ sn.created = sn.base + sn.rated
    /\ sn.created <= st[sn.shows].n["created"]

\* Few rows wait, and none at the end.
Flushed(st, ended) == "rtt" \in Traces => ~Due(st[Main]) /\ (ended => st[Main].rtt = <<>>)

Bounded == /\ failures \in Nat /\ clock \in 0..MaxSeconds /\ over \in BOOLEAN
           /\ events \in 0..MaxEvents /\ turns \in 0..MaxTurns

Accounts == Sets(stats, files) /\ Rated(screen, stats) /\ Flushed(stats, over) /\ Bounded

LEMMA NothingIsDue == ASSUME NEW s, s.rtt = <<>> PROVE ~Due(s)
  <1>1. ~(0 >= (IF RttFreq = 0 THEN 1 ELSE RttFreq))
    BY Bounds
  <1>2. Len(s.rtt) = 0
    OBVIOUS
  <1> QED BY <1>1, <1>2 DEF Due

\* Sets and files without a sample agree.
LEMMA NothingIsBooked ==
    /\ NothingDumped \in Files
    /\ Booked(NothingDumped, Blank) /\ Rowed(NothingDumped, Blank)
    /\ \A periodic \in BOOLEAN : Tabled(Blank, periodic)
  <1> DEFINE none == [r \in Rtds |-> NoSamples]
  <1>1. /\ \A c \in Counters : NothingDumped.n[c] = 0 /\ Blank.last[c] = 0
        /\ NothingDumped.rtd = none /\ Blank.rtd = none /\ Blank.rtdPeriod = none /\ Blank.table = none
        /\ NothingDumped.length = NoSamples /\ Blank.length = NoSamples
        /\ Blank.lengthPeriod = NoSamples /\ Blank.lengthTable = NoSamples
        /\ \A t \in Ticked : NothingDumped.ticks[t] = 0 /\ Blank.ticks[t].dumped = 0
        /\ NothingDumped.rtt = <<>> /\ Blank.rtt = <<>>
    BY DEF NothingDumped, Blank
  <1>2. \A r \in Rtds, k \in Classes : none[r][k] = 0
    BY NoneYet
  <1>3. NothingDumped \in Files
    <2>1. NoSamples \in [Classes -> Int]
      BY DEF NoSamples
    <2> QED BY <2>1 DEF NothingDumped, Files
  <1>4. Booked(NothingDumped, Blank)
    <2> HIDE DEF none
    <2> QED BY <1>1, <1>2, NoneYet DEF Booked
  <1>5. Rowed(NothingDumped, Blank)
    <2>1. NothingDumped.rtt \o Blank.rtt = <<>>
      BY <1>1
    <2>2. \A r \in Rtds, k \in Classes : RowsOf(<<>>, r, k) = {}
      BY DEF RowsOf
    <2> QED BY <1>1, <1>2, <2>1, <2>2, FS_EmptySet DEF Rowed
  <1>6. \A periodic \in BOOLEAN : Tabled(Blank, periodic)
    BY <1>1 DEF Tabled
  <1> QED BY <1>3, <1>4, <1>5, <1>6

LEMMA InitAccounts == Init => Accounts
  <1> SUFFICES ASSUME Init PROVE Accounts
    OBVIOUS
  <1>1. stats = [s \in Scenarios |-> Blank] /\ files = NothingDumped /\ Main \in Scenarios
    BY Bounds DEF Init
  <1>2. \A sc \in Scenarios : PeriodicAt(sc) \in BOOLEAN
    BY Bounds DEF PeriodicAt, Periodic
  <1>3. Sets(stats, files)
    BY <1>1, <1>2, NothingIsBooked, BlankIsTyped DEF Sets
  <1>4. Rated(screen, stats)
    <2>1. Blank.n["created"] = 0
      BY Bounds DEF Blank
    <2>2. screen = [shows |-> Main, created |-> 0, rated |-> 0, base |-> 0]
      BY DEF Init
    <2> QED BY <1>1, <2>1, <2>2 DEF Rated
  <1>5. Flushed(stats, over)
    <2>1. Blank.rtt = <<>>
      BY DEF Blank
    <2>2. ~Due(Blank)
      BY <2>1, NothingIsDue
    <2>3. over = FALSE
      BY DEF Init
    <2> QED BY <1>1, <2>1, <2>2, <2>3 DEF Flushed
  <1>6. Bounded
    <2>1. failures = 0 /\ clock = 0 /\ events = 0 /\ turns = 0 /\ over = FALSE
      BY DEF Init
    <2>2. over \in BOOLEAN
      BY <2>1
    <2>3. 0 \in 0..MaxSeconds /\ 0 \in 0..MaxEvents /\ 0 \in 0..MaxTurns
      BY Bounds
    <2> QED BY <2>1, <2>2, <2>3 DEF Bounded
  <1> QED BY <1>3, <1>4, <1>5, <1>6 DEF Accounts

\* flush_rtt, due or not.
LEMMA FlushIs ==
    ASSUME NEW f \in Files, NEW s \in StatSet
    PROVE  LET d == Flush(s)
               v == [f EXCEPT !.rtt = @ \o d.rtt]
           IN  /\ v \in Files /\ d.s \in StatSet /\ d.s.n = s.n /\ ~Due(d.s)
               /\ Booked(f, s) => Booked(v, d.s)
               /\ Rowed(f, s) => Rowed(v, d.s)
               /\ \A periodic \in BOOLEAN : Tabled(s, periodic) => Tabled(d.s, periodic)
  <1>1. CASE Due(s)
    <2>1. Flush(s).s = [s EXCEPT !.rtt = <<>>] /\ Flush(s).rtt = s.rtt
      BY <1>1 DEF Flush
    <2>2. [s EXCEPT !.rtt = <<>>].rtt = <<>>
      BY RowsAreWritten
    <2>3. ~Due([s EXCEPT !.rtt = <<>>])
      BY <2>2, NothingIsDue
    <2> QED BY <2>1, <2>3, RowsAreWritten
  <1>2. CASE ~Due(s)
    <2>1. Flush(s).s = s /\ Flush(s).rtt = <<>>
      BY <1>2 DEF Flush
    <2>2. f.rtt \o <<>> = f.rtt
      BY FileFields, ConcatEmptySeq
    <2>3. [f EXCEPT !.rtt = @ \o <<>>] = f
      BY <2>2 DEF Files
    <2> QED BY <1>2, <2>1, <2>3
  <1> QED BY <1>1, <1>2

LEMMA FeedsKeeps ==
    ASSUME Accounts, NEW sc \in Scenarios, NEW changed, Grows(stats[sc], changed, sc = Main),
           Feeds(sc, changed), failures' \in Nat
    PROVE  Accounts'
  <1> DEFINE all == [stats EXCEPT ![sc] = changed]
             d == Flush(all[Main])
  <1>1. /\ Sets(stats, files) /\ Rated(screen, stats) /\ Flushed(stats, over) /\ Bounded
        /\ Main \in Scenarios /\ stats \in [Scenarios -> StatSet] /\ files \in Files
    BY Bounds DEF Accounts, Sets
  <1>2. /\ changed \in StatSet /\ changed.n["created"] >= stats[sc].n["created"]
        /\ \A periodic \in BOOLEAN : Tabled(stats[sc], periodic) => Tabled(changed, periodic)
        /\ Booked(files, stats[sc]) => Booked(files, changed)
        /\ sc = Main => (Rowed(files, stats[sc]) => Rowed(files, changed))
    BY <1>1 DEF Grows
  <1>3. all \in [Scenarios -> StatSet] /\ all[sc] = changed /\ \A o \in Scenarios \ {sc} : all[o] = stats[o]
    BY <1>1, <1>2
  <1>4. \A o \in Scenarios : PeriodicAt(o) \in BOOLEAN
    BY Bounds DEF PeriodicAt, Periodic
  <1>5. Booked(files, all[Main]) /\ Rowed(files, all[Main])
    <2>1. CASE sc = Main
      BY <1>1, <1>2, <1>3, <2>1 DEF Sets
    <2>2. CASE sc # Main
      BY <1>1, <1>3, <2>2 DEF Sets
    <2> QED BY <2>1, <2>2
  <1>6. \A o \in Scenarios : Tabled(all[o], PeriodicAt(o))
    BY <1>1, <1>2, <1>3, <1>4 DEF Sets
  <1>7. /\ stats' = [all EXCEPT ![Main] = d.s] /\ files' = [files EXCEPT !.rtt = @ \o d.rtt]
        /\ screen' = screen /\ clock' = clock /\ turns' = turns /\ over' = over
        /\ ~over /\ events < MaxEvents /\ events' = events + 1
    BY DEF Feeds
  <1> HIDE DEF all
  <1>8. all[Main] \in StatSet
    BY <1>1, <1>3
  <1>9. /\ files' \in Files /\ d.s \in StatSet /\ d.s.n = all[Main].n /\ ~Due(d.s)
        /\ Booked(files', d.s) /\ Rowed(files', d.s)
        /\ Tabled(all[Main], PeriodicAt(Main)) => Tabled(d.s, PeriodicAt(Main))
    BY <1>1, <1>4, <1>5, <1>7, <1>8, FlushIs
  <1> HIDE DEF d
  <1>10. /\ stats' \in [Scenarios -> StatSet] /\ stats'[Main] = d.s
         /\ \A o \in Scenarios \ {Main} : stats'[o] = all[o]
    BY <1>3, <1>7, <1>9, <1>1
  <1>11. Sets(stats', files')
    BY <1>1, <1>6, <1>9, <1>10 DEF Sets
  <1>12. \A o \in Scenarios : stats'[o].n["created"] >= stats[o].n["created"]
    <2> TAKE o \in Scenarios
    <2>1. stats'[o].n = all[o].n
      BY <1>9, <1>10
    <2>2. stats[o].n["created"] \in Nat
      BY <1>1, Bounds DEF StatSet
    <2>3. all[o].n["created"] >= stats[o].n["created"]
      BY <1>2, <1>3, <2>2
    <2> QED BY <2>1, <2>3
  <1>13. Rated(screen', stats')
    <2>1. screen.shows \in Scenarios
      BY <1>1 DEF Rated
    <2>2. /\ stats[screen.shows].n["created"] \in Nat /\ stats'[screen.shows].n["created"] \in Nat
          /\ screen.created \in Nat /\ screen.created <= stats[screen.shows].n["created"]
          /\ stats'[screen.shows].n["created"] >= stats[screen.shows].n["created"]
      BY <1>1, <1>10, <1>12, <2>1, Bounds DEF StatSet, Rated
    <2>3. screen.created <= stats'[screen.shows].n["created"]
      BY <2>2
    <2> QED BY <1>1, <1>7, <2>3 DEF Rated
  <1>14. Flushed(stats', over')
    BY <1>7, <1>9, <1>10 DEF Flushed
  <1>15. Bounded'
    BY <1>1, <1>7, Bounds DEF Bounded
  <1> QED BY <1>11, <1>13, <1>14, <1>15 DEF Accounts

\* What is counted and shown later leaves the invariant as it is.
LEMMA TurnKeeps ==
    ASSUME Bounded, Turn, UNCHANGED <<failures, clock, over>>, events' = events
    PROVE  Bounded'
  <1>1. turns + 1 \in 0..MaxTurns
    BY Bounds DEF Bounded, Turn
  <1> QED BY <1>1 DEF Bounded, Turn

LEMMA DumpKeeps == ASSUME Accounts, Dump PROVE Accounts'
  <1> DEFINE d == Dumped(files, stats[Main])
  <1>1. /\ Sets(stats, files) /\ Rated(screen, stats) /\ Flushed(stats, over) /\ Bounded
        /\ Main \in Scenarios /\ stats \in [Scenarios -> StatSet] /\ files \in Files
        /\ Booked(files, stats[Main]) /\ Rowed(files, stats[Main])
        /\ \A sc \in Scenarios : Tabled(stats[sc], PeriodicAt(sc))
    BY Bounds DEF Accounts, Sets
  <1>2. Tabled(stats[Main], Periodic) /\ stats[Main] \in StatSet /\ (PeriodicAt(Main) <=> Periodic)
    BY <1>1 DEF PeriodicAt, Tabled
  <1>3. /\ d.f \in Files /\ d.s \in StatSet /\ d.s.n = stats[Main].n /\ d.s.rtt = stats[Main].rtt
        /\ Booked(d.f, d.s) /\ Rowed(d.f, d.s) /\ Tabled(d.s, Periodic)
    BY <1>1, <1>2, DumpedIs
  <1>4. /\ Turn /\ stats' = [stats EXCEPT ![Main] = d.s] /\ files' = d.f
        /\ UNCHANGED <<screen, failures, clock, events, over>>
    BY DEF Dump
  <1> HIDE DEF d
  <1>5. /\ stats' \in [Scenarios -> StatSet] /\ stats'[Main] = d.s
        /\ \A o \in Scenarios \ {Main} : stats'[o] = stats[o]
    BY <1>1, <1>3, <1>4
  <1>6. Sets(stats', files')
    <2>1. \A o \in Scenarios : Tabled(stats'[o], PeriodicAt(o))
      BY <1>1, <1>2, <1>3, <1>5 DEF PeriodicAt, Tabled
    <2> QED BY <1>3, <1>4, <1>5, <2>1 DEF Sets
  <1>7. Rated(screen', stats')
    BY <1>1, <1>3, <1>4, <1>5 DEF Rated
  <1>8. Flushed(stats', over')
    BY <1>1, <1>3, <1>4, <1>5 DEF Flushed, Due
  <1>9. Bounded'
    BY <1>1, <1>4, TurnKeeps
  <1> QED BY <1>6, <1>7, <1>8, <1>9 DEF Accounts

\* A snapshot counts the calls up to now.
LEMMA PublishedIs ==
    ASSUME stats \in [Scenarios -> StatSet], Rated(screen, stats)
    PROVE  /\ Published.shows = screen.shows
           /\ Rated(Published, stats)
  <1> DEFINE created == Shown.n["created"]
             rated == screen.rated + created - screen.created
  <1>1. /\ screen \in [shows : Scenarios, created : Nat, rated : Nat, base : Nat]
        /\ screen.created = screen.base + screen.rated /\ screen.created <= created /\ created \in Nat
    BY Bounds DEF Rated, Shown, StatSet
  <1>2. Published = [screen EXCEPT !.rated = rated, !.created = created]
    BY DEF Published
  <1>3. rated \in Nat /\ created = screen.base + rated /\ created <= created
    BY <1>1
  <1>4. Shown = stats[screen.shows]
    BY DEF Shown
  <1> HIDE DEF created, rated
  <1>5. /\ Published \in [shows : Scenarios, created : Nat, rated : Nat, base : Nat]
        /\ Published.shows = screen.shows /\ Published.created = created
        /\ Published.rated = rated /\ Published.base = screen.base
    BY <1>1, <1>2, <1>3
  <1> QED BY <1>3, <1>4, <1>5 DEF Rated, created

LEMMA RefreshKeeps == ASSUME Accounts, Refresh PROVE Accounts'
  <1>1. /\ Sets(stats, files) /\ Rated(screen, stats) /\ Flushed(stats, over) /\ Bounded
        /\ Main \in Scenarios /\ stats \in [Scenarios -> StatSet] /\ files \in Files
        /\ Booked(files, stats[Main]) /\ Rowed(files, stats[Main])
        /\ \A sc \in Scenarios : Tabled(stats[sc], PeriodicAt(sc))
    BY Bounds DEF Accounts, Sets
  <1> DEFINE s == stats[screen.shows]
             u == EndDisplayPeriod(s)
  <1>2. screen.shows \in Scenarios /\ s \in StatSet
    BY <1>1 DEF Rated
  <1>3. /\ u.n = s.n /\ u.last = s.last /\ u.rtd = s.rtd /\ u.rtdPeriod = s.rtdPeriod
        /\ u.length = s.length /\ u.lengthPeriod = s.lengthPeriod /\ u.table = s.table
        /\ u.lengthTable = s.lengthTable /\ u.rtt = s.rtt /\ u \in StatSet
        /\ \A t \in Ticked : u.ticks[t].dumped = s.ticks[t].dumped
    <2>1. u \in StatSet /\ u = [s EXCEPT !.ticks = [t \in Ticked |-> ShownAnew(s.ticks[t])]]
      BY <1>2, EndDisplayPeriodIs
    <2>2. s.ticks \in [Ticked -> Periods]
      BY <1>2 DEF StatSet, Periods
    <2> HIDE DEF s, u
    <2>3. /\ u.n = s.n /\ u.last = s.last /\ u.rtd = s.rtd /\ u.rtdPeriod = s.rtdPeriod
          /\ u.length = s.length /\ u.lengthPeriod = s.lengthPeriod /\ u.table = s.table
          /\ u.lengthTable = s.lengthTable /\ u.rtt = s.rtt
          /\ u.ticks = [t \in Ticked |-> ShownAnew(s.ticks[t])]
      BY <1>2, <2>1 DEF StatSet
    <2>4. \A p \in Periods : ShownAnew(p).dumped = p.dumped
      BY DEF ShownAnew, Periods
    <2> QED BY <2>1, <2>2, <2>3, <2>4
  <1>4. /\ Turn /\ stats' = [stats EXCEPT ![screen.shows] = u] /\ screen' = Published
        /\ UNCHANGED <<files, failures, clock, events, over>>
    BY DEF Refresh
  <1> HIDE DEF u
  <1>5. /\ stats' \in [Scenarios -> StatSet] /\ stats'[screen.shows] = u
        /\ \A o \in Scenarios \ {screen.shows} : stats'[o] = stats[o]
    BY <1>1, <1>2, <1>3, <1>4
  <1>6. \A o \in Scenarios :
           /\ stats'[o].n = stats[o].n /\ stats'[o].rtt = stats[o].rtt
           /\ \A f : Booked(f, stats[o]) => Booked(f, stats'[o])
           /\ \A f : Rowed(f, stats[o]) => Rowed(f, stats'[o])
           /\ Tabled(stats[o], PeriodicAt(o)) => Tabled(stats'[o], PeriodicAt(o))
    BY <1>3, <1>5 DEF Booked, Rowed, Tabled
  <1>7. Sets(stats', files')
    BY <1>1, <1>4, <1>5, <1>6 DEF Sets
  <1>8. Rated(screen', stats')
    BY <1>1, <1>4, <1>6, <1>2, PublishedIs DEF Rated
  <1>9. Flushed(stats', over')
    BY <1>1, <1>4, <1>6 DEF Flushed, Due
  <1>10. Bounded'
    BY <1>1, <1>4, TurnKeeps
  <1> QED BY <1>7, <1>8, <1>9, <1>10 DEF Accounts

LEMMA ScreenKeyKeeps == ASSUME Accounts, ScreenKey PROVE Accounts'
  <1>1. Sets(stats, files) /\ Rated(screen, stats) /\ Flushed(stats, over) /\ Bounded
        /\ stats \in [Scenarios -> StatSet]
    BY DEF Accounts, Sets
  <1>2. Turn /\ screen' = Published /\ UNCHANGED <<stats, files, failures, clock, events, over>>
    BY DEF ScreenKey
  <1>3. Rated(screen', stats')
    BY <1>1, <1>2, PublishedIs
  <1>4. Bounded'
    BY <1>1, <1>2, TurnKeeps
  <1> QED BY <1>1, <1>2, <1>3, <1>4 DEF Accounts

LEMMA SetDisplayKeeps == ASSUME Accounts, SetDisplay PROVE Accounts'
  <1>1. Sets(stats, files) /\ Flushed(stats, over) /\ Bounded /\ stats \in [Scenarios -> StatSet]
    BY DEF Accounts, Sets
  <1>2. PICK shows \in Scenarios : screen' = Displays(shows)
    BY DEF SetDisplay
  <1>3. Turn /\ UNCHANGED <<stats, files, failures, clock, events, over>>
    BY DEF SetDisplay
  <1>4. stats[shows].n["created"] \in Nat
    BY <1>1, Bounds DEF StatSet
  <1>5. Rated(screen', stats')
    BY <1>2, <1>3, <1>4 DEF Rated, Displays
  <1>6. Bounded'
    BY <1>1, <1>3, TurnKeeps
  <1> QED BY <1>1, <1>3, <1>5, <1>6 DEF Accounts

LEMMA ResetStatsKeeps == ASSUME Accounts, ResetStats PROVE Accounts'
  <1>1. /\ Rated(screen, stats) /\ Flushed(stats, over) /\ Bounded
        /\ Main \in Scenarios /\ stats \in [Scenarios -> StatSet] /\ files \in Files
    BY Bounds DEF Accounts, Sets
  <1>2. /\ Turn /\ stats' = [sc \in Scenarios |-> Reset(stats[sc])]
        /\ screen' = [screen EXCEPT !.created = 0, !.rated = 0, !.base = 0]
        /\ files' = [NothingDumped EXCEPT
                        !.statHeader = files.statHeader, !.countsHeader = files.countsHeader,
                        !.statRow = files.statRow, !.countsRow = files.countsRow]
        /\ UNCHANGED <<failures, clock, events, over>>
    BY DEF ResetStats
  <1>3. stats' = [sc \in Scenarios |-> Blank]
    <2>1. \A sc \in Scenarios : Reset(stats[sc]) = Blank
      BY <1>1, ResetIs
    <2> QED BY <1>2, <2>1
  <1>4. files' = NothingDumped
    <2>1. /\ files.statHeader = NothingDumped.statHeader /\ files.countsHeader = NothingDumped.countsHeader
          /\ files.statRow = NothingDumped.statRow /\ files.countsRow = NothingDumped.countsRow
      BY <1>1, NothingIsBooked DEF Files
    <2>2. \A f \in Files : [f EXCEPT !.statHeader = f.statHeader, !.countsHeader = f.countsHeader,
                                     !.statRow = f.statRow, !.countsRow = f.countsRow] = f
      BY DEF Files
    <2> QED BY <1>2, <2>1, <2>2, NothingIsBooked
  <1>5. \A sc \in Scenarios : PeriodicAt(sc) \in BOOLEAN
    BY Bounds DEF PeriodicAt, Periodic
  <1>6. Sets(stats', files')
    BY <1>1, <1>3, <1>4, <1>5, NothingIsBooked, BlankIsTyped DEF Sets
  <1>7. Rated(screen', stats')
    <2>1. Blank.n["created"] = 0
      BY Bounds DEF Blank
    <2>2. screen'.shows = screen.shows /\ screen'.created = 0 /\ screen'.rated = 0 /\ screen'.base = 0
      BY <1>1, <1>2 DEF Rated
    <2>3. screen' \in [shows : Scenarios, created : Nat, rated : Nat, base : Nat]
      BY <1>1, <1>2 DEF Rated
    <2>4. stats'[screen'.shows].n["created"] = 0
      BY <1>3, <2>1, <2>3
    <2> QED BY <2>2, <2>3, <2>4 DEF Rated
  <1>8. Flushed(stats', over')
    <2>1. Blank.rtt = <<>>
      BY DEF Blank
    <2> QED BY <1>1, <1>3, <2>1, NothingIsDue DEF Flushed
  <1>9. Bounded'
    BY <1>1, <1>2, TurnKeeps
  <1> QED BY <1>6, <1>7, <1>8, <1>9 DEF Accounts

LEMMA RestartKeeps == ASSUME Accounts, RestartLog PROVE Accounts'
  <1>1. Turn /\ failures' = 0 /\ UNCHANGED <<stats, screen, files, clock, events, over>>
    BY DEF RestartLog
  <1>2. MaxTurns \in Nat /\ turns \in 0..MaxTurns /\ turns < MaxTurns
    BY <1>1, Bounds DEF Accounts, Bounded, Turn
  <1>3. turns' \in 0..MaxTurns
    BY <1>1, <1>2 DEF Turn
  <1>4. Bounded'
    BY <1>1, <1>3 DEF Accounts, Bounded
  <1> QED BY <1>1, <1>4 DEF Accounts

LEMMA SecondKeeps == ASSUME Accounts, SecondPasses PROVE Accounts'
  <1>1. UNCHANGED <<stats, screen, files, failures, events, turns, over>> /\ clock' = clock + 1 /\ clock < MaxSeconds
    BY DEF SecondPasses
  <1>2. MaxSeconds \in Nat /\ clock \in 0..MaxSeconds
    BY Bounds DEF Accounts, Bounded
  <1>3. clock' \in 0..MaxSeconds
    BY <1>1, <1>2
  <1> QED BY <1>1, <1>3 DEF Accounts, Bounded

LEMMA FinishKeeps == ASSUME Accounts, Finish PROVE Accounts'
  <1> DEFINE d == Dumped(files, stats[Main])
             v == [d.f EXCEPT !.rtt = @ \o d.s.rtt]
             u == [d.s EXCEPT !.rtt = <<>>]
             last == IF "rtt" \in Traces THEN [s |-> u, rtt |-> d.s.rtt] ELSE [s |-> d.s, rtt |-> <<>>]
             written == [d.f EXCEPT !.rtt = @ \o last.rtt]
  <1>1. /\ Sets(stats, files) /\ Rated(screen, stats) /\ Flushed(stats, over) /\ Bounded
        /\ Main \in Scenarios /\ stats \in [Scenarios -> StatSet] /\ files \in Files
        /\ Booked(files, stats[Main]) /\ Rowed(files, stats[Main])
        /\ \A sc \in Scenarios : Tabled(stats[sc], PeriodicAt(sc))
    BY Bounds DEF Accounts, Sets
  <1>2. Tabled(stats[Main], Periodic) /\ stats[Main] \in StatSet /\ (PeriodicAt(Main) <=> Periodic)
    BY <1>1 DEF PeriodicAt, Tabled
  <1>3. /\ d.f \in Files /\ d.s \in StatSet /\ d.s.n = stats[Main].n /\ d.s.rtt = stats[Main].rtt
        /\ Booked(d.f, d.s) /\ Rowed(d.f, d.s) /\ Tabled(d.s, Periodic)
    BY <1>1, <1>2, DumpedIs
  <1>4. /\ ~over /\ over' = TRUE /\ stats' = [stats EXCEPT ![Main] = last.s] /\ files' = written
        /\ screen' = Published /\ UNCHANGED <<failures, clock, events, turns>>
    BY DEF Finish
  <1> HIDE DEF d
  <1>5. Periodic \in BOOLEAN
    BY Bounds DEF Periodic
  <1>6. /\ written \in Files /\ last.s \in StatSet /\ last.s.n = stats[Main].n
        /\ Booked(written, last.s) /\ Rowed(written, last.s) /\ Tabled(last.s, Periodic)
        /\ "rtt" \in Traces => last.s.rtt = <<>>
    <2>1. CASE "rtt" \in Traces
      <3>1. last.s = u /\ last.rtt = d.s.rtt /\ written = v
        BY <2>1
      <3>2. /\ v \in Files /\ u \in StatSet /\ u.n = d.s.n /\ u.rtt = <<>>
            /\ Booked(v, u) /\ Rowed(v, u) /\ Tabled(u, Periodic)
        BY <1>3, <1>5, RowsAreWritten
      <3> HIDE DEF u, v, last, written
      <3> QED BY <1>3, <3>1, <3>2
    <2>2. CASE "rtt" \notin Traces
      <3>1. last.s = d.s /\ last.rtt = <<>>
        BY <2>2
      <3>2. d.f.rtt \o <<>> = d.f.rtt
        BY <1>3, FileFields, ConcatEmptySeq
      <3>3. [d.f EXCEPT !.rtt = @ \o <<>>] = d.f
        BY <1>3, <3>2 DEF Files
      <3>4. written = d.f
        BY <3>1, <3>3
      <3> HIDE DEF last, written
      <3> QED BY <1>3, <2>2, <3>1, <3>4
    <2> QED BY <2>1, <2>2
  <1> HIDE DEF last, written
  <1>7. /\ stats' \in [Scenarios -> StatSet] /\ stats'[Main] = last.s
        /\ \A o \in Scenarios \ {Main} : stats'[o] = stats[o]
    BY <1>1, <1>4, <1>6
  <1>8. Sets(stats', files')
    <2>1. \A o \in Scenarios : Tabled(stats'[o], PeriodicAt(o))
      BY <1>1, <1>2, <1>6, <1>7 DEF PeriodicAt, Tabled
    <2> QED BY <1>4, <1>6, <1>7, <2>1 DEF Sets
  <1>9. Rated(screen', stats')
    <2>1. Rated(Published, stats) /\ Published.shows = screen.shows
      BY <1>1, PublishedIs
    <2>2. \A o \in Scenarios : stats'[o].n = stats[o].n
      BY <1>1, <1>6, <1>7
    <2> QED BY <1>4, <2>1, <2>2 DEF Rated
  <1>10. Flushed(stats', over')
    BY <1>4, <1>6, <1>7, NothingIsDue DEF Flushed
  <1>11. Bounded'
    BY <1>1, <1>4 DEF Bounded
  <1> QED BY <1>8, <1>9, <1>10, <1>11 DEF Accounts

LEMMA NextAccounts == ASSUME Accounts, [Next]_vars PROVE Accounts'
  <1>1. stats \in [Scenarios -> StatSet] /\ failures \in Nat
    BY DEF Accounts, Sets, Bounded
  <1>2. CASE CallOpens
    <2>1. PICK sc \in Scenarios : Feeds(sc, Counted(stats[sc], "created"))
      BY <1>2 DEF CallOpens
    <2>2. failures' \in Nat
      BY <1>1, <1>2 DEF CallOpens, Quiet
    <2>3. Grows(stats[sc], Counted(stats[sc], "created"), sc = Main)
      BY <1>1, Bounds, CountedGrows
    <2> QED BY <2>1, <2>2, <2>3, FeedsKeeps
  <1>3. CASE StepRuns
    <2>1. PICK sc \in Scenarios, t \in Ticked, r \in Rtds, k \in Classes :
             Feeds(sc, RecordRtd(Tick(stats[sc], t), r, k, sc = Main /\ "rtt" \in Traces))
      BY <1>3 DEF StepRuns
    <2>2. failures' \in Nat
      BY <1>1, <1>3 DEF StepRuns, Quiet
    <2> DEFINE u == Tick(stats[sc], t)
               traced == sc = Main /\ "rtt" \in Traces
    <2>3. Grows(stats[sc], u, sc = Main) /\ u \in StatSet
      <3>1. stats[sc] \in StatSet
        BY <1>1
      <3>2. Grows(stats[sc], Tick(stats[sc], t), sc = Main)
        BY <3>1, TickGrows
      <3> QED BY <3>2 DEF Grows
    <2>4. traced \in BOOLEAN /\ (sc = Main => (traced <=> "rtt" \in Traces))
      OBVIOUS
    <2> HIDE DEF u, traced
    <2>5. Grows(u, RecordRtd(u, r, k, traced), sc = Main)
      BY <2>3, <2>4, RecordRtdGrows
    <2>6. Grows(stats[sc], RecordRtd(u, r, k, traced), sc = Main)
      BY <1>1, <2>3, <2>5, GrowsTwice
    <2> QED BY <2>1, <2>2, <2>6, FeedsKeeps DEF u, traced
  <1>4. CASE UnexpectedResponse
    <2>1. PICK sc \in Scenarios : Feeds(sc, [stats[sc] EXCEPT !.codes = @ + 1])
      BY <1>4 DEF UnexpectedResponse
    <2>2. failures' \in Nat
      BY <1>1, <1>4 DEF UnexpectedResponse, Quiet
    <2>3. Grows(stats[sc], [stats[sc] EXCEPT !.codes = @ + 1], sc = Main)
      BY <1>1, CodesGrow
    <2> QED BY <2>1, <2>2, <2>3, FeedsKeeps
  <1>5. CASE CallCompletes
    <2>1. PICK sc \in Scenarios, k \in Classes : Feeds(sc, RecordLength(stats[sc], k))
      BY <1>5 DEF CallCompletes
    <2>2. failures' \in Nat
      BY <1>1, <1>5 DEF CallCompletes, Quiet
    <2>3. Grows(stats[sc], RecordLength(stats[sc], k), sc = Main)
      BY <1>1, RecordLengthGrows
    <2> QED BY <2>1, <2>2, <2>3, FeedsKeeps
  <1>6. CASE CallFails
    <2>1. PICK sc \in Scenarios, k \in Classes : Feeds(sc, RecordLength(Counted(stats[sc], "failed"), k))
      BY <1>6 DEF CallFails
    <2>2. failures' \in Nat
      BY <1>1, <1>6 DEF CallFails
    <2>3. Grows(stats[sc], Counted(stats[sc], "failed"), sc = Main) /\ Counted(stats[sc], "failed") \in StatSet
      BY <1>1, Bounds, CountedGrows, CountedIs
    <2>4. Grows(Counted(stats[sc], "failed"), RecordLength(Counted(stats[sc], "failed"), k), sc = Main)
      BY <2>3, RecordLengthGrows
    <2>5. Grows(stats[sc], RecordLength(Counted(stats[sc], "failed"), k), sc = Main)
      BY <1>1, <2>3, <2>4, GrowsTwice
    <2> QED BY <2>1, <2>2, <2>5, FeedsKeeps
  <1>7. CASE UNCHANGED vars
    BY <1>7 DEF vars, Accounts, Bounded
  <1> QED
    BY <1>2, <1>3, <1>4, <1>5, <1>6, <1>7, DumpKeeps, RefreshKeeps, ScreenKeyKeeps, SetDisplayKeeps,
       ResetStatsKeeps, RestartKeeps, FinishKeeps, SecondKeeps DEF Next

\* What the statistics say of calls and times adds up: the rows a reader sums up,
\* the totals, and the rate on the display (csv_row, end_period, build_snapshot).
THEOREM CountsAlwaysAddUp == Spec => []CountsAddUp
  <1>1. ASSUME Accounts PROVE CountsAddUp
    <2>1. /\ Rated(screen, stats) /\ Bounded /\ Booked(files, stats[Main])
          /\ stats \in [Scenarios -> StatSet] /\ files \in Files
      BY <1>1 DEF Accounts, Sets
    <2>2. TypeOK
      BY <2>1 DEF TypeOK, Rated, Bounded
    <2>3. PeriodsAddUp
      <3> SUFFICES ASSUME "stat" \in Traces PROVE PeriodsAddUp
        BY DEF PeriodsAddUp
      <3> DEFINE s == stats[Main]
      <3>1. s \in StatSet
        BY <2>1, Bounds
      <3>2. Booked(files, s)
        BY <2>1
      <3> HIDE DEF s
      <3>3. /\ s.n \in [Counters -> Nat] /\ s.last \in [Counters -> Nat]
            /\ s.rtd \in [Rtds -> [Classes -> Nat]] /\ s.rtdPeriod \in [Rtds -> [Classes -> Nat]]
            /\ s.length \in [Classes -> Nat] /\ s.lengthPeriod \in [Classes -> Nat]
            /\ s.ticks \in [Ticked -> Periods]
        BY <3>1 DEF StatSet, Samples, Periods
      <3>4. Sum(files.n, Grown(s.n, s.last)) = s.n
        <4>1. Sum(files.n, Grown(s.n, s.last)) = [c \in Counters |-> files.n[c] + (s.n[c] - s.last[c])]
          BY <2>1, <3>3, FileFields DEF Sum, Grown
        <4>2. \A c \in Counters : files.n[c] + (s.n[c] - s.last[c]) = s.n[c]
          <5> TAKE c \in Counters
          <5>1. s.n[c] \in Nat /\ s.last[c] \in Nat /\ files.n[c] = s.last[c]
            BY <3>2, <3>3 DEF Booked
          <5> QED BY <5>1
        <4> QED BY <3>3, <4>1, <4>2
      <3>5. \A r \in Rtds : Sum(files.rtd[r], s.rtdPeriod[r]) = s.rtd[r]
        <4> TAKE r \in Rtds
        <4>1. /\ files.rtd[r] \in [Classes -> Int] /\ s.rtd[r] \in [Classes -> Nat]
              /\ \A k \in Classes : files.rtd[r][k] + s.rtdPeriod[r][k] = s.rtd[r][k]
          BY <2>1, <3>2, <3>3, FileFields DEF Booked
        <4>2. Sum(files.rtd[r], s.rtdPeriod[r]) = [k \in Classes |-> files.rtd[r][k] + s.rtdPeriod[r][k]]
          BY <4>1 DEF Sum
        <4> QED BY <4>1, <4>2
      <3>6. Sum(files.length, s.lengthPeriod) = s.length
        <4>1. \A k \in Classes : files.length[k] + s.lengthPeriod[k] = s.length[k]
          BY <3>2 DEF Booked
        <4>2. Sum(files.length, s.lengthPeriod) = [k \in Classes |-> files.length[k] + s.lengthPeriod[k]]
          BY <2>1, FileFields DEF Sum
        <4> QED BY <3>3, <4>1, <4>2
      <3>7. \A t \in Ticked : files.ticks[t] + s.ticks[t].total - s.ticks[t].dumped = s.ticks[t].total
        <4> TAKE t \in Ticked
        <4>1. s.ticks[t] \in Periods /\ files.ticks[t] = s.ticks[t].dumped
          BY <3>2, <3>3 DEF Booked
        <4>2. s.ticks[t].total \in Nat /\ s.ticks[t].dumped \in Nat
          BY <4>1 DEF Periods
        <4> QED BY <4>1, <4>2
      <3> QED BY <3>4, <3>5, <3>6, <3>7 DEF PeriodsAddUp, s
    <2>4. RatesCountCallsOnce
      <3>1. /\ screen.shows \in Scenarios /\ screen.created \in Nat /\ screen.rated \in Nat
            /\ screen.base \in Nat /\ screen.created = screen.base + screen.rated
        BY <2>1 DEF Rated
      <3>2. Shown.n["created"] \in Nat
        BY <2>1, <3>1, Bounds DEF Shown, StatSet
      <3> QED BY <3>1, <3>2 DEF RatesCountCallsOnce
    <2> QED BY <2>2, <2>3, <2>4 DEF CountsAddUp
  <1> QED BY <1>1, InitAccounts, NextAccounts, PTL DEF Spec

\* Each response time has its row, each sample its place in the tables, and each row
\* of a file the columns of its header (flush_rtt, record_rtd, csv_header).
THEOREM RowsAlwaysAgree == Spec => []RowsAgree
  <1>1. ASSUME Accounts PROVE RowsAgree
    <2>1. /\ Flushed(stats, over) /\ Rowed(files, stats[Main]) /\ files \in Files
          /\ \A sc \in Scenarios : Tabled(stats[sc], PeriodicAt(sc))
      BY <1>1 DEF Accounts, Sets
    <2>2. ResponsesHaveARow
      BY <2>1 DEF ResponsesHaveARow, Flushed, Rowed, RttRows
    <2>3. TablesFollowSamples
      BY <2>1 DEF TablesFollowSamples, Tabled, PeriodicAt, Periodic
    <2>4. RowsMatchHeaders
      BY <2>1, FileFields DEF RowsMatchHeaders
    <2> QED BY <2>2, <2>3, <2>4 DEF RowsAgree
  <1> QED BY <1>1, InitAccounts, NextAccounts, PTL DEF Spec

-----------------------------------------------------------------------------
(* The ring of rotated log files.                                           *)

Names == Nat \X Nat
Disks == UNION {[names -> Seq(Nat)] : names \in SUBSET Names}
LogFiles == [open : BOOLEAN, count : Nat, started : Nat, kept : Seq(Names), content : Seq(Nat),
             disk : Disks]

\* A file rotated later has a later name, so that it takes no other's place.
Before(a, b) == a[1] < b[1] \/ (a[1] = b[1] /\ a[2] < b[2])

\* The files kept are there under their names, in order and without a gap.
Chain(kept, disk, started) ==
    /\ Len(kept) <= RingFiles
    /\ \A i \in 1..Len(kept) : /\ kept[i] \in DOMAIN disk /\ kept[i][1] <= started
                              /\ disk[kept[i]] # <<>> /\ Ascend(disk[kept[i]])
    /\ \A i, j \in 1..Len(kept) : i < j => Before(kept[i], kept[j])
    /\ \A i \in 1..Len(kept) - 1 : GoesOnTo(disk[kept[i]], disk[kept[i + 1]])

\* The current file goes on where the ring ends.
Current(kept, disk, content) ==
    /\ Ascend(content)
    /\ Len(kept) > 0 => GoesOnTo(disk[kept[Len(kept)]], content)

\* The last row there is.
Latest(kept, disk, content, last) ==
    /\ content # <<>> => Ends(content, last)
    /\ content = <<>> /\ Len(kept) > 0 => Ends(disk[kept[Len(kept)]], last)

Ring ==
    /\ log \in LogFiles /\ failures \in Nat /\ clock \in Nat /\ log.started <= clock
    /\ Chain(log.kept, log.disk, log.started)
    /\ Current(log.kept, log.disk, log.content)
    /\ log.open => Latest(log.kept, log.disk, log.content, failures)

LEMMA DiskFiles ==
    ASSUME NEW disk \in Disks
    PROVE  DOMAIN disk \subseteq Names /\ \A f \in DOMAIN disk : disk[f] \in Seq(Nat)
  BY DEF Disks

LEMMA RenamedIs ==
    ASSUME NEW file \in LogFiles, NEW name \in Names, NEW left \in SUBSET DOMAIN file.disk
    PROVE  LET disk == Renamed(file, name, left) IN
           /\ disk \in Disks /\ DOMAIN disk = left \cup {name} /\ disk[name] = file.content
           /\ \A f \in left : f # name => disk[f] = file.disk[f]
  <1>1. file.disk \in Disks /\ file.content \in Seq(Nat)
    BY DEF LogFiles
  <1>2. left \cup {name} \in SUBSET Names /\ \A f \in left : file.disk[f] \in Seq(Nat)
    BY <1>1, DiskFiles
  <1>3. Renamed(file, name, left) \in [left \cup {name} -> Seq(Nat)]
    BY <1>1, <1>2 DEF Renamed
  <1>4. Renamed(file, name, left) \in Disks
    BY <1>2, <1>3 DEF Disks
  <1> QED BY <1>4 DEF Renamed

\* Appending the next row.
LEMMA RowGoesOn ==
    ASSUME NEW kept \in Seq(Names), NEW disk \in Disks, NEW content \in Seq(Nat), NEW last \in Nat,
           Current(kept, disk, content), Latest(kept, disk, content, last)
    PROVE  LET more == Append(content, last + 1) IN
           more \in Seq(Nat) /\ more # <<>> /\ Current(kept, disk, more) /\ Ends(more, last + 1)
  <1> DEFINE more == Append(content, last + 1)
  <1>1. /\ more \in Seq(Nat) /\ more # <<>> /\ Len(more) = Len(content) + 1
        /\ \A i \in 1..Len(content) : more[i] = content[i]
    BY AppendProperties
  <1>2. more[Len(content) + 1] = last + 1
    BY AppendProperties
  <1> HIDE DEF more
  <1>3. Len(content) \in Nat
    OBVIOUS
  <1>4. ASSUME NEW i \in 1..Len(more) - 1 PROVE more[i + 1] = more[i] + 1
    <2>1. CASE i < Len(content)
      <3>1. i \in 1..Len(content) - 1 /\ i \in 1..Len(content) /\ i + 1 \in 1..Len(content)
        BY <1>1, <1>3, <2>1
      <3>2. content[i + 1] = content[i] + 1
        BY <3>1 DEF Current, Ascend
      <3> QED BY <1>1, <3>1, <3>2
    <2>2. CASE i = Len(content)
      <3>1. content # <<>> /\ content[Len(content)] = last
        BY <1>1, <2>2 DEF Latest, Ends
      <3> QED BY <1>1, <1>2, <2>2, <3>1
    <2> QED BY <1>1, <1>3, <2>1, <2>2
  <1>5. Len(kept) > 0 => GoesOnTo(disk[kept[Len(kept)]], more)
    <2>1. CASE content = <<>>
      <3>1. more[1] = last + 1
        BY <1>2, <2>1
      <3> QED BY <2>1, <3>1 DEF GoesOnTo, Latest, Ends
    <2>2. CASE content # <<>>
      <3>1. more[1] = content[1]
        BY <1>1, <1>3, <2>2
      <3> QED BY <2>2, <3>1 DEF GoesOnTo, Current
    <2> QED BY <2>1, <2>2
  <1>6. Ends(more, last + 1)
    BY <1>1, <1>2 DEF Ends
  <1> QED BY <1>1, <1>4, <1>5, <1>6 DEF Current, Ascend, more

\* Deleting the oldest file.
LEMMA OldestGoes ==
    ASSUME NEW kept \in Seq(Names), NEW disk \in Disks, NEW started \in Nat, kept # <<>>,
           Chain(kept, disk, started)
    PROVE  LET rest == Tail(kept) IN
           /\ rest \in Seq(Names) /\ Len(rest) = Len(kept) - 1 /\ Chain(rest, disk, started)
           /\ \A i \in 1..Len(rest) : rest[i] # Head(kept)
           /\ Len(rest) > 0 => rest[Len(rest)] = kept[Len(kept)]
  <1> DEFINE rest == Tail(kept)
  <1>1. /\ rest \in Seq(Names) /\ Len(rest) = Len(kept) - 1 /\ Len(kept) \in Nat /\ Len(kept) >= 1
        /\ \A i \in 1..Len(rest) : rest[i] = kept[i + 1]
    BY HeadTailProperties
  <1>2. Head(kept) = kept[1]
    OBVIOUS
  <1> HIDE DEF rest
  <1>3. \A i \in 1..Len(rest) : i + 1 \in 1..Len(kept) /\ rest[i] = kept[i + 1]
    BY <1>1
  <1>4. Chain(rest, disk, started)
    <2>1. Len(rest) <= RingFiles
      BY <1>1, Bounds DEF Chain
    <2>2. \A i \in 1..Len(rest) : /\ rest[i] \in DOMAIN disk /\ rest[i][1] <= started
                                  /\ disk[rest[i]] # <<>> /\ Ascend(disk[rest[i]])
      BY <1>3 DEF Chain
    <2>3. \A i, j \in 1..Len(rest) : i < j => Before(rest[i], rest[j])
      <3> SUFFICES ASSUME NEW i \in 1..Len(rest), NEW j \in 1..Len(rest), i < j
                   PROVE  Before(rest[i], rest[j])
        OBVIOUS
      <3>1. i + 1 < j + 1
        OBVIOUS
      <3> QED BY <1>3, <3>1 DEF Chain
    <2>4. \A i \in 1..Len(rest) - 1 : GoesOnTo(disk[rest[i]], disk[rest[i + 1]])
      <3> TAKE i \in 1..Len(rest) - 1
      <3>1. i \in 1..Len(rest) /\ i + 1 \in 1..Len(rest) /\ i + 1 \in 1..Len(kept) - 1
        BY <1>1
      <3> QED BY <1>3, <3>1 DEF Chain
    <2> QED BY <2>1, <2>2, <2>3, <2>4 DEF Chain
  <1>5. ASSUME NEW i \in 1..Len(rest) PROVE rest[i] # Head(kept)
    <2>1. 1 \in 1..Len(kept) /\ i + 1 \in 1..Len(kept) /\ 1 < i + 1
      BY <1>1
    <2>2. Before(kept[1], kept[i + 1])
      BY <2>1 DEF Chain
    <2>3. kept[1] \in Names
      BY <2>1
    <2>4. kept[1] # kept[i + 1]
      <3> HIDE DEF Before
      <3>1. ASSUME NEW a \in Names PROVE ~Before(a, a)
        BY DEF Before, Names
      <3> QED BY <2>2, <2>3, <3>1
    <2> QED BY <1>2, <1>3, <2>4
  <1>6. Len(rest) > 0 => rest[Len(rest)] = kept[Len(kept)]
    <2>1. Len(rest) > 0 => Len(rest) \in 1..Len(rest) /\ Len(rest) + 1 = Len(kept)
      BY <1>1
    <2> QED BY <1>3, <2>1
  <1> QED BY <1>1, <1>4, <1>5, <1>6 DEF rest

\* A file that goes on where the ring ends becomes the latest of the ring.
LEMMA ChainGrows ==
    ASSUME NEW kept \in Seq(Names), NEW disk \in Disks, NEW started \in Nat,
           NEW file \in Disks, NEW name \in Names, NEW content \in Seq(Nat),
           Chain(kept, disk, started), Current(kept, disk, content), content # <<>>,
           Len(kept) < RingFiles,
           name \in DOMAIN file, file[name] = content, name[1] = started,
           \A i \in 1..Len(kept) : /\ Before(kept[i], name)
                                  /\ kept[i] \in DOMAIN file /\ file[kept[i]] = disk[kept[i]]
    PROVE  Chain(Append(kept, name), file, started)
  <1> DEFINE more == Append(kept, name)
  <1>1. /\ more \in Seq(Names) /\ Len(more) = Len(kept) + 1 /\ Len(kept) \in Nat
        /\ \A i \in 1..Len(kept) : more[i] = kept[i]
    BY AppendProperties
  <1>2. more[Len(kept) + 1] = name
    BY AppendProperties
  <1> HIDE DEF more
  <1>3. \A i \in 1..Len(more) : i \in 1..Len(kept) \/ i = Len(kept) + 1
    BY <1>1
  <1>4. Len(more) <= RingFiles
    BY <1>1, Bounds
  <1>5. ASSUME NEW i \in 1..Len(more)
        PROVE  /\ more[i] \in DOMAIN file /\ more[i][1] <= started
               /\ file[more[i]] # <<>> /\ Ascend(file[more[i]])
    <2>1. CASE i \in 1..Len(kept)
      BY <1>1, <2>1 DEF Chain
    <2>2. CASE i = Len(kept) + 1
      <3>1. more[i] = name
        BY <1>2, <2>2
      <3>2. started <= started
        OBVIOUS
      <3> QED BY <3>1, <3>2 DEF Current
    <2> QED BY <1>3, <2>1, <2>2
  <1>6. ASSUME NEW i \in 1..Len(more), NEW j \in 1..Len(more), i < j
        PROVE  Before(more[i], more[j])
    <2>1. i \in 1..Len(kept)
      BY <1>1, <1>6
    <2>2. CASE j \in 1..Len(kept)
      BY <1>1, <1>6, <2>1, <2>2 DEF Chain
    <2>3. CASE j = Len(kept) + 1
      BY <1>1, <1>2, <2>1, <2>3
    <2> QED BY <1>3, <2>2, <2>3
  <1>7. ASSUME NEW i \in 1..Len(more) - 1 PROVE GoesOnTo(file[more[i]], file[more[i + 1]])
    <2>1. i \in 1..Len(kept)
      BY <1>1
    <2>2. CASE i \in 1..Len(kept) - 1
      <3>1. i + 1 \in 1..Len(kept)
        BY <1>1, <2>2
      <3> QED BY <1>1, <2>1, <2>2, <3>1 DEF Chain
    <2>3. CASE i = Len(kept)
      <3>1. more[i] = kept[Len(kept)] /\ more[i + 1] = name
        BY <1>1, <1>2, <2>1, <2>3
      <3>2. Len(kept) > 0
        BY <2>1
      <3> QED BY <2>1, <2>3, <3>1, <3>2 DEF Current
    <2> QED BY <1>1, <2>1, <2>2, <2>3
  <1> QED BY <1>4, <1>5, <1>6, <1>7 DEF Chain, more

\* Names that follow one another stay in order.
LEMMA BeforeOn ==
    ASSUME NEW a \in Names, NEW b \in Names, NEW c \in Names, Before(a, b), Before(b, c)
    PROVE  Before(a, c)
  <1>1. /\ a[1] \in Nat /\ a[2] \in Nat /\ b[1] \in Nat /\ b[2] \in Nat
        /\ c[1] \in Nat /\ c[2] \in Nat
    BY DEF Names
  <1> QED BY <1>1 DEF Before

\* rotate keeps the order, and takes no kept file's name.
LEMMA RotatedKeeps ==
    ASSUME NEW file \in LogFiles, NEW now \in Nat, NEW reopens \in BOOLEAN, NEW last \in Nat,
           file.started <= now, file.content # <<>>, Ends(file.content, last),
           Chain(file.kept, file.disk, file.started), Current(file.kept, file.disk, file.content)
    PROVE  LET new == Rotated(file, now, reopens) IN
           /\ new \in LogFiles /\ new.started = now /\ Chain(new.kept, new.disk, now)
           /\ Current(new.kept, new.disk, new.content) /\ Latest(new.kept, new.disk, new.content, last)
  <1> DEFINE full == Len(file.kept) >= RingFiles
             kept == IF full THEN Tail(file.kept) ELSE file.kept
             left == IF full THEN DOMAIN file.disk \ {Head(file.kept)} ELSE DOMAIN file.disk
             again == kept # <<>> /\ Newest(kept)[1] = file.started
             number == IF again THEN Newest(kept)[2] + 1 ELSE 0
             name == <<file.started, number>>
             disk == Renamed(file, name, left)
             more == Append(kept, name)
             new == Rotated(file, now, reopens)
  <1>1. /\ file.kept \in Seq(Names) /\ file.disk \in Disks /\ file.started \in Nat
        /\ file.content \in Seq(Nat)
    BY DEF LogFiles
  <1>2. Ascend(<<>>) /\ \A older : GoesOnTo(older, <<>>)
    BY DEF Ascend, GoesOnTo
  <1>3. CASE RingFiles = 0
    <2>1. Len(file.kept) = 0
      BY <1>1, <1>3 DEF Chain
    <2>2. new = [file EXCEPT !.open = reopens, !.started = now, !.content = <<>>]
      BY <1>3 DEF Rotated
    <2>3. /\ new \in LogFiles /\ new.started = now /\ new.content = <<>>
          /\ new.kept = file.kept /\ new.disk = file.disk
      <3> DEFINE empty == <<>>
                 r == [file EXCEPT !.open = reopens, !.started = now, !.content = empty]
      <3>1. empty \in Seq(Nat)
        OBVIOUS
      <3> HIDE DEF empty
      <3>2. /\ r \in LogFiles /\ r.started = now /\ r.content = empty
            /\ r.kept = file.kept /\ r.disk = file.disk
        BY <3>1 DEF LogFiles
      <3> HIDE DEF r, new
      <3>3. new = r
        BY <2>2 DEF r, empty
      <3> QED BY <3>2, <3>3 DEF empty
    <2> HIDE DEF new
    <2>4. Chain(new.kept, new.disk, now)
      BY <1>1, <2>1, <2>3, Bounds DEF Chain
    <2>5. Latest(new.kept, new.disk, new.content, last)
      BY <2>1, <2>3 DEF Latest
    <2>6. Current(new.kept, new.disk, new.content)
      BY <1>2, <2>3 DEF Current
    <2> QED BY <2>3, <2>4, <2>5, <2>6 DEF new
  <1>4. CASE RingFiles # 0
    <2>1. /\ kept \in Seq(Names) /\ Len(kept) < RingFiles /\ Chain(kept, file.disk, file.started)
          /\ left \in SUBSET DOMAIN file.disk /\ \A i \in 1..Len(kept) : kept[i] \in left
          /\ Len(kept) > 0 => kept[Len(kept)] = file.kept[Len(file.kept)] /\ Len(file.kept) > 0
      <3>1. CASE full
        <4>1. Len(file.kept) \in Nat /\ RingFiles \in Nat /\ Len(file.kept) = RingFiles /\ file.kept # <<>>
          BY <1>1, <1>4, <3>1, Bounds DEF Chain
        <4>2. /\ Tail(file.kept) \in Seq(Names) /\ Len(Tail(file.kept)) = Len(file.kept) - 1
              /\ Chain(Tail(file.kept), file.disk, file.started)
              /\ \A i \in 1..Len(Tail(file.kept)) : Tail(file.kept)[i] # Head(file.kept)
              /\ Len(Tail(file.kept)) > 0
                    => Tail(file.kept)[Len(Tail(file.kept))] = file.kept[Len(file.kept)]
          BY <1>1, <4>1, OldestGoes
        <4>3. kept = Tail(file.kept) /\ left = DOMAIN file.disk \ {Head(file.kept)}
          BY <3>1
        <4> HIDE DEF kept, left
        <4>4. \A i \in 1..Len(kept) : kept[i] \in DOMAIN file.disk
          BY <4>2, <4>3 DEF Chain
        <4>5. Len(kept) < RingFiles
          BY <4>1, <4>2, <4>3
        <4>6. Len(file.kept) > 0
          BY <4>1
        <4> QED BY <4>2, <4>3, <4>4, <4>5, <4>6
      <3>2. CASE ~full
        <4>1. kept = file.kept /\ left = DOMAIN file.disk
          BY <3>2
        <4>2. Len(file.kept) < RingFiles
          BY <1>1, <3>2, Bounds
        <4> HIDE DEF kept, left, full
        <4> QED BY <1>1, <4>1, <4>2 DEF Chain
      <3> QED BY <3>1, <3>2
    <2> HIDE DEF kept, left
    <2>2. Current(kept, file.disk, file.content)
      BY <2>1 DEF Current
    <2>3. Len(kept) \in Nat /\ \A i \in 1..Len(kept) : kept[i] \in Names /\ kept[i][1] <= file.started
      BY <2>1 DEF Chain
    <2>4. kept # <<>> => Newest(kept) = kept[Len(kept)] /\ Len(kept) \in 1..Len(kept)
      BY <2>1, <2>3 DEF Newest
    <2>5. number \in Nat
      BY <2>3, <2>4 DEF Names
    <2>6. name \in Names /\ name[1] = file.started /\ name[2] = number
      BY <1>1, <2>5 DEF Names
    <2>7. ASSUME NEW i \in 1..Len(kept) PROVE Before(kept[i], name)
      <3>1. /\ kept # <<>> /\ Len(kept) \in 1..Len(kept) /\ Newest(kept) = kept[Len(kept)]
            /\ kept[i] \in Names /\ Newest(kept) \in Names
            /\ kept[i][1] <= file.started /\ Newest(kept)[1] <= file.started
        BY <2>3, <2>4
      <3>2. i = Len(kept) \/ i < Len(kept)
        BY <2>3
      <3>3. kept[i] = Newest(kept) \/ Before(kept[i], Newest(kept))
        BY <2>1, <3>1, <3>2 DEF Chain
      <3>4. Newest(kept)[1] = file.started => number = Newest(kept)[2] + 1
        BY <3>1
      <3>5. /\ kept[i][1] \in Nat /\ kept[i][2] \in Nat
            /\ Newest(kept)[1] \in Nat /\ Newest(kept)[2] \in Nat
        BY <3>1 DEF Names
      <3> HIDE DEF name, number
      <3>6. Before(Newest(kept), name)
        BY <1>1, <2>5, <2>6, <3>1, <3>4, <3>5 DEF Before
      <3>7. CASE Before(kept[i], Newest(kept))
        BY <2>6, <3>1, <3>6, <3>7, BeforeOn
      <3> QED BY <3>3, <3>6, <3>7
    <2> HIDE DEF name, number, again
    <2>8. /\ disk \in Disks /\ DOMAIN disk = left \cup {name} /\ disk[name] = file.content
          /\ \A f \in left : f # name => disk[f] = file.disk[f]
      BY <2>1, <2>6, RenamedIs
    <2> HIDE DEF disk
    <2>9. \A i \in 1..Len(kept) : kept[i] # name
      BY <2>3, <2>5, <2>6, <2>7 DEF Before, Names
    <2>10. \A i \in 1..Len(kept) : kept[i] \in DOMAIN disk /\ disk[kept[i]] = file.disk[kept[i]]
      BY <2>1, <2>8, <2>9
    <2>11. Chain(more, disk, file.started)
      BY <1>1, <2>1, <2>2, <2>6, <2>7, <2>8, <2>10, ChainGrows
    <2>12. /\ more \in Seq(Names) /\ Len(more) = Len(kept) + 1 /\ Len(more) > 0
      BY <2>1, <2>3, <2>6, AppendProperties
    <2>13. more[Len(more)] = name
      BY <2>1, <2>6, <2>12, AppendProperties
    <2>14. new = [file EXCEPT !.open = reopens, !.started = now, !.content = <<>>,
                              !.kept = more, !.disk = disk]
      BY <1>4 DEF Rotated, disk, name, number, again, kept, left
    <2> HIDE DEF more
    <2>15. /\ new \in LogFiles /\ new.started = now /\ new.content = <<>>
           /\ new.kept = more /\ new.disk = disk
      <3> DEFINE empty == <<>>
                 r == [file EXCEPT !.open = reopens, !.started = now, !.content = empty,
                                   !.kept = more, !.disk = disk]
      <3>1. empty \in Seq(Nat)
        OBVIOUS
      <3> HIDE DEF empty
      <3>2. /\ r \in LogFiles /\ r.started = now /\ r.content = empty
            /\ r.kept = more /\ r.disk = disk
        BY <2>8, <2>12, <3>1 DEF LogFiles
      <3> HIDE DEF r, new
      <3>3. new = r
        BY <2>14 DEF r, empty
      <3> QED BY <3>2, <3>3 DEF empty
    <2> HIDE DEF new
    <2>16. Chain(more, disk, now)
      <3>1. \A i \in 1..Len(more) : more[i][1] <= now
        <4> TAKE i \in 1..Len(more)
        <4>1. more[i] \in Names /\ more[i][1] <= file.started
          BY <2>11, <2>12 DEF Chain
        <4>2. more[i][1] \in Nat
          BY <4>1 DEF Names
        <4> QED BY <1>1, <4>1, <4>2
      <3> QED BY <2>11, <3>1 DEF Chain
    <2>17. Latest(more, disk, <<>>, last)
      BY <2>8, <2>13 DEF Latest
    <2>18. Current(more, disk, <<>>)
      BY <1>2 DEF Current
    <2> QED BY <2>15, <2>16, <2>17, <2>18 DEF new
  <1> QED BY <1>3, <1>4

\* write: the row comes last, or the file is closed.
LEMMA WrittenKeeps ==
    ASSUME NEW file \in LogFiles, NEW size \in 1..2, NEW now \in Nat, NEW last \in Nat,
           NEW writes \in BOOLEAN, NEW reopens \in BOOLEAN, file.started <= now,
           Chain(file.kept, file.disk, file.started), Current(file.kept, file.disk, file.content),
           file.open => Latest(file.kept, file.disk, file.content, last)
    PROVE  LET new == Written(file, last + 1, size, now, writes, reopens) IN
           /\ new \in LogFiles /\ new.started <= now /\ Chain(new.kept, new.disk, new.started)
           /\ Current(new.kept, new.disk, new.content)
           /\ new.open => Latest(new.kept, new.disk, new.content, last + 1)
  <1> DEFINE more == Append(file.content, last + 1)
             wrote == [file EXCEPT !.count = @ + size, !.content = more]
             rotated == Rotated(wrote, now, reopens)
             begun == [rotated EXCEPT !.count = 0]
             closed == [file EXCEPT !.open = FALSE]
             ended == [wrote EXCEPT !.open = FALSE]
             new == Written(file, last + 1, size, now, writes, reopens)
             Good(f) == /\ f \in LogFiles /\ f.started <= now /\ Chain(f.kept, f.disk, f.started)
                        /\ Current(f.kept, f.disk, f.content)
                        /\ f.open => Latest(f.kept, f.disk, f.content, last + 1)
  <1>1. /\ file.kept \in Seq(Names) /\ file.disk \in Disks /\ file.content \in Seq(Nat)
        /\ file.started \in Nat /\ file.count \in Nat /\ file.open \in BOOLEAN
    BY DEF LogFiles
  <1>2. file.open => new = closed \/ new = ended \/ new = begun \/ new = wrote
    BY DEF Written
  <1>3. CASE ~file.open
    <2>1. new = file
      BY <1>3 DEF Written
    <2> HIDE DEF new
    <2>2. Good(new)
      BY <1>3, <2>1
    <2> QED BY <2>2 DEF new
  <1>4. CASE file.open
    <2>1. new = closed \/ new = ended \/ new = begun \/ new = wrote
      BY <1>2, <1>4
    <2>2. /\ more \in Seq(Nat) /\ more # <<>> /\ Current(file.kept, file.disk, more)
          /\ Ends(more, last + 1)
      BY <1>1, <1>4, RowGoesOn
    <2> HIDE DEF more, new
    <2>3. Good(closed)
      BY <1>1 DEF LogFiles
    <2>4. /\ wrote \in LogFiles /\ wrote.content = more /\ wrote.kept = file.kept
          /\ wrote.disk = file.disk /\ wrote.started = file.started
      <3> DEFINE sum == file.count + size
      <3>1. sum \in Nat
        BY <1>1
      <3> HIDE DEF sum
      <3>2. [file EXCEPT !.count = sum, !.content = more] \in LogFiles
        BY <2>2, <3>1 DEF LogFiles
      <3>3. wrote = [file EXCEPT !.count = sum, !.content = more]
        BY DEF sum
      <3> QED BY <3>2, <3>3 DEF LogFiles
    <2> HIDE DEF wrote
    <2>5. Good(wrote)
      BY <2>2, <2>4 DEF Latest
    <2>6. Good(ended)
      BY <2>2, <2>4 DEF LogFiles
    <2>7. /\ rotated \in LogFiles /\ rotated.started = now /\ Chain(rotated.kept, rotated.disk, now)
          /\ Current(rotated.kept, rotated.disk, rotated.content)
          /\ Latest(rotated.kept, rotated.disk, rotated.content, last + 1)
      <3>1. /\ wrote \in LogFiles /\ wrote.started <= now /\ wrote.content # <<>>
            /\ Ends(wrote.content, last + 1) /\ last + 1 \in Nat
            /\ Chain(wrote.kept, wrote.disk, wrote.started)
            /\ Current(wrote.kept, wrote.disk, wrote.content)
        BY <2>2, <2>4
      <3> QED BY <3>1, RotatedKeeps
    <2> HIDE DEF rotated
    <2>8. Good(begun)
      <3>1. /\ begun \in LogFiles /\ begun.started = rotated.started /\ begun.kept = rotated.kept
            /\ begun.disk = rotated.disk /\ begun.content = rotated.content
        BY <2>7 DEF LogFiles
      <3> HIDE DEF begun
      <3> QED BY <2>7, <3>1
    <2> HIDE DEF closed, ended, begun, Good
    <2>9. Good(new)
      BY <2>1, <2>3, <2>5, <2>6, <2>8
    <2> QED BY <2>9 DEF Good, new
  <1> QED BY <1>3, <1>4

\* A log just opened has no ring yet.
LEMMA OpenedIsKept ==
    ASSUME NEW disk \in Disks, NEW now \in Nat
    PROVE  LET new == Opened(disk, now) IN
           /\ new \in LogFiles /\ new.started <= now /\ Chain(new.kept, new.disk, new.started)
           /\ Current(new.kept, new.disk, new.content)
           /\ \A last : Latest(new.kept, new.disk, new.content, last)
  <1> DEFINE new == Opened(disk, now)
  <1>1. /\ new \in LogFiles /\ new.started = now /\ new.kept = <<>> /\ new.disk = disk
        /\ new.content = <<>>
    BY DEF Opened, LogFiles
  <1> HIDE DEF new
  <1>2. Len(new.kept) = 0 /\ Len(new.content) = 0
    BY <1>1
  <1>3. Chain(new.kept, new.disk, new.started)
    BY <1>2, Bounds DEF Chain
  <1>4. Current(new.kept, new.disk, new.content) /\ \A last : Latest(new.kept, new.disk, new.content, last)
    BY <1>1, <1>2 DEF Current, Latest, Ascend
  <1>5. new.started <= now
    BY <1>1
  <1> QED BY <1>1, <1>3, <1>4, <1>5 DEF new

LEMMA InitRing == Init => Ring
  <1> SUFFICES ASSUME Init PROVE Ring
    OBVIOUS
  <1>1. log = Opened(NoFiles, 0) /\ failures = 0 /\ clock = 0
    BY DEF Init
  <1>2. NoFiles \in Disks
    <2>1. NoFiles \in [{} -> Seq(Nat)] /\ {} \in SUBSET Names
      BY DEF NoFiles
    <2> QED BY <2>1 DEF Disks
  <1> QED BY <1>1, <1>2, OpenedIsKept DEF Ring

LEMMA NextRing == ASSUME Ring, [Next]_vars PROVE Ring'
  <1>1. CASE CallFails
    <2>1. PICK size \in 1..2, writes \in BOOLEAN, reopens \in BOOLEAN :
             log' = Written(log, failures + 1, size, clock, writes, reopens)
      BY <1>1 DEF CallFails
    <2>2. failures' = failures + 1 /\ clock' = clock
      BY <1>1 DEF CallFails, Feeds
    <2> DEFINE new == Written(log, failures + 1, size, clock, writes, reopens)
    <2>3. /\ new \in LogFiles /\ new.started <= clock /\ Chain(new.kept, new.disk, new.started)
          /\ Current(new.kept, new.disk, new.content)
          /\ new.open => Latest(new.kept, new.disk, new.content, failures + 1)
      BY WrittenKeeps DEF Ring
    <2> HIDE DEF new
    <2>4. log' = new
      BY <2>1 DEF new
    <2> QED BY <2>2, <2>3, <2>4 DEF Ring
  <1>2. CASE RestartLog
    <2>1. log' = Opened(log.disk, clock) /\ failures' = 0 /\ clock' = clock
      BY <1>2 DEF RestartLog
    <2>2. log.disk \in Disks /\ clock \in Nat
      BY DEF Ring, LogFiles
    <2> QED BY <2>1, <2>2, OpenedIsKept DEF Ring
  <1>3. CASE SecondPasses
    <2>1. log' = log /\ failures' = failures /\ clock' = clock + 1
      BY <1>3 DEF SecondPasses
    <2>2. log.started \in Nat /\ clock \in Nat /\ log.started <= clock
      BY DEF Ring, LogFiles
    <2>3. log.started <= clock'
      BY <2>1, <2>2
    <2> QED BY <2>1, <2>2, <2>3 DEF Ring
  <1>4. ASSUME UNCHANGED <<log, failures, clock>> PROVE Ring'
    BY <1>4 DEF Ring
  <1>5. CASE CallOpens \/ StepRuns \/ UnexpectedResponse \/ CallCompletes
    BY <1>4, <1>5 DEF CallOpens, StepRuns, UnexpectedResponse, CallCompletes, Feeds, Quiet
  <1>6. CASE Dump \/ Refresh \/ ScreenKey \/ SetDisplay \/ ResetStats \/ Finish
    BY <1>4, <1>6 DEF Dump, Refresh, ScreenKey, SetDisplay, ResetStats, Finish
  <1>7. CASE UNCHANGED vars
    BY <1>4, <1>7 DEF vars
  <1> QED BY <1>1, <1>2, <1>3, <1>5, <1>6, <1>7 DEF Next

\* The rotated files and the current one hold the latest rows of the log, in order and
\* without a gap, and are no more than asked for (TraceFile::write, rotate).
THEOREM RingAlwaysKeepsTheLatest == Spec => []RingKeepsTheLatest
  <1>1. ASSUME Ring PROVE RingKeepsTheLatest
    <2>1. /\ Chain(log.kept, log.disk, log.started) /\ Current(log.kept, log.disk, log.content)
          /\ log.open => Latest(log.kept, log.disk, log.content, failures)
      BY <1>1 DEF Ring
    <2> QED BY <2>1 DEF RingKeepsTheLatest, Chain, Current, Latest, KeptFile
  <1> QED BY <1>1, InitRing, NextRing, PTL DEF Spec
=============================================================================
