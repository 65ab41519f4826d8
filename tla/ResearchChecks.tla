--------------------------- MODULE ResearchChecks ---------------------------
(***************************************************************************)
(* The research algorithms against what they are meant to compute, on all  *)
(* small inputs, as assumptions that TLC evaluates: the intraday backtest  *)
(* and its replay (IntradayReplay), the datasets they accept               *)
(* (FrozenDatasets), the studies and summaries (ResearchStudies).          *)
(***************************************************************************)
EXTENDS IntradayReplay, FrozenDatasets, ResearchStudies

(***************************************************************************)
(* Tapes of two bars of two minutes.                                       *)
(***************************************************************************)

Ranges == {<<l, h>> \in (1..3) \X (1..3) : l <= h}

\* The second bar follows after a pause, on the same day or on the next.
Minutes == <<0, 1, 3, 4>>
Tapes == [1..4 -> Ranges]
Tape(f, second) ==
    {[ts |-> Minutes[k], day |-> IF k <= 2 THEN 1 ELSE second, low |-> f[k][1], high |-> f[k][2],
      close |-> f[k][2]]
        : k \in 1..4}

Of(f, i, k) == {f[j][k] : j \in {2 * i - 1, 2 * i}}
Bars(f, second) ==
    [i \in 1..2 |-> [ts |-> Minutes[2 * i - 1], day |-> IF i = 1 THEN 1 ELSE second,
        low |-> CHOOSE x \in Of(f, i, 1) : \A y \in Of(f, i, 1) : x <= y,
        high |-> CHOOSE x \in Of(f, i, 2) : \A y \in Of(f, i, 2) : y <= x,
        close |-> f[2 * i][2]]]

Cases == {[f |-> f, second |-> s, o |-> Position(side, f[1][1], 1, 1)]
            : f \in Tapes, s \in {1, 2}, side \in {"LONG", "SHORT"}}

\* Every position is left at one bar, and what the backtest says of it, or the
\* replay of a whole bucket, is the first touch of the market.
ASSUME IntradayIsFirstTouch ==
    \A c \in Cases :
        LET tape == Tape(c.f, c.second)
            bars == Bars(c.f, c.second)
        IN  /\ Recorded(bars, 2, tape)
            /\ \E e \in 1..2 :
                 /\ \A i \in 1..2 : ExitAt(c.o, bars, 2, i) <=> i = e
                 /\ LET bucket == Bucket(tape, bars[e].ts, bars[e].day) IN
                    IF RequiresReplay(c.o, bars, e)
                    THEN \E r \in bucket : ResolvedBy(c.o, bucket, r) /\ FirstTouch(c.o, bars, tape, r)
                    ELSE \A r \in tape : FirstTouch(c.o, bars, tape, r) =>
                           \/ Resolution(c.o, r) = Reason(c.o, bars, 2, e)
                           \/ bars[e].ts + Width <= r.ts

\* With a minute missing the replay may call a target what the market stopped.
ASSUME PartialBucketMayInvert ==
    \E c \in Cases : \E r \in Tape(c.f, c.second) :
        LET tape == Tape(c.f, c.second)
            bars == Bars(c.f, c.second)
        IN  /\ ExitAt(c.o, bars, 2, 1) /\ RequiresReplay(c.o, bars, 1)
            /\ FirstTouch(c.o, bars, tape, r) /\ Resolution(c.o, r) = "STOP"
            /\ \E q \in tape : /\ ResolvedBy(c.o, Bucket(tape \ {r}, bars[1].ts, 1), q)
                               /\ Resolution(c.o, q) = "TARGET"

(***************************************************************************)
(* Three bars, a position taken at the open of the first.                  *)
(***************************************************************************)

Candles == {[ts |-> 0, day |-> d, low |-> r[1], high |-> r[2], close |-> c]
              : r \in Ranges, d \in {1, 2}, c \in 1..3}
Series  == {b \in [1..3 -> {c \in Candles : c.low <= c.close /\ c.close <= c.high}] :
              b[1].day = 1 /\ b[2].day <= b[3].day}
Taking(bars) == {Position(side, open, 1, 1) : side \in {"LONG", "SHORT"},
                                              open \in bars[1].low .. bars[1].high}

Points  == -3..3

\* The position is left at one bar of its own day, the excursions have one value
\* each, and the return lies between them.
ASSUME ReportsAreOrdered ==
    \A bars \in Series : \A o \in Taking(bars) : \E e \in 1..3 :
        /\ \A i \in 1..3 : ExitAt(o, bars, 3, i) <=> i = e
        /\ bars[e].day = 1 /\ e <= MaxBars
        /\ \E mfe, mae \in Points :
             /\ \A x \in Points : (IsMfe(o, bars, e, x) <=> x = mfe) /\ (IsMae(o, bars, e, x) <=> x = mae)
             /\ mae <= Worth(o, ExitPrice(o, bars, e)) /\ Worth(o, ExitPrice(o, bars, e)) <= mfe

\* A stop is filled at its level although the bar, after a gap, traded no such
\* price: the loss is reported smaller than any the bar offered.
ASSUME GapIsFilledAtLevel ==
    \E bars \in Series : \E o \in Taking(bars) :
        /\ ExitAt(o, bars, 3, 2) /\ Reason(o, bars, 3, 2) = "STOP"
        /\ Worth(o, ExitPrice(o, bars, 2)) > Favorable(o, bars[2])

\* The third bar may be of the next contract: a futures position is left at one
\* bar, and every bar of it is of the contract of its entry.
ASSUME FuturesKeepTheirContract ==
    \A bars \in Series, roll \in 1..3 : \A o \in Taking(bars) :
        LET rolled == [i \in 1..3 |-> [contract |-> IF i <= roll THEN 1 ELSE 2, low |-> bars[i].low,
                                       high |-> bars[i].high, close |-> bars[i].close]]
        IN  \E e \in 1..roll : \A i \in 1..3 : FuturesExitAt(o, rolled, 3, i) <=> i = e

(***************************************************************************)
(* Datasets of up to two rows, and batches of two bundles.                 *)
(***************************************************************************)

Engine(market) == [market |-> market, symbol |-> 1, timeframe |-> 5]

Priced == [ts : 1..2, symbol : {1, 2}, open : {2}, low : 0..2, high : 2..3, close : {3}, volume : {0}]

Unversioned ==
    [market : {"tw_stock", "txf"}, symbol : {1}, timeframe : {5}, source : {1}, files : {{1}},
     frozen : BOOLEAN, complete : {TRUE}, truncated : BOOLEAN, formal : BOOLEAN,
     eligible : BOOLEAN, count : 1..2]

Frozen(d, engine, rows) ==
    [market |-> d.market, symbol |-> d.symbol, timeframe |-> d.timeframe, source |-> d.source,
     files |-> d.files, frozen |-> d.frozen, complete |-> d.complete, truncated |-> d.truncated,
     formal |-> d.formal, eligible |-> d.eligible, count |-> d.count,
     version |-> Fingerprint(engine, d, rows)]

\* What an engine accepts is whole and sound; yet the version does not tell a
\* dataset that may be used for formal research from one that may not.
ASSUME AcceptedIsWhole ==
    \A d \in Unversioned, market \in {"tw_stock", "txf"}, rows \in [1..2 -> Priced] :
        LET engine == Engine(market) IN
        /\ Accepts(engine, Frozen(d, engine, rows), rows) =>
             /\ d.frozen /\ ~ d.truncated /\ d.market = market /\ d.count = 2
             /\ rows[1].ts = 1 /\ rows[2].ts = 2
             /\ \A i \in 1..2 : rows[i].symbol = 1 /\ 0 < rows[i].low /\ rows[i].high = 3
        /\ Fingerprint(engine, d, rows)
             = Fingerprint(engine, [d EXCEPT !.formal = ~ @, !.eligible = ~ @], rows)

Bundles == [1..2 -> [id : 1..2, version : 1..2, hash : {1}, rows : 1..2]]
Runs    == [1..2 -> [signal : 1..2, strategy : 1..2, version : 1..3, outcome : -1..1]]

\* A batch evaluates every case on one bundle; of two bundles of one version the
\* rows of the second are used by nobody, and nobody looks at them.
ASSUME EveryCaseHasItsBundle ==
    /\ \A b \in Bundles, c \in Runs : BatchAccepts(b, c) =>
         \A i \in 1..2 : \E k \in 1..2 : \A l \in 1..2 : BundleOf(b, c[i].version, l) <=> l = k
    /\ \E b \in Bundles, c \in Runs :
         BatchAccepts(b, c) /\ b[1].version = b[2].version /\ b[1].rows # b[2].rows

\* The counts of the strategies add up to those of the batch.
ASSUME StrategiesAddUp ==
    \A c \in Runs :
        LET results == {c[i] : i \in 1..2}
            one     == Counts(OfStrategy(results, 1))
            two     == Counts(OfStrategy(results, 2))
            all     == Counts(results)
        IN  \A field \in DOMAIN all : one[field] + two[field] = all[field]

(***************************************************************************)
(* Walk-forward validation of up to six cases.                             *)
(***************************************************************************)

Folds(total, train, test, step) == {s \in 0..total : IsFold(s, total, train, test, step)}

Windows == {w \in [total : 1..6, train : 1..3, test : 1..2, step : 1..3] : w.train + w.test <= w.total}

TimesTested(w, k) ==
    Cardinality({s \in Folds(w.total, w.train, w.test, w.step) : k \in TestOf(s, w.train, w.test)})

\* Every run has a fold; a step of at least the test window tests no case twice,
\* and a shorter one does wherever it leaves room for two folds.
ASSUME StepDecidesTestedOnce ==
    \A w \in Windows :
        /\ 0 \in Folds(w.total, w.train, w.test, w.step)
        /\ (\A k \in 1..w.total : TimesTested(w, k) <= 1)
             <=> \/ w.test <= w.step
                 \/ Cardinality(Folds(w.total, w.train, w.test, w.step)) = 1

\* The order of the cases does not part the days: a fold may train on one case
\* of a day and test on another.
ASSUME DayMayBeOnBothSides ==
    \E cases \in [1..3 -> [date : 1..2, case : 1..3]] :
        /\ CanonicalOrder(cases, 3)
        /\ \E s \in Folds(3, 2, 1, 1) :
             \E i \in TrainOf(s, 2), j \in TestOf(s, 2, 1) : cases[i].date = cases[j].date

Histories == [1..2 -> [1..3 -> {-2, -1, 0, 1, 2}]]

\* Each fold selects one candidate; a candidate without losses beats any other
\* by profit factor.
ASSUME OneIsSelected ==
    \A ret \in Histories, metric \in {"expectancy", "factor"} :
        \E c \in 1..2 :
            /\ \A d \in 1..2 : Selects(ret, 0, 3, metric, d) <=> d = c
            /\ metric = "expectancy" =>
                 \A d \in 1..2 : ret[c][1] + ret[c][2] + ret[c][3] >= ret[d][1] + ret[d][2] + ret[d][3]
            /\ metric = "factor" /\ (\E k \in 1..3 : ret[1][k] > 0) /\ (\A k \in 1..3 : ret[1][k] >= 0) => c = 1

(***************************************************************************)
(* Series of returns.                                                      *)
(***************************************************************************)

Returns == [1..4 -> {-50, -1, 0, 1}]

\* The streak is the longest interval of losses.
ASSUME StreakIsLongestRun ==
    \A r \in Returns :
        LET runs == {<<a, b>> \in (1..4) \X (0..4) : a <= b + 1 /\ \A k \in a..b : r[k] < 0}
        IN  /\ \E i \in runs : i[2] - i[1] + 1 = Streak(r, 4)
            /\ \A i \in runs : i[2] - i[1] + 1 <= Streak(r, 4)

Choices == {j \in [2..4 -> 1..4] : \A i \in 2..4 : j[i] <= i}

\* Every order of the returns is the outcome of exactly one series of choices, so
\* that fair choices make fair orders; and none changes where the equity ends.
ASSUME ShuffleIsFair ==
    LET named == [k \in 1..4 |-> k] IN
    /\ \A j \in Choices : {Shuffled(named, 4, j)[k] : k \in 1..4} = 1..4
    /\ \A j, l \in Choices : Shuffled(named, 4, j) = Shuffled(named, 4, l) => j = l
    /\ \A r \in Returns, j \in Choices : Equity(Shuffled(r, 4, j), 4) = Equity(r, 4)

Rising == {v \in [0..3 -> 0..4] : \A k \in 1..3 : v[k - 1] <= v[k]}

\* Percentiles do not fall, run from the least to the greatest value, and the
\* fiftieth is the median.
ASSUME PercentilesAreOrdered ==
    \A v \in Rising, n \in 1..4 :
        /\ \A p \in {0, 5, 25, 50, 75, 95} :
             \A q \in {5, 25, 50, 75, 95, 100} : p <= q => Percentile(v, n, p) <= Percentile(v, n, q)
        /\ Percentile(v, n, 0) = 100 * v[0] /\ Percentile(v, n, 100) = 100 * v[n - 1]
        /\ Percentile(v, n, 50) = 50 * Median(v, n)

(***************************************************************************)
(* The swing path, the review and the ranking.                             *)
(***************************************************************************)

Sessions == {[date |-> d, open |-> x, low |-> r[1], high |-> r[2], close |-> c]
               : d \in {1, 2, 4}, r \in Ranges, x \in 1..3, c \in 1..3}
Daily    == {b \in [1..2 -> {s \in Sessions : Ordered(s)}] :
               b[1].date < b[2].date}

\* A signal has one reference session unless there is none after it, and every
\* session of the path has its excursions.
ASSUME PathsAreDefined ==
    \A bars \in Daily, day \in {1, 3} :
        LET refs == {f \in 1..2 : IsReference(bars, 2, day, f)} IN
        /\ Cardinality(refs) = 1 \/ (refs = {} /\ \A i \in 1..2 : bars[i].date <= day)
        /\ \A f \in refs : \A k \in PathOf(2, f, 5) :
             \E high, low \in 1..3 :
                /\ \A x \in 1..3 : IsHighest(bars, f, k, x) <=> x = high
                /\ \A x \in 1..3 : IsLowest(bars, f, k, x) <=> x = low
                /\ \A side \in {"LONG", "SHORT"} :
                     LET ret == Directional(side, bars[f].open, bars[k].close) IN
                     /\ PathMae(side, bars[f].open, high, low) <= ret
                     /\ ret <= PathMfe(side, bars[f].open, high, low)

Outcomes == [is : {"number"}, value : {-1, 0, 1}] \cup {[is |-> "null"], [is |-> "missing"]}

\* Of two rows without an outcome, the one that says null counts as a flat
\* trade, the one that leaves the field out is not evaluated.
ASSUME NullIsFlat ==
    \A rows \in [1..2 -> Outcomes] :
        LET m == Review(rows, 2) IN
        m.wins + m.losses + m.flats = Cardinality({k \in 1..2 : rows[k].is # "missing"})

Signals == [1..3 -> [symbol : 1..2, score : 0..1, ts : 1..2]]

\* The ranking has as many symbols as asked for, as far as there are any; each
\* with its best score; and none that is left out has a better one.
ASSUME RankingIsOfTheBest ==
    \A sig \in Signals, limit \in {0, 1, 2} :
        LET in      == {k \in 1..3 : IsCandidate(sig, 3, limit, k)}
            symbols == {sig[k].symbol : k \in 1..3}
            asked   == IF limit = 0 THEN 1 ELSE limit
        IN  /\ Cardinality(in) = IF Cardinality(symbols) < asked THEN Cardinality(symbols) ELSE asked
            /\ \A k, l \in in : sig[k].symbol = sig[l].symbol => k = l
            /\ \A k \in in, i \in 1..3 :
                 sig[i].symbol = sig[k].symbol \/ sig[i].symbol \notin {sig[l].symbol : l \in in}
                    => sig[i].score <= sig[k].score

\* A probability above one is taken for a score: 1.00 ranks over 1.01.
ASSUME ShareAboveScore ==
    LET of(p) == EvidenceScore([has |-> "probability", value |-> p]) IN of(100) > of(101)
=============================================================================
