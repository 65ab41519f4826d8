--------------------------- MODULE IntradayReplay ---------------------------
(***************************************************************************)
(* The intraday backtest on five-minute bars (deterministic-backtester.ts) *)
(* and the replay that decides, with one-minute bars, what the backtest    *)
(* left ambiguous (selective-1m-replay.ts, old and new), with the review   *)
(* of the index futures (txf-review-engine.ts).  Pure algorithms: a loop   *)
(* is the first index at which its exit holds.                             *)
(*                                                                         *)
(* Times are in minutes; a bar has the time of its first minute.  Prices   *)
(* are integers and rounding is left out.  Bars are sorted, distinct and   *)
(* of one symbol: what FrozenDatasets accepts.                             *)
(***************************************************************************)
EXTENDS Integers

CONSTANTS
    Width,      \* minutes of a bar, 5 in the code
    MaxBars     \* max_bars, 12 unless the caller says otherwise

ASSUME IntradayAssumption == Width \in Nat \ {0} /\ MaxBars \in Nat \ {0}

\* A bar of either length; the day is what tradeDateOf reads from its time.
Bar(Prices) == [ts : Int, day : Int, low : Prices, high : Prices, close : Prices]

\* A position: levels around the open of the entry bar.
Position(side, open, risk, reward) ==
    IF side = "LONG"
    THEN [side |-> side, entry |-> open, stop |-> open - risk, target |-> open + reward]
    ELSE [side |-> side, entry |-> open, stop |-> open + risk, target |-> open - reward]

Stops(o, bar)   == IF o.side = "LONG" THEN bar.low <= o.stop ELSE bar.high >= o.stop
Reaches(o, bar) == IF o.side = "LONG" THEN bar.high >= o.target ELSE bar.low <= o.target
Touches(o, bar) == Stops(o, bar) \/ Reaches(o, bar)
Both(o, bar)    == Stops(o, bar) /\ Reaches(o, bar)

(***************************************************************************)
(* The backtest: bars[1 .. n] are the bars after the signal's time, the    *)
(* first of them the entry bar.                                            *)
(***************************************************************************)

LastOfDay(bars, n, i) == i = n \/ bars[i + 1].day # bars[1].day

Leaves(o, bars, n, i) ==
    Touches(o, bars[i]) \/ LastOfDay(bars, n, i) \/ i >= MaxBars

\* The position is left at bar e.
ExitAt(o, bars, n, e) ==
    /\ e \in 1 .. n
    /\ Leaves(o, bars, n, e)
    /\ \A i \in 1 .. n : i < e => ~Leaves(o, bars, n, i)

\* STOP_FIRST: a bar that touches both counts as a stop, and asks for a replay.
Reason(o, bars, n, e) ==
    IF Stops(o, bars[e]) THEN "STOP"
    ELSE IF Reaches(o, bars[e]) THEN "TARGET"
    ELSE IF LastOfDay(bars, n, e) THEN "EOD" ELSE "MAX_BARS"

RequiresReplay(o, bars, e) == Both(o, bars[e])

\* What a price is worth to the position, in points: percentages and multiples
\* of the ATR divide it by numbers above zero.
Worth(o, price) == IF o.side = "LONG" THEN price - o.entry ELSE o.entry - price

ExitPrice(o, bars, e) ==
    IF Stops(o, bars[e]) THEN o.stop
    ELSE IF Reaches(o, bars[e]) THEN o.target ELSE bars[e].close

Favorable(o, bar) == Worth(o, IF o.side = "LONG" THEN bar.high ELSE bar.low)
Adverse(o, bar)   == Worth(o, IF o.side = "LONG" THEN bar.low ELSE bar.high)

\* The maximal favorable and adverse excursions of a position left at bar e:
\* running extremes that begin at zero.
IsMfe(o, bars, e, x) ==
    /\ x = 0 \/ \E i \in 1 .. e : x = Favorable(o, bars[i])
    /\ x >= 0 /\ \A i \in 1 .. e : Favorable(o, bars[i]) <= x
IsMae(o, bars, e, x) ==
    /\ x = 0 \/ \E i \in 1 .. e : x = Adverse(o, bars[i])
    /\ x <= 0 /\ \A i \in 1 .. e : x <= Adverse(o, bars[i])

\* The batch takes a signal only if its entry bar is of the signal's own day.
BatchTakes(bars, day) == bars[1].day = day

(***************************************************************************)
(* The review of a futures signal: bars[1 .. n] are of one session, the    *)
(* first of them the entry bar; a position is of one contract.             *)
(***************************************************************************)

LastReviewed(n) == IF n < MaxBars THEN n ELSE MaxBars

FuturesLeaves(o, bars, n, i) ==
    \/ Touches(o, bars[i])
    \/ i = LastReviewed(n)
    \/ bars[i + 1].contract # bars[1].contract

FuturesExitAt(o, bars, n, e) ==
    /\ e \in 1 .. LastReviewed(n)
    /\ FuturesLeaves(o, bars, n, e)
    /\ \A i \in 1 .. n : i < e => ~FuturesLeaves(o, bars, n, i)

FuturesReason(o, bars, n, e) ==
    IF Stops(o, bars[e]) THEN "STOP"
    ELSE IF Reaches(o, bars[e]) THEN "TARGET"
    ELSE IF e = LastReviewed(n) /\ e # n THEN "MAX_BARS" ELSE "SESSION_END"

FuturesBucket(rows, start, contract) ==
    {r \in rows : start <= r.ts /\ r.ts < start + Width /\ r.contract = contract}

(***************************************************************************)
(* The replay: rows is a set of one-minute bars, date the day read from    *)
(* the result's own text, 0 when it does not begin with one.               *)
(***************************************************************************)

Bucket(rows, start, date) ==
    {r \in rows : start <= r.ts /\ r.ts < start + Width /\ (date # 0 => r.day = date)}

\* The row the scan stops at.
ResolvedBy(o, bucket, r) ==
    /\ r \in bucket /\ Touches(o, r)
    /\ \A q \in bucket : q.ts < r.ts => ~Touches(o, q)

Resolution(o, r) ==
    IF Both(o, r) THEN "AMBIGUOUS_1M" ELSE IF Stops(o, r) THEN "STOP" ELSE "TARGET"

\* REPLAY_INCONSISTENT_WITH_5M, or REPLAY_BUCKET_NOT_FOUND.
Unresolved(o, bucket) == \A r \in bucket : ~Touches(o, r)

(***************************************************************************)
(* What the market did: its minutes, of which the bars are made.           *)
(***************************************************************************)

\* Bar b summarises the minutes of its window.
MadeOf(b, tape) ==
    LET window == Bucket(tape, b.ts, 0)
    IN  /\ \A r \in window : b.low <= r.low /\ r.high <= b.high /\ r.day = b.day
        /\ \E r \in window : r.low = b.low
        /\ \E r \in window : r.high = b.high

\* Every minute from the entry on is in the window of one of the bars, and
\* the windows follow each other.
Recorded(bars, n, tape) ==
    /\ \A i \in 1 .. n : MadeOf(bars[i], tape)
    /\ \A i, j \in 1 .. n : i < j => bars[i].ts + Width <= bars[j].ts
    /\ \A r \in tape : bars[1].ts <= r.ts =>
         \E i \in 1 .. n : bars[i].ts <= r.ts /\ r.ts < bars[i].ts + Width

\* The first minute of the market, from the entry on, that touches a level.
FirstTouch(o, bars, tape, r) ==
    /\ r \in tape /\ bars[1].ts <= r.ts /\ Touches(o, r)
    /\ \A q \in tape : bars[1].ts <= q.ts /\ q.ts < r.ts => ~Touches(o, q)
=============================================================================
