--------------------------- MODULE ResearchProofs ---------------------------
(***************************************************************************)
(* What the research promises: its pure parts, the backtest and its        *)
(* replay, the studies and the records, for inputs of every size; and its  *)
(* gateway for any number of calls.                                        *)
(***************************************************************************)
EXTENDS ResearchGateway, IntradayReplay, ResearchStudies, ResearchRecords, FiniteSetTheorems, TLAPS

(***************************************************************************)
(* The backtest and the replay decide what the market's minutes decide,    *)
(* for every tape, every position and every bar that summarises its        *)
(* minutes: touches are monotonic in the range of a bar.                   *)
(***************************************************************************)

\* A case: bars that record a tape, and a position taken at the first.
Case(o, bars, n, tape) ==
    /\ o \in [side : {"LONG", "SHORT"}, entry : Int, stop : Int, target : Int]
    /\ n \in Nat \ {0}
    /\ bars \in [1 .. n -> Bar(Int)]
    /\ tape \subseteq Bar(Int)
    /\ Recorded(bars, n, tape)

\* A minute touches no level that its bar does not touch.
LEMMA MinuteTouchesLess ==
    ASSUME NEW o \in [side : {"LONG", "SHORT"}, entry : Int, stop : Int, target : Int],
           NEW tape \in SUBSET Bar(Int), NEW b \in Bar(Int), MadeOf(b, tape),
           NEW r \in Bucket(tape, b.ts, 0)
    PROVE  (Stops(o, r) => Stops(o, b)) /\ (Reaches(o, r) => Reaches(o, b))
<1>1. r \in Bar(Int) /\ b.low <= r.low /\ r.high <= b.high
  BY DEF MadeOf, Bucket
<1>2. b.low \in Int /\ b.high \in Int /\ r.low \in Int /\ r.high \in Int
  BY <1>1 DEF Bar
<1>. QED  BY <1>1, <1>2 DEF Stops, Reaches

\* A level that a bar touches is touched by one of its minutes.
LEMMA BarIsTouchedByMinute ==
    ASSUME NEW o \in [side : {"LONG", "SHORT"}, entry : Int, stop : Int, target : Int],
           NEW tape \in SUBSET Bar(Int), NEW b \in Bar(Int), MadeOf(b, tape)
    PROVE  /\ Stops(o, b) => \E r \in Bucket(tape, b.ts, 0) : Stops(o, r)
           /\ Reaches(o, b) => \E r \in Bucket(tape, b.ts, 0) : Reaches(o, r)
<1>1. PICK q \in Bucket(tape, b.ts, 0) : q.low = b.low
  BY DEF MadeOf
<1>2. PICK r \in Bucket(tape, b.ts, 0) : r.high = b.high
  BY DEF MadeOf
<1>. QED  BY <1>1, <1>2 DEF Stops, Reaches

\* No minute between the entry and the exit bar touches a level: the loop of
\* the backtest has looked at all of them, bar by bar.
THEOREM QuietUntilExit ==
    ASSUME NEW o, NEW bars, NEW n, NEW tape, Case(o, bars, n, tape),
           NEW e, ExitAt(o, bars, n, e),
           NEW r \in tape, bars[1].ts <= r.ts, r.ts < bars[e].ts
    PROVE  ~Touches(o, r)
<1>1. PICK i \in 1 .. n : bars[i].ts <= r.ts /\ r.ts < bars[i].ts + Width
  BY DEF Case, Recorded
<1>2. e \in 1 .. n /\ bars[i] \in Bar(Int) /\ bars[e] \in Bar(Int) /\ r \in Bar(Int)
  BY <1>1 DEF Case, ExitAt
<1>3. i < e
  <2>1. SUFFICES ASSUME ~(i < e) PROVE FALSE
    OBVIOUS
  <2>2. n \in Nat /\ i \in Int /\ e \in Int
    BY <1>1, <1>2 DEF Case
  <2>3. i = e \/ e < i
    BY <2>1, <2>2
  <2>4. e < i => bars[e].ts + Width <= bars[i].ts
    BY <1>1, <1>2 DEF Case, Recorded
  <2>5. bars[e].ts \in Int /\ bars[i].ts \in Int /\ r.ts \in Int
    BY <1>2 DEF Bar
  <2>. QED  BY <1>1, <2>3, <2>4, <2>5, IntradayAssumption
<1>4. ~Touches(o, bars[i])
  BY <1>1, <1>3 DEF ExitAt, Leaves
<1>5. r \in Bucket(tape, bars[i].ts, 0)
  BY <1>1 DEF Bucket
<1>6. MadeOf(bars[i], tape)
  BY <1>1 DEF Case, Recorded
<1>. QED  BY <1>2, <1>4, <1>5, <1>6, MinuteTouchesLess DEF Case, Touches

\* Every minute that touches a level from the entry on comes with the exit bar
\* or after it.
LEMMA FirstTouchIsLate ==
    ASSUME NEW o, NEW bars, NEW n, NEW tape, Case(o, bars, n, tape),
           NEW e, ExitAt(o, bars, n, e),
           NEW r, FirstTouch(o, bars, tape, r)
    PROVE  r \in Bar(Int) /\ bars[e] \in Bar(Int) /\ bars[e].ts <= r.ts
<1>1. r \in Bar(Int) /\ bars[e] \in Bar(Int) /\ r.ts \in Int /\ bars[e].ts \in Int
  BY DEF FirstTouch, Case, ExitAt, Bar
<1>2. ~(r.ts < bars[e].ts)
  BY QuietUntilExit DEF FirstTouch
<1>. QED  BY <1>1, <1>2

\* When the exit bar is touched, so is one of its minutes, and the market's
\* first touch is in its window.
LEMMA FirstTouchIsInExitBar ==
    ASSUME NEW o, NEW bars, NEW n, NEW tape, Case(o, bars, n, tape),
           NEW e, ExitAt(o, bars, n, e), Touches(o, bars[e]),
           NEW r, FirstTouch(o, bars, tape, r)
    PROVE  r \in Bucket(tape, bars[e].ts, 0)
<1>1. r \in Bar(Int) /\ bars[e] \in Bar(Int) /\ bars[e].ts <= r.ts
  BY FirstTouchIsLate
<1>2. MadeOf(bars[e], tape) /\ tape \in SUBSET Bar(Int)
  BY DEF Case, Recorded, ExitAt
<1>3. PICK q \in Bucket(tape, bars[e].ts, 0) : Touches(o, q)
  BY <1>1, <1>2, BarIsTouchedByMinute DEF Case, Touches
<1>4. /\ q \in tape /\ q \in Bar(Int)
      /\ bars[e].ts <= q.ts /\ q.ts < bars[e].ts + Width
  BY <1>2, <1>3 DEF Bucket
<1>5. bars[1].ts <= bars[e].ts
  <2>1. n \in Nat /\ e \in 1 .. n /\ 1 \in 1 .. n
    BY DEF Case, ExitAt
  <2>2. e = 1 \/ 1 < e
    BY <2>1
  <2>3. 1 < e => bars[1].ts + Width <= bars[e].ts
    BY <2>1 DEF Case, Recorded
  <2>4. bars[1] \in Bar(Int) /\ bars[1].ts \in Int /\ bars[e].ts \in Int
    BY <1>1, <2>1 DEF Case, Bar
  <2>. QED  BY <2>2, <2>3, <2>4, IntradayAssumption
<1>6. bars[1].ts \in Int /\ bars[e].ts \in Int /\ q.ts \in Int /\ r.ts \in Int
  <2>1. 1 \in 1 .. n
    BY DEF Case
  <2>. QED  BY <1>1, <1>4, <2>1 DEF Case, Bar
<1>7. ~(q.ts < r.ts)
  BY <1>3, <1>4, <1>5, <1>6 DEF FirstTouch
<1>. QED  BY <1>1, <1>4, <1>6, <1>7, IntradayAssumption DEF FirstTouch, Bucket

\* Without an ambiguity the backtest says what the market did first: a stop or
\* a target is that of the first minute that touches either, and a position
\* left for the time was not touched before the end of its last bar
\* (runDeterministicIntraday5mBacktest).
THEOREM BacktestIsFirstTouch ==
    ASSUME NEW o, NEW bars, NEW n, NEW tape, Case(o, bars, n, tape),
           NEW e, ExitAt(o, bars, n, e), ~RequiresReplay(o, bars, e),
           NEW r, FirstTouch(o, bars, tape, r)
    PROVE  \/ /\ Reason(o, bars, n, e) \in {"STOP", "TARGET"}
              /\ Resolution(o, r) = Reason(o, bars, n, e)
           \/ /\ Reason(o, bars, n, e) \in {"EOD", "MAX_BARS"}
              /\ bars[e].ts + Width <= r.ts
<1>1. r \in Bar(Int) /\ bars[e] \in Bar(Int) /\ bars[e].ts <= r.ts
  BY FirstTouchIsLate
<1>2. MadeOf(bars[e], tape) /\ tape \in SUBSET Bar(Int)
  BY DEF Case, Recorded, ExitAt
<1>3. o \in [side : {"LONG", "SHORT"}, entry : Int, stop : Int, target : Int]
  BY DEF Case
<1>4. r \in Bucket(tape, bars[e].ts, 0) =>
        (Stops(o, r) => Stops(o, bars[e])) /\ (Reaches(o, r) => Reaches(o, bars[e]))
  BY <1>1, <1>2, <1>3, MinuteTouchesLess
<1>5. CASE Touches(o, bars[e])
  <2>1. r \in Bucket(tape, bars[e].ts, 0)
    BY <1>5, FirstTouchIsInExitBar
  <2>2. Touches(o, r)
    BY DEF FirstTouch
  <2>. QED  BY <1>4, <1>5, <2>1, <2>2 DEF Reason, Resolution, RequiresReplay, Both, Touches
<1>6. CASE ~Touches(o, bars[e])
  <2>1. r \notin Bucket(tape, bars[e].ts, 0)
    BY <1>4, <1>6 DEF FirstTouch, Touches
  <2>2. r \in tape
    BY DEF FirstTouch
  <2>3. bars[e].ts \in Int /\ r.ts \in Int
    BY <1>1 DEF Bar
  <2>4. bars[e].ts + Width <= r.ts
    BY <1>1, <2>1, <2>2, <2>3, IntradayAssumption DEF Bucket
  <2>5. Reason(o, bars, n, e) \in {"EOD", "MAX_BARS"}
    BY <1>6 DEF Reason, Touches
  <2>. QED  BY <2>4, <2>5
<1>. QED  BY <1>5, <1>6

\* When the rows of the replay are all the minutes of the ambiguous bar, the
\* replay finds an answer, and it is that of the market's first touch
\* (resolveAmbiguousBacktestEvidenceWith1m).
THEOREM ReplayIsFirstTouch ==
    ASSUME NEW o, NEW bars, NEW n, NEW tape, Case(o, bars, n, tape),
           NEW e, ExitAt(o, bars, n, e), RequiresReplay(o, bars, e),
           NEW rows, NEW date,
           Bucket(rows, bars[e].ts, date) = Bucket(tape, bars[e].ts, 0)
    PROVE  /\ ~Unresolved(o, Bucket(rows, bars[e].ts, date))
           /\ \A r : ResolvedBy(o, Bucket(rows, bars[e].ts, date), r)
                       => FirstTouch(o, bars, tape, r)
<1>. DEFINE bucket == Bucket(tape, bars[e].ts, 0)
<1>1. /\ MadeOf(bars[e], tape) /\ tape \in SUBSET Bar(Int) /\ bars[e] \in Bar(Int)
      /\ o \in [side : {"LONG", "SHORT"}, entry : Int, stop : Int, target : Int]
  BY DEF Case, Recorded, ExitAt
<1>2. ~Unresolved(o, bucket)
  BY <1>1, BarIsTouchedByMinute DEF RequiresReplay, Both, Unresolved, Touches
<1>3. ASSUME NEW r, ResolvedBy(o, bucket, r) PROVE FirstTouch(o, bars, tape, r)
  <2>1. /\ r \in tape /\ r \in Bar(Int) /\ Touches(o, r)
        /\ bars[e].ts <= r.ts /\ r.ts < bars[e].ts + Width
    BY <1>1, <1>3 DEF ResolvedBy, Bucket
  <2>2. bars[1].ts <= bars[e].ts /\ bars[1].ts \in Int
    <3>1. n \in Nat /\ e \in 1 .. n /\ 1 \in 1 .. n
      BY DEF Case, ExitAt
    <3>2. e = 1 \/ 1 < e
      BY <3>1
    <3>3. 1 < e => bars[1].ts + Width <= bars[e].ts
      BY <3>1 DEF Case, Recorded
    <3>4. bars[1] \in Bar(Int) /\ bars[1].ts \in Int /\ bars[e].ts \in Int
      BY <1>1, <3>1 DEF Case, Bar
    <3>. QED  BY <3>2, <3>3, <3>4, IntradayAssumption
  <2>3. ASSUME NEW q \in tape, bars[1].ts <= q.ts, q.ts < r.ts PROVE ~Touches(o, q)
    <3>1. q.ts \in Int /\ r.ts \in Int /\ bars[e].ts \in Int
      BY <1>1, <2>1 DEF Bar
    <3>2. CASE q.ts < bars[e].ts
      BY <2>3, <3>2, QuietUntilExit
    <3>3. CASE bars[e].ts <= q.ts
      <4>1. q \in bucket
        BY <2>1, <2>3, <3>1, <3>3, IntradayAssumption DEF Bucket
      <4>. QED  BY <1>3, <2>3, <4>1 DEF ResolvedBy
    <3>. QED  BY <3>1, <3>2, <3>3
  <2>4. bars[1].ts <= r.ts
    BY <1>1, <2>1, <2>2 DEF Bar
  <2>. QED  BY <2>1, <2>3, <2>4 DEF FirstTouch
<1>. QED  BY <1>2, <1>3

(***************************************************************************)
(* What the backtest reports of a position, for every tape or none.        *)
(***************************************************************************)

\* A position taken at a level: the stop on the losing side of the entry, the
\* target on the winning side.
Taken(o) ==
    /\ o \in [side : {"LONG", "SHORT"}, entry : Int, stop : Int, target : Int]
    /\ Worth(o, o.stop) < 0 /\ Worth(o, o.target) > 0

LEMMA PositionIsTaken ==
    ASSUME NEW side \in {"LONG", "SHORT"}, NEW open \in Int,
           NEW risk \in Nat \ {0}, NEW reward \in Nat \ {0}
    PROVE  Taken(Position(side, open, risk, reward))
BY DEF Taken, Position, Worth

\* A position is never held into another day, nor for more than max_bars bars,
\* and every one of its bars has the day of the signal
\* (runDeterministicBatchBacktest5m, runDeterministicIntraday5mBacktest).
THEOREM NeverOvernight ==
    ASSUME NEW o, NEW n \in Nat \ {0}, NEW bars \in [1 .. n -> Bar(Int)],
           NEW e, ExitAt(o, bars, n, e), NEW day, BatchTakes(bars, day)
    PROVE  e <= MaxBars /\ \A i \in 1 .. e : bars[i].day = day
<1>1. e \in 1 .. n /\ e \in Nat
  BY DEF ExitAt
<1>2. ASSUME NEW i \in 1 .. e PROVE bars[i].day = day
  <2>1. CASE i = 1
    BY <2>1 DEF BatchTakes
  <2>2. CASE i # 1
    <3>1. i - 1 \in 1 .. n /\ i - 1 < e /\ i - 1 + 1 = i
      BY <1>1, <1>2, <2>2
    <3>2. ~LastOfDay(bars, n, i - 1)
      BY <3>1 DEF ExitAt, Leaves
    <3>. QED  BY <3>1, <3>2 DEF LastOfDay, BatchTakes
  <2>. QED  BY <2>1, <2>2
<1>3. e <= MaxBars
  <2>1. SUFFICES ASSUME MaxBars < e PROVE FALSE
    BY <1>1, IntradayAssumption
  <2>2. MaxBars \in 1 .. n /\ MaxBars < e
    BY <1>1, <2>1, IntradayAssumption
  <2>3. Leaves(o, bars, n, MaxBars)
    BY <2>2 DEF Leaves
  <2>. QED  BY <2>2, <2>3 DEF ExitAt
<1>. QED  BY <1>2, <1>3

\* The return lies between the excursions reported with it, whatever the exit
\* (exitPrice, mfePct and maePct of runDeterministicIntraday5mBacktest).
THEOREM ExcursionsBoundReturn ==
    ASSUME NEW o, Taken(o), NEW n \in Nat \ {0}, NEW bars \in [1 .. n -> Bar(Int)],
           NEW e, ExitAt(o, bars, n, e),
           bars[e].low <= bars[e].close, bars[e].close <= bars[e].high,
           NEW mfe \in Int, IsMfe(o, bars, e, mfe), NEW mae \in Int, IsMae(o, bars, e, mae)
    PROVE  mae <= Worth(o, ExitPrice(o, bars, e)) /\ Worth(o, ExitPrice(o, bars, e)) <= mfe
<1>1. e \in 1 .. e /\ bars[e] \in Bar(Int)
  BY DEF ExitAt
<1>2. /\ bars[e].low \in Int /\ bars[e].high \in Int /\ bars[e].close \in Int
      /\ o.entry \in Int /\ o.stop \in Int /\ o.target \in Int
      /\ o.side \in {"LONG", "SHORT"}
  BY <1>1 DEF Bar, Taken
<1>3. /\ 0 <= mfe /\ Favorable(o, bars[e]) <= mfe
      /\ mae <= 0 /\ mae <= Adverse(o, bars[e])
  BY <1>1 DEF IsMfe, IsMae
<1>4. CASE Stops(o, bars[e])
  BY SMTT(30), <1>2, <1>3, <1>4 DEF ExitPrice, Stops, Worth, Adverse, Taken
<1>5. CASE ~Stops(o, bars[e]) /\ Reaches(o, bars[e])
  BY SMTT(30), <1>2, <1>3, <1>5 DEF ExitPrice, Reaches, Worth, Favorable, Taken
<1>6. CASE ~Stops(o, bars[e]) /\ ~Reaches(o, bars[e])
  <2>1. ExitPrice(o, bars, e) = bars[e].close
    BY <1>6 DEF ExitPrice
  <2>2. CASE o.side = "LONG"
    <3>1. /\ Favorable(o, bars[e]) = bars[e].high - o.entry
          /\ Adverse(o, bars[e]) = bars[e].low - o.entry
          /\ Worth(o, bars[e].close) = bars[e].close - o.entry
      BY <2>2 DEF Worth, Favorable, Adverse
    <3>. QED  BY SMTT(30), <1>2, <1>3, <2>1, <3>1
  <2>3. CASE o.side = "SHORT"
    <3>1. /\ Favorable(o, bars[e]) = o.entry - bars[e].low
          /\ Adverse(o, bars[e]) = o.entry - bars[e].high
          /\ Worth(o, bars[e].close) = o.entry - bars[e].close
      BY <2>3 DEF Worth, Favorable, Adverse
    <3>. QED  BY SMTT(30), <1>2, <1>3, <2>1, <3>1
  <2>. QED  BY <1>2, <2>2, <2>3
<1>. QED  BY <1>4, <1>5, <1>6

\* A futures position is never carried into the next contract, nor for more than
\* max_bars bars, nor past the last bar of the session (runTxfReview5m).
THEOREM OneContract ==
    ASSUME NEW o, NEW bars, NEW n \in Nat \ {0}, NEW e, FuturesExitAt(o, bars, n, e)
    PROVE  e <= MaxBars /\ \A i \in 1 .. e : bars[i].contract = bars[1].contract
<1>1. e \in 1 .. n /\ e \in Nat /\ e <= MaxBars
  BY IntradayAssumption DEF FuturesExitAt, LastReviewed
<1>2. ASSUME NEW i \in 1 .. e PROVE bars[i].contract = bars[1].contract
  <2>1. CASE i # 1
    <3>1. i - 1 \in 1 .. n /\ i - 1 < e /\ i - 1 + 1 = i
      BY <1>1, <1>2, <2>1
    <3>. QED  BY <3>1 DEF FuturesExitAt, FuturesLeaves
  <2>. QED  BY <2>1
<1>. QED  BY <1>1, <1>2

(***************************************************************************)
(* What the studies promise for every number of candidates, cases, folds,  *)
(* sessions and signals.                                                   *)
(***************************************************************************)

\* No case of a test window is dated before a case of its training window, and
\* none is in both (runWalkForwardValidation on the order of canonicalTrades).
THEOREM TestFollowsTraining ==
    ASSUME NEW total \in Nat, NEW cases \in [1 .. total -> [date : Int, case : Int]],
           CanonicalOrder(cases, total),
           NEW train \in Nat, NEW test \in Nat, NEW step \in Nat \ {0},
           NEW start \in Nat, IsFold(start, total, train, test, step),
           NEW i \in TrainOf(start, train), NEW j \in TestOf(start, train, test)
    PROVE  i < j /\ cases[i].date <= cases[j].date
<1>1. i \in 1 .. total /\ j \in 1 .. total /\ i < j
  BY DEF IsFold, TrainOf, TestOf
<1>2. Earlier(cases[i], cases[j])
  BY <1>1 DEF CanonicalOrder
<1>3. cases[i] \in [date : Int, case : Int] /\ cases[j] \in [date : Int, case : Int]
  BY <1>1
<1>. QED  BY <1>1, <1>2, <1>3 DEF Earlier

\* Two multiples of a step are a step apart.
LEMMA StepsApart ==
    ASSUME NEW step \in Nat, NEW k \in Nat, NEW l \in Nat, k * step < l * step
    PROVE  k * step + step <= l * step
<1>1. k < l
  <2>1. SUFFICES ASSUME l <= k PROVE l * step <= k * step
    OBVIOUS
  <2>2. PICK m \in Nat : k = l + m
    <3>1. k - l \in Nat /\ k = l + (k - l)
      BY <2>1
    <3>. QED  BY <3>1
  <2>3. k * step = l * step + m * step /\ m * step \in Nat
    BY <2>2
  <2>. QED  BY <2>3
<1>2. PICK m \in Nat : l = k + 1 + m
  <2>1. l - k - 1 \in Nat /\ l = k + 1 + (l - k - 1)
    BY <1>1
  <2>. QED  BY <2>1
<1>3. l * step = k * step + step + m * step /\ m * step \in Nat
  BY <1>2
<1>. QED  BY <1>3

\* When the step is at least a test window, no case is tested in two folds, so
\* the out-of-sample returns hold each case at most once.
THEOREM TestedOnce ==
    ASSUME NEW total \in Nat, NEW train \in Nat, NEW test \in Nat, NEW step \in Nat \ {0},
           test <= step,
           NEW s \in Nat, IsFold(s, total, train, test, step),
           NEW t \in Nat, IsFold(t, total, train, test, step), s # t
    PROVE  TestOf(s, train, test) \cap TestOf(t, train, test) = {}
<1>1. PICK k \in 0 .. s : s = k * step
  BY DEF IsFold
<1>2. PICK l \in 0 .. t : t = l * step
  BY DEF IsFold
<1>3. CASE s < t
  <2>1. s + step <= t
    BY <1>1, <1>2, <1>3, StepsApart
  <2>. QED  BY <2>1 DEF TestOf
<1>4. CASE t < s
  <2>1. t + step <= s
    BY <1>1, <1>2, <1>4, StepsApart
  <2>. QED  BY <2>1 DEF TestOf
<1>. QED  BY <1>3, <1>4

\* The selection is of one candidate at most, in whatever order they are given,
\* and no score is above that of the selected one (the sort of scored).
THEOREM SelectionIsBest ==
    ASSUME NEW Ids \in SUBSET Int, NEW score \in [Ids -> Int \X Int],
           NEW c, BestOf(score, c), NEW d \in Ids
    PROVE  ~Above(score[d], score[c]) /\ (BestOf(score, d) => d = c)
<1>1. /\ c \in Ids /\ c \in Int /\ d \in Int
      /\ score[c] \in Int \X Int /\ score[d] \in Int \X Int
  BY DEF BestOf
<1>2. Above(score[c], score[d]) => ~Above(score[d], score[c])
  <2>1. /\ score[c][1] \in Int /\ score[c][2] \in Int
        /\ score[d][1] \in Int /\ score[d][2] \in Int
    BY <1>1
  <2>2. score[c][1] * score[d][2] \in Int /\ score[d][1] * score[c][2] \in Int
    BY <2>1
  <2>. QED  BY <2>2 DEF Above
<1>3. d # c => Above(score[c], score[d]) \/ (~Above(score[d], score[c]) /\ c < d)
  BY DEF BestOf
<1>4. ~Above(score[c], score[c])
  <2>1. score[c][1] \in Int /\ score[c][2] \in Int
    BY <1>1
  <2>2. score[c][1] * score[c][2] \in Int
    BY <2>1
  <2>. QED  BY <2>2 DEF Above
<1>5. ASSUME BestOf(score, d), d # c PROVE FALSE
  <2>1. Above(score[d], score[c]) \/ (~Above(score[c], score[d]) /\ d < c)
    BY <1>1, <1>5 DEF BestOf
  <2>2. c < d /\ d < c
    BY <1>2, <1>3, <1>5, <2>1
  <2>. QED  BY <1>1, <2>2
<1>. QED  BY <1>2, <1>3, <1>4, <1>5

\* What a candidate makes of the cases after the training window has no part in
\* the selection: two histories that agree on the window select the same
\* (docs/P11-RESEARCH-VALIDATION.md: "Future Test rows never participate").
THEOREM FutureNeverSelects ==
    ASSUME NEW ret, NEW other, DOMAIN ret = DOMAIN other,
           NEW start, NEW train,
           \A c \in DOMAIN ret : \A k \in TrainOf(start, train) : ret[c][k] = other[c][k],
           NEW metric, NEW c
    PROVE  Selects(ret, start, train, metric, c) <=> Selects(other, start, train, metric, c)
<1>1. ASSUME NEW x \in DOMAIN ret
      PROVE  [k \in TrainOf(start, train) |-> ret[x][k]]
               = [k \in TrainOf(start, train) |-> other[x][k]]
  BY <1>1
<1>2. TrainScores(ret, start, train, metric) = TrainScores(other, start, train, metric)
  BY <1>1 DEF TrainScores
<1>. QED  BY <1>2 DEF Selects

(***************************************************************************)
(* The swing path.                                                         *)
(***************************************************************************)

LEMMA Mirrored ==
    \A open, close, low, high \in Int :
        low <= open /\ open <= high /\ low <= close /\ close <= high =>
            /\ -(high - open) <= open - close /\ open - close <= -(low - open)
            /\ -(high - open) <= 0 /\ 0 <= -(low - open)
OBVIOUS

\* At every session of the path the return at the close lies between the two
\* excursions, and zero between them (directional_close_return_pct, mfe_pct and
\* mae_pct of runSwingOutcomePath).
THEOREM SwingExcursionsBoundReturn ==
    ASSUME NEW n \in Nat, NEW bars \in [1 .. n -> Session],
           \A i \in 1 .. n : Ordered(bars[i]),
           NEW day \in Int, NEW f, IsReference(bars, n, day, f),
           NEW horizons \in Nat, NEW k \in PathOf(n, f, horizons),
           NEW highest \in Int, IsHighest(bars, f, k, highest),
           NEW lowest \in Int, IsLowest(bars, f, k, lowest),
           NEW side \in {"LONG", "SHORT"}
    PROVE  LET mfe == PathMfe(side, bars[f].open, highest, lowest)
               mae == PathMae(side, bars[f].open, highest, lowest)
               ret == Directional(side, bars[f].open, bars[k].close)
           IN  mae <= ret /\ ret <= mfe /\ mae <= 0 /\ 0 <= mfe
<1>1. f \in 1 .. n /\ k \in 1 .. n /\ k \in f .. k
  BY DEF IsReference, PathOf
<1>2. bars[f] \in Session /\ bars[k] \in Session /\ Ordered(bars[k])
  BY <1>1
<1>3. /\ bars[f].open \in Int /\ bars[k].close \in Int
      /\ bars[k].low \in Int /\ bars[k].high \in Int
      /\ bars[k].low <= bars[k].close /\ bars[k].close <= bars[k].high
  BY <1>2 DEF Session, Ordered
<1>4. /\ bars[f].open <= highest /\ bars[k].high <= highest
      /\ lowest <= bars[f].open /\ lowest <= bars[k].low
  BY <1>1 DEF IsHighest, IsLowest
<1>5. lowest <= bars[k].close /\ bars[k].close <= highest
  BY <1>3, <1>4
<1>6. CASE side = "LONG"
  BY SMTT(30), <1>3, <1>4, <1>5, <1>6 DEF PathMfe, PathMae, Directional
<1>7. CASE side = "SHORT"
  <2>1. /\ PathMfe(side, bars[f].open, highest, lowest) = -(lowest - bars[f].open)
        /\ PathMae(side, bars[f].open, highest, lowest) = -(highest - bars[f].open)
        /\ Directional(side, bars[f].open, bars[k].close) = bars[f].open - bars[k].close
    BY <1>7 DEF PathMfe, PathMae, Directional
  <2>2. /\ -(highest - bars[f].open) <= bars[f].open - bars[k].close
        /\ bars[f].open - bars[k].close <= -(lowest - bars[f].open)
        /\ -(highest - bars[f].open) <= 0 /\ 0 <= -(lowest - bars[f].open)
    BY <1>3, <1>4, <1>5, Mirrored
  <2>. QED  BY <2>1, <2>2
<1>. QED  BY <1>6, <1>7

\* A longer path never takes an excursion back: mfe does not fall and mae does
\* not rise from one horizon to a later one.
THEOREM SwingExcursionsWiden ==
    ASSUME NEW n \in Nat, NEW bars \in [1 .. n -> Session],
           NEW day \in Int, NEW f, IsReference(bars, n, day, f),
           NEW k \in f .. n, NEW l \in f .. n, k <= l,
           NEW high1 \in Int, IsHighest(bars, f, k, high1),
           NEW low1 \in Int, IsLowest(bars, f, k, low1),
           NEW high2 \in Int, IsHighest(bars, f, l, high2),
           NEW low2 \in Int, IsLowest(bars, f, l, low2),
           NEW side \in {"LONG", "SHORT"}
    PROVE  /\ PathMfe(side, bars[f].open, high1, low1) <= PathMfe(side, bars[f].open, high2, low2)
           /\ PathMae(side, bars[f].open, high2, low2) <= PathMae(side, bars[f].open, high1, low1)
<1>1. f \in 1 .. n /\ bars[f] \in Session /\ bars[f].open \in Int
  BY DEF IsReference, Session
<1>2. \A i \in f .. k : i \in f .. l
  BY <1>1
<1>3. high1 <= high2
  BY <1>2 DEF IsHighest
<1>4. low2 <= low1
  BY <1>2 DEF IsLowest
<1>5. CASE side = "LONG"
  BY <1>1, <1>3, <1>4, <1>5 DEF PathMfe, PathMae
<1>6. CASE side = "SHORT"
  <2>1. \A high, low : /\ PathMfe(side, bars[f].open, high, low) = -(low - bars[f].open)
                       /\ PathMae(side, bars[f].open, high, low) = -(high - bars[f].open)
    BY <1>6 DEF PathMfe, PathMae
  <2>. QED  BY SMTT(30), <1>1, <1>3, <1>4, <2>1
<1>. QED  BY <1>5, <1>6

(***************************************************************************)
(* The candidates of a swing ranking.                                      *)
(***************************************************************************)

\* One signal stands for a symbol, and it is one that no other of the symbol is
\* preferred to (deduplicated in rankSwingCandidateEvidence).
THEOREM OneStandsForSymbol ==
    ASSUME NEW n \in Nat, NEW signals \in [1 .. n -> [symbol : Int, score : Int, ts : Int]],
           NEW k, Stands(signals, n, k), NEW l, Stands(signals, n, l),
           signals[k].symbol = signals[l].symbol
    PROVE  k = l
<1>1. k \in 1 .. n /\ l \in 1 .. n
  BY DEF Stands
<1>2. ASSUME k < l PROVE FALSE
  BY <1>1, <1>2 DEF Stands
<1>3. ASSUME l < k PROVE FALSE
  BY <1>1, <1>3 DEF Stands
<1>. QED  BY <1>1, <1>2, <1>3

(***************************************************************************)
(* What the research memory promises for records of every size.            *)
(***************************************************************************)

Anchor  == [ts : Int, price : Int]
Lines   == [id : Int, anchors : Seq(Anchor)]
ReasonLine  == [code : Int, weight : Int]

Judgments ==
    [market : Markets, symbol : {"TXF"} \cup STRING, day : Int, at : Int, cutoff : Int,
     watermark : Int, reasons : Seq(ReasonLine), levels : Seq(Int), lines : Seq(Lines),
     patterns : Seq([id : Int, ts : Int])]

\* What a sequence holds is of the set it is a sequence over.
LEMMA ElementsAreOf ==
    ASSUME NEW S, NEW s \in Seq(S), NEW x \in Elements(s)
    PROVE  x \in S
BY DEF Elements

\* Whatever a judgment was drawn from lies before the outcome that a review of
\* it reports: the data, the anchors of every line and every pattern.
THEOREM JudgedBeforeOutcome ==
    ASSUME NEW stored, NEW r, ReviewAccepted(r, stored), r.at \in Int,
           NEW j \in Judgments, j = stored[r.judgment], JudgmentAccepted(j)
    PROVE  /\ j.watermark < r.at
           /\ \A line \in Elements(j.lines) : \A a \in Elements(line.anchors) : a.ts < r.at
           /\ \A pattern \in Elements(j.patterns) : pattern.ts < r.at
<1>1. j.cutoff <= j.at /\ j.at < r.at /\ j.watermark <= j.cutoff
      /\ {j.at, j.cutoff, j.watermark} \subseteq Int
  BY DEF ReviewAccepted, JudgmentAccepted, Judgments
<1>2. ASSUME NEW line \in Elements(j.lines), NEW a \in Elements(line.anchors)
      PROVE  a.ts < r.at
  <2>1. a.ts <= j.cutoff
    BY DEF JudgmentAccepted, Drawn
  <2>2. j.lines \in Seq(Lines)
    BY DEF Judgments
  <2>3. line \in Lines
    BY <2>2, ElementsAreOf
  <2>4. line.anchors \in Seq(Anchor)
    BY <2>3 DEF Lines
  <2>5. a \in Anchor
    BY <2>4, ElementsAreOf
  <2>6. a.ts \in Int
    BY <2>5 DEF Anchor
  <2>. QED  BY <1>1, <2>1, <2>6
<1>3. ASSUME NEW pattern \in Elements(j.patterns)
      PROVE  pattern.ts < r.at
  <2>1. pattern.ts <= j.cutoff
    BY DEF JudgmentAccepted, Detected
  <2>2. j.patterns \in Seq([id : Int, ts : Int])
    BY DEF Judgments
  <2>3. pattern \in [id : Int, ts : Int]
    BY <2>2, ElementsAreOf
  <2>4. pattern.ts \in Int
    BY <2>3
  <2>. QED  BY <1>1, <2>1, <2>4
<1>4. j.watermark < r.at
  BY <1>1
<1>. QED  BY <1>2, <1>3, <1>4

\* Two sequences of reasons with the same elements, no two of one code, leave
\* every code with the same reason.
LEMMA ReasonsWithoutOrder ==
    ASSUME NEW s \in Seq(ReasonLine), NEW t \in Seq(ReasonLine), Elements(s) = Elements(t),
           DistinctBy(s, LAMBDA x : x.code), DistinctBy(t, LAMBDA x : x.code),
           NEW code, NEW x \in Elements(s), x.code = code
    PROVE  ReasonOf(s, code) = x /\ ReasonOf(t, code) = x
<1>1. ASSUME NEW u \in Seq(ReasonLine), DistinctBy(u, LAMBDA y : y.code), x \in Elements(u)
      PROVE  ReasonOf(u, code) = x
  <2>1. PICK i \in DOMAIN u : u[i] = x
    BY <1>1 DEF Elements
  <2>2. {k \in DOMAIN u : u[k].code = code} = {i}
    BY <1>1, <2>1 DEF DistinctBy
  <2>3. i <= i
    BY <1>1
  <2>. DEFINE given == {k \in DOMAIN u : u[k].code = code}
  <2>4. (CHOOSE k \in given : \A l \in given : l <= k) = i
    BY <2>2, <2>3
  <2>. QED  BY <2>1, <2>4 DEF ReasonOf
<1>. QED  BY <1>1

\* A repetition of a judgment with its reasons, levels and anchors in another
\* order has the content of the first, so the ledger finds it recorded.
THEOREM RepetitionIsTheSame ==
    ASSUME NEW j \in Judgments, NEW k \in Judgments,
           j.market = k.market, j.symbol = k.symbol, j.day = k.day, j.at = k.at,
           j.cutoff = k.cutoff, j.watermark = k.watermark, j.patterns = k.patterns,
           Elements(j.reasons) = Elements(k.reasons),
           DistinctBy(j.reasons, LAMBDA x : x.code), DistinctBy(k.reasons, LAMBDA x : x.code),
           Elements(j.levels) = Elements(k.levels),
           DOMAIN j.lines = DOMAIN k.lines,
           \A i \in DOMAIN j.lines :
              /\ j.lines[i].id = k.lines[i].id
              /\ Elements(j.lines[i].anchors) = Elements(k.lines[i].anchors)
    PROVE  Canonical(j) = Canonical(k)
<1>. DEFINE R(s) == {ReasonOf(s, x.code) : x \in Elements(s)}
            L(s) == [i \in DOMAIN s |-> [id |-> s[i].id, anchors |-> Elements(s[i].anchors)]]
<1>1. R(j.reasons) = R(k.reasons)
  <2>1. j.reasons \in Seq(ReasonLine) /\ k.reasons \in Seq(ReasonLine)
    BY DEF Judgments
  <2>2. ASSUME NEW x \in Elements(j.reasons)
        PROVE  ReasonOf(j.reasons, x.code) = x /\ ReasonOf(k.reasons, x.code) = x
    BY <2>1, ReasonsWithoutOrder
  <2>. QED  BY <2>2
<1>2. L(j.lines) = L(k.lines)
  OBVIOUS
<1>3. ASSUME NEW x \in Judgments
      PROVE  Canonical(x) =
               [market |-> x.market, symbol |-> x.symbol, day |-> x.day, at |-> x.at,
                cutoff |-> x.cutoff, watermark |-> x.watermark, reasons |-> R(x.reasons),
                levels |-> Elements(x.levels), lines |-> L(x.lines), patterns |-> x.patterns]
  <2>1. Canonical(x) = [x EXCEPT !.reasons = R(x.reasons), !.levels = Elements(x.levels),
                                 !.lines = L(x.lines)]
    BY DEF Canonical
  <2>. HIDE DEF R, L
  <2>. QED  BY <2>1 DEF Judgments
<1>. HIDE DEF R, L
<1>. QED  BY <1>1, <1>2, <1>3

\* A listing has no gap: with an entry it shows every newer one whose record is
\* there.
THEOREM NewerAreListed ==
    ASSUME NEW index, IsFiniteSet(index), \A e \in index : e.recorded \in Int,
           NEW records, NEW limit \in Int,
           NEW e \in Listed(index, records, limit),
           NEW f \in index, f.key \in records, f.recorded > e.recorded
    PROVE  f \in Listed(index, records, limit)
<1>1. e \in index /\ Cardinality(Newer(index, e)) < limit
  BY DEF Listed
<1>2. Newer(index, f) \subseteq Newer(index, e)
  BY <1>1 DEF Newer
<1>3. IsFiniteSet(Newer(index, e))
  BY FS_Subset DEF Newer
<1>4. Cardinality(Newer(index, f)) <= Cardinality(Newer(index, e))
      /\ Cardinality(Newer(index, f)) \in Nat /\ Cardinality(Newer(index, e)) \in Nat
  BY <1>2, <1>3, FS_Subset, FS_CardinalityType
<1>. QED  BY <1>1, <1>4 DEF Listed

\* A judgment on record has one latest version when no two were recorded in one
\* millisecond.
THEOREM LatestIsOne ==
    ASSUME NEW index, \A e, f \in index : e.recorded = f.recorded => e = f,
           \A e \in index : e.recorded \in Int,
           NEW id, NEW e \in Latest(index, id), NEW f \in Latest(index, id)
    PROVE  e = f
BY DEF Latest

(***************************************************************************)
(* The gateway of the research, for any number of overlapping calls: the   *)
(* proven tool runs once, and a call takes as a part of its answer only    *)
(* what the operation of that part has come to, although operations that   *)
(* were given up go on and end whenever they like.                         *)
(***************************************************************************)

USE GatewayAssumption

(***************************************************************************)
(* Types.                                                                  *)
(***************************************************************************)

\* A session begins well typed.
LEMMA InitTypeOK == Init => TypeOK
BY DEF Init, TypeOK, Loads, Parts, Values, NotTaken

\* Making a promise keeps the promises what they are.
LEMMA AskType ==
    ASSUME TypeOK, NEW m \in {"gateway", "facade"}, Ask(m)
    PROVE  loaded' \in [{"gateway", "facade"} -> Loads]
BY DEF TypeOK, Ask, Loads

\* Taking a part, or falling back for it, is well typed.
LEMMA TookType ==
    ASSUME TypeOK, NEW c \in Calls, NEW p \in Parts, NEW v \in Values, Took(c, p, v)
    PROVE  /\ pc' \in [Calls -> {"idle", "legacy", "gateway", "invoked", "compare",
                                 "answered", "renewed", "threw"}]
           /\ part' \in [Calls -> Parts]
           /\ taken' \in [Calls -> [Parts -> [value : Values \cup {"none"},
                                              of : Parts \cup {0}]]]
<1>1. part[c] \in Parts /\ (part[c] < Last(c) => part[c] + 1 \in Parts)
    BY DEF TypeOK, Parts, Last
<1>2. [value |-> v, of |-> p] \in [value : Values \cup {"none"}, of : Parts \cup {0}]
    OBVIOUS
<1>3. taken' = [taken EXCEPT ![c][part[c]] = [value |-> v, of |-> p]]
    BY DEF Took
<1>4. taken' \in [Calls -> [Parts -> [value : Values \cup {"none"}, of : Parts \cup {0}]]]
    BY <1>1, <1>2, <1>3 DEF TypeOK
<1>5. CASE part[c] < Last(c)
    <2>1. part' = [part EXCEPT ![c] = part[c] + 1] /\ pc' = [pc EXCEPT ![c] = "gateway"]
        BY <1>5 DEF Took, Go
    <2> QED BY <1>1, <1>4, <1>5, <2>1 DEF TypeOK, Parts
<1>6. CASE ~(part[c] < Last(c))
    BY <1>4, <1>6 DEF TypeOK, Took, Go
<1> QED BY <1>5, <1>6

\* A fallback takes the old tool's value, or runs the old tool.
LEMMA FallsBackType ==
    ASSUME TypeOK, NEW c \in Calls, FallsBack(c)
    PROVE  /\ pc' \in [Calls -> {"idle", "legacy", "gateway", "invoked", "compare",
                                 "answered", "renewed", "threw"}]
           /\ part' \in [Calls -> Parts]
           /\ taken' \in [Calls -> [Parts -> [value : Values \cup {"none"},
                                              of : Parts \cup {0}]]]
           /\ runs' \in [Calls -> Nat]
<1>1. CASE lane[c] = "replay"
    BY <1>1 DEF TypeOK, FallsBack, Go
<1>2. CASE lane[c] # "replay"
    BY <1>2, TookType DEF TypeOK, FallsBack, Values
<1> QED BY <1>1, <1>2

\* An operation that ends is awaited or not.
LEMMA EndsType ==
    ASSUME TypeOK, NEW c \in Calls, NEW p \in Parts, NEW v \in {"none", "agrees", "drifts"},
           Ends(c, p, v), UNCHANGED <<lane, loaded>>
    PROVE  TypeOK'
<1>1. ops' \in [Calls -> [Parts -> {"none", "facade", "computing", "ended"}]]
    BY DEF TypeOK, Ends
<1>2. CASE ~Awaits(c, p)
    BY <1>1, <1>2 DEF TypeOK, Ends
<1>3. CASE Awaits(c, p) /\ v = "none"
    BY <1>1, <1>3, FallsBackType DEF TypeOK, Ends
<1>4. CASE Awaits(c, p) /\ v # "none"
    <2>1. Took(c, p, v) /\ UNCHANGED runs /\ v \in Values
        BY <1>4 DEF Ends, Values
    <2> QED BY <1>1, <2>1, TookType DEF TypeOK
<1> QED BY <1>2, <1>3, <1>4

\* Every step keeps the variables in their types.
LEMMA NextTypeOK == TypeOK /\ [Next]_vars => TypeOK'
<1> SUFFICES ASSUME TypeOK, [Next]_vars PROVE TypeOK'
    OBVIOUS
<1>1. ASSUME NEW m \in DOMAIN loaded, LoaderSettles(m) PROVE TypeOK'
    BY <1>1 DEF TypeOK, LoaderSettles, Loads
<1>2. ASSUME NEW c \in Calls, Receive(c) PROVE TypeOK'
    <2>1. loaded' \in [{"gateway", "facade"} -> Loads]
        BY <1>2, AskType DEF TypeOK, Receive
    <2>2. runs' \in [Calls -> Nat]
        BY <1>2 DEF TypeOK, Receive
    <2>3. pc' \in [Calls -> {"idle", "legacy", "gateway", "invoked", "compare",
                             "answered", "renewed", "threw"}]
        BY <1>2 DEF TypeOK, Receive, Go
    <2> QED BY <1>2, <2>1, <2>2, <2>3 DEF TypeOK, Receive
<1>3. ASSUME NEW c \in Calls, LegacyAnswers(c) PROVE TypeOK'
    <2>1. loaded' \in [{"gateway", "facade"} -> Loads]
        BY <1>3, AskType DEF TypeOK, LegacyAnswers
    <2> QED BY <1>3, <2>1 DEF TypeOK, LegacyAnswers, Go
<1>4. ASSUME NEW c \in Calls, Invoke(c) PROVE TypeOK'
    <2>1. CASE FallsBack(c) /\ UNCHANGED <<loaded, ops>>
        BY <1>4, <2>1, FallsBackType DEF TypeOK, Invoke
    <2>2. CASE Go(c, "invoked") /\ Ask("facade") /\ ops' = [ops EXCEPT ![c][part[c]] = "facade"]
               /\ UNCHANGED <<part, taken, runs>>
        BY <1>4, <2>2, AskType DEF TypeOK, Invoke, Go
    <2> QED BY <1>4, <2>1, <2>2 DEF Invoke
<1>5. ASSUME NEW c \in Calls, Compare(c) PROVE TypeOK'
    BY <1>5 DEF TypeOK, Compare, Go
<1>6. ASSUME NEW c \in Calls, TimesOut(c) PROVE TypeOK'
    BY <1>6, FallsBackType DEF TypeOK, TimesOut
<1>7. ASSUME NEW c \in Calls, NEW p \in Parts, Dispatch(c, p) PROVE TypeOK'
    <2>1. CASE \E v \in {"none", "agrees", "drifts"} : Ends(c, p, v)
        BY <1>7, <2>1, EndsType DEF Dispatch
    <2>2. CASE ops' = [ops EXCEPT ![c][p] = "computing"] /\ UNCHANGED <<pc, part, taken, runs>>
        BY <1>7, <2>2 DEF TypeOK, Dispatch
    <2> QED BY <1>7, <2>1, <2>2 DEF Dispatch
<1>8. ASSUME NEW c \in Calls, NEW p \in Parts, Compute(c, p) PROVE TypeOK'
    BY <1>8, EndsType DEF Compute
<1>9. CASE UNCHANGED vars
    BY <1>9 DEF TypeOK, vars
<1> QED BY <1>1, <1>2, <1>3, <1>4, <1>5, <1>6, <1>7, <1>8, <1>9 DEF Next, Step

\* The variables stay in their types.
THEOREM TypeCorrect == Spec => []TypeOK
<1> QED BY InitTypeOK, NextTypeOK, PTL DEF Spec

(***************************************************************************)
(* How often the old tool runs.                                            *)
(***************************************************************************)

Counted == ReplayRunsLate /\ OthersRunFirst

\* A fallback runs the old tool for a replay that has not run it, and for no other.
LEMMA FallsBackCounts ==
    ASSUME TypeOK, Counted, NEW c \in Calls, pc[c] \in {"gateway", "invoked"},
           FallsBack(c), lane' = lane
    PROVE  Counted'
<1>1. CASE lane[c] = "replay"
    <2>1. /\ pc' = [pc EXCEPT ![c] = "legacy"]
          /\ runs' = [runs EXCEPT ![c] = @ + 1]
          /\ runs[c] = 0
        BY <1>1 DEF Counted, ReplayRunsLate, TypeOK, FallsBack, Go
    <2>2. ReplayRunsLate'
        BY <1>1, <2>1 DEF Counted, ReplayRunsLate, TypeOK
    <2>3. OthersRunFirst'
        BY <1>1, <2>1 DEF Counted, OthersRunFirst, TypeOK
    <2> QED BY <2>2, <2>3 DEF Counted
<1>2. CASE lane[c] # "replay"
    BY SMTT(30), <1>2 DEF Counted, ReplayRunsLate, OthersRunFirst, TypeOK, FallsBack, Took, Go
<1> QED BY <1>1, <1>2

\* An operation that ends runs the old tool only where it falls back.
LEMMA EndsCounts ==
    ASSUME TypeOK, Counted, NEW c \in Calls, NEW p \in Parts, NEW v, Ends(c, p, v), lane' = lane
    PROVE  Counted'
<1>1. CASE ~Awaits(c, p)
    BY <1>1 DEF Counted, ReplayRunsLate, OthersRunFirst, TypeOK, Ends
<1>2. CASE Awaits(c, p) /\ FallsBack(c)
    BY <1>2, FallsBackCounts DEF Awaits
<1>3. CASE Awaits(c, p) /\ Took(c, p, v) /\ UNCHANGED runs
    BY SMTT(30), <1>3 DEF Counted, ReplayRunsLate, OthersRunFirst, TypeOK, Awaits, Took, Go
<1> QED BY <1>1, <1>2, <1>3 DEF Ends

\* Every step keeps the count.
LEMMA NextCounts == TypeOK /\ Counted /\ [Next]_vars => Counted'
<1> SUFFICES ASSUME TypeOK, Counted, [Next]_vars PROVE Counted'
    OBVIOUS
<1> USE DEF Counted, ReplayRunsLate, OthersRunFirst
<1>1. ASSUME NEW m \in DOMAIN loaded, LoaderSettles(m) PROVE Counted'
    BY <1>1 DEF TypeOK, LoaderSettles
<1>2. ASSUME NEW c \in Calls, Receive(c) PROVE Counted'
    <2>1. CASE lane[c] = "replay"
        <3>1. pc' = [pc EXCEPT ![c] = "gateway"] /\ pc[c] = "idle"
              /\ UNCHANGED <<lane, runs>>
            BY <1>2, <2>1 DEF Receive, Go
        <3>2. ReplayRunsLate'
            BY <3>1 DEF TypeOK
        <3>3. OthersRunFirst'
            BY <2>1, <3>1 DEF TypeOK
        <3> QED BY <3>2, <3>3
    <2>2. CASE lane[c] # "replay"
        <3>1. pc' = [pc EXCEPT ![c] = "legacy"] /\ pc[c] = "idle"
              /\ runs' = [runs EXCEPT ![c] = @ + 1] /\ UNCHANGED lane
            BY <1>2, <2>2 DEF Receive, Go
        <3>2. ReplayRunsLate'
            BY <2>2, <3>1 DEF TypeOK
        <3>3. OthersRunFirst'
            BY <2>2, <3>1 DEF TypeOK
        <3> QED BY <3>2, <3>3
    <2> QED BY <2>1, <2>2
<1>3. ASSUME NEW c \in Calls, LegacyAnswers(c) PROVE Counted'
    BY <1>3 DEF TypeOK, LegacyAnswers, Go
<1>4. ASSUME NEW c \in Calls, Invoke(c) PROVE Counted'
    <2>1. CASE FallsBack(c)
        BY <1>4, <2>1, FallsBackCounts DEF Invoke
    <2>2. CASE Go(c, "invoked") /\ UNCHANGED <<part, taken, runs>>
        BY <1>4, <2>2 DEF TypeOK, Invoke, Go
    <2> QED BY <1>4, <2>1, <2>2 DEF Invoke
<1>5. ASSUME NEW c \in Calls, Compare(c) PROVE Counted'
    BY <1>5 DEF TypeOK, Compare, Go
<1>6. ASSUME NEW c \in Calls, TimesOut(c) PROVE Counted'
    BY <1>6, FallsBackCounts DEF TimesOut
<1>7. ASSUME NEW c \in Calls, NEW p \in Parts, Dispatch(c, p) PROVE Counted'
    <2>1. CASE \E v \in {"none", "agrees", "drifts"} : Ends(c, p, v)
        BY <1>7, <2>1, EndsCounts DEF Dispatch
    <2>2. CASE UNCHANGED <<pc, part, taken, runs>>
        BY <1>7, <2>2 DEF TypeOK, Dispatch
    <2> QED BY <1>7, <2>1, <2>2 DEF Dispatch
<1>8. ASSUME NEW c \in Calls, NEW p \in Parts, Compute(c, p) PROVE Counted'
    BY <1>8, EndsCounts DEF Compute
<1>9. CASE UNCHANGED vars
    BY <1>9 DEF vars
<1> QED BY <1>1, <1>2, <1>3, <1>4, <1>5, <1>6, <1>7, <1>8, <1>9 DEF Next, Step

\* The count says what LegacyRunsOnce asks, at every place of a call.
LEMMA CountedIsOnce == TypeOK /\ Counted => LegacyRunsOnce
<1> SUFFICES ASSUME TypeOK, Counted, NEW c \in Calls
             PROVE  /\ runs[c] <= 1
                    /\ pc[c] \in {"answered", "threw"} => runs[c] = 1
                    /\ pc[c] = "renewed" => runs[c] = IF lane[c] = "replay" THEN 0 ELSE 1
    BY DEF LegacyRunsOnce
<1>1. CASE lane[c] = "replay"
    BY <1>1 DEF Counted, ReplayRunsLate
<1>2. CASE lane[c] # "replay"
    BY <1>2 DEF Counted, OthersRunFirst
<1> QED BY <1>1, <1>2

(***************************************************************************)
(* What is taken.                                                          *)
(***************************************************************************)

\* A call that takes the part it asks for goes on with the next.
LEMMA TookIsOwn ==
    ASSUME TypeOK, PartsAreTheirOwn, NEW c \in Calls, pc[c] \in {"gateway", "invoked"},
           NEW v \in Values, Took(c, part[c], v), lane' = lane
    PROVE  PartsAreTheirOwn'
<1> SUFFICES ASSUME NEW d \in Calls
             PROVE  /\ part'[d] <= Last(d)'
                    /\ pc'[d] \in {"idle", "legacy"} => part'[d] = 1
                    /\ \A p \in 1 .. Last(d)' :
                        p < part'[d] \/ pc'[d] \in {"compare", "renewed"} =>
                            taken'[d][p].of = p /\ taken'[d][p].value # "none"
    BY DEF PartsAreTheirOwn
<1>1. Last(d)' = Last(d) /\ Last(d) \in Parts /\ part[d] \in Parts
    BY DEF Last, TypeOK, Parts
<1>2. CASE d # c
    <2>1. part'[d] = part[d] /\ pc'[d] = pc[d] /\ taken'[d] = taken[d]
        BY <1>2 DEF Took, Go, TypeOK
    <2> QED BY <1>1, <2>1 DEF PartsAreTheirOwn
<1>3. CASE d = c
    <2>1. taken'[c][part[c]] = [value |-> v, of |-> part[c]] /\ v # "none"
        BY <1>1, <1>3 DEF Took, TypeOK, Values
    <2>2. \A p \in Parts : p # part[c] => taken'[c][p] = taken[c][p]
        BY DEF Took, TypeOK
    <2>3. \A p \in Parts : p < part[c] => p <= Last(c)
        BY <1>1, <1>3 DEF Parts, PartsAreTheirOwn
    <2>4. \A p \in Parts : p <= part[c] => taken'[c][p].of = p /\ taken'[c][p].value # "none"
        <3> SUFFICES ASSUME NEW p \in Parts, p <= part[c]
                     PROVE  taken'[c][p].of = p /\ taken'[c][p].value # "none"
            OBVIOUS
        <3>1. CASE p = part[c]
            BY <2>1, <3>1
        <3>2. CASE p # part[c]
            <4>1. p < part[c] /\ p \in 1 .. Last(c)
                BY <1>1, <1>3, <2>3, <3>2 DEF Parts
            <4> QED BY <2>2, <3>2, <4>1 DEF PartsAreTheirOwn
        <3> QED BY <3>1, <3>2
    <2>5. CASE part[c] < Last(c)
        <3>1. part'[c] = part[c] + 1 /\ pc'[c] = "gateway"
            BY <2>5 DEF Took, Go, TypeOK
        <3> QED BY <1>1, <1>3, <2>4, <2>5, <3>1 DEF Parts
    <2>6. CASE ~(part[c] < Last(c))
        <3>1. part'[c] = part[c] /\ pc'[c] = "compare" /\ part[c] = Last(c)
            BY <1>1, <1>3, <2>6 DEF Took, Go, TypeOK, PartsAreTheirOwn, Parts
        <3> QED BY <1>1, <1>3, <2>4, <3>1 DEF Parts
    <2> QED BY <2>5, <2>6
<1> QED BY <1>2, <1>3

\* So does one that falls back.
LEMMA FallsBackIsOwn ==
    ASSUME TypeOK, PartsAreTheirOwn, NEW c \in Calls, pc[c] \in {"gateway", "invoked"},
           FallsBack(c), lane' = lane
    PROVE  PartsAreTheirOwn'
<1>1. CASE lane[c] = "replay"
    <2>1. part[c] = 1
        BY SMTT(30), <1>1 DEF PartsAreTheirOwn, TypeOK, Parts, Last
    <2> QED BY <1>1, <2>1 DEF PartsAreTheirOwn, TypeOK, FallsBack, Go, Last
<1>2. CASE lane[c] # "replay"
    BY <1>2, TookIsOwn DEF FallsBack, Values
<1> QED BY <1>1, <1>2

\* What an operation comes to is taken only while it is awaited, and then it is
\* that of the part asked for.
LEMMA EndsIsOwn ==
    ASSUME TypeOK, PartsAreTheirOwn, NEW c \in Calls, NEW p \in Parts,
           NEW v \in {"none", "agrees", "drifts"}, Ends(c, p, v), lane' = lane
    PROVE  PartsAreTheirOwn'
<1>1. CASE ~Awaits(c, p)
    BY <1>1 DEF PartsAreTheirOwn, Ends, Last
<1>2. CASE Awaits(c, p) /\ v = "none"
    BY <1>2, FallsBackIsOwn DEF Ends, Awaits
<1>3. CASE Awaits(c, p) /\ v # "none"
    <2>1. part[c] = p /\ pc[c] = "invoked" /\ v \in Values /\ Took(c, p, v)
        BY <1>3 DEF Ends, Awaits, Values
    <2> QED BY <2>1, TookIsOwn
<1> QED BY <1>1, <1>2, <1>3

\* Every step keeps what is taken where it belongs.
LEMMA NextIsOwn == TypeOK /\ PartsAreTheirOwn /\ [Next]_vars => PartsAreTheirOwn'
<1> SUFFICES ASSUME TypeOK, PartsAreTheirOwn, [Next]_vars PROVE PartsAreTheirOwn'
    OBVIOUS
<1> USE DEF PartsAreTheirOwn, Last
<1>1. ASSUME NEW m \in DOMAIN loaded, LoaderSettles(m) PROVE PartsAreTheirOwn'
    BY <1>1 DEF LoaderSettles
<1>2. ASSUME NEW c \in Calls, Receive(c) PROVE PartsAreTheirOwn'
    BY <1>2 DEF TypeOK, Receive, Go
<1>3. ASSUME NEW c \in Calls, LegacyAnswers(c) PROVE PartsAreTheirOwn'
    BY <1>3 DEF TypeOK, LegacyAnswers, Go
<1>4. ASSUME NEW c \in Calls, Invoke(c) PROVE PartsAreTheirOwn'
    <2>1. CASE FallsBack(c)
        BY <1>4, <2>1, FallsBackIsOwn DEF Invoke
    <2>2. CASE Go(c, "invoked") /\ UNCHANGED <<part, taken, runs>>
        BY <1>4, <2>2 DEF TypeOK, Invoke, Go
    <2> QED BY <1>4, <2>1, <2>2 DEF Invoke
<1>5. ASSUME NEW c \in Calls, Compare(c) PROVE PartsAreTheirOwn'
    BY <1>5 DEF TypeOK, Compare, Go
<1>6. ASSUME NEW c \in Calls, TimesOut(c) PROVE PartsAreTheirOwn'
    BY <1>6, FallsBackIsOwn DEF TimesOut
<1>7. ASSUME NEW c \in Calls, NEW p \in Parts, Dispatch(c, p) PROVE PartsAreTheirOwn'
    <2>1. CASE \E v \in {"none", "agrees", "drifts"} : Ends(c, p, v)
        BY <1>7, <2>1, EndsIsOwn DEF Dispatch
    <2>2. CASE UNCHANGED <<pc, part, taken, runs>>
        BY <1>7, <2>2 DEF Dispatch
    <2> QED BY <1>7, <2>1, <2>2 DEF Dispatch
<1>8. ASSUME NEW c \in Calls, NEW p \in Parts, Compute(c, p) PROVE PartsAreTheirOwn'
    BY <1>8, EndsIsOwn DEF Compute
<1>9. CASE UNCHANGED vars
    BY <1>9 DEF vars
<1> QED BY <1>1, <1>2, <1>3, <1>4, <1>5, <1>6, <1>7, <1>8, <1>9 DEF Next, Step

(***************************************************************************)
(* The theorems.                                                           *)
(***************************************************************************)

\* A call runs the old tool once, or not at all if it is a replay that the new
\* engine answers (runContained, invokeWithFallback).
THEOREM ProvenHandlerRunsOnce == Spec => []GatewayInv
<1>1. Init => GatewayInv
    BY InitTypeOK DEF Init, GatewayInv, LegacyRunsOnce, ReplayRunsLate, OthersRunFirst,
                      PartsAreTheirOwn, Last
<1>2. GatewayInv /\ [Next]_vars => GatewayInv'
    <2> SUFFICES ASSUME GatewayInv, [Next]_vars PROVE GatewayInv'
        OBVIOUS
    <2>1. TypeOK' /\ Counted' /\ PartsAreTheirOwn'
        BY NextTypeOK, NextCounts, NextIsOwn DEF GatewayInv, Counted
    <2>2. LegacyRunsOnce'
        BY <2>1, CountedIsOnce, PTL
    <2> QED BY <2>1, <2>2 DEF GatewayInv, Counted
<1> QED BY <1>1, <1>2, PTL DEF Spec

\* An answer of the new engine means in every part what the old tool has said,
\* and no part of it is that of an operation given up (withTimeout).
THEOREM MeaningIsAlwaysKept == Spec => []MeaningIsKept
<1>1. Init => MeaningIsKept
    BY DEF Init, MeaningIsKept
<1>2. MeaningIsKept /\ GatewayInv /\ [Next]_vars => MeaningIsKept'
    <2> SUFFICES ASSUME MeaningIsKept, GatewayInv, [Next]_vars,
                        NEW c \in Calls, pc'[c] = "renewed", NEW p \in 1 .. Last(c)'
                 PROVE  /\ taken'[c][p].of = p
                        /\ lane'[c] # "replay" => taken'[c][p].value \in {"legacy", "agrees"}
        BY DEF MeaningIsKept
    <2>t. TypeOK /\ PartsAreTheirOwn
        BY DEF GatewayInv
    <2>l. lane' = lane
        BY DEF Next, Step, LoaderSettles, Receive, LegacyAnswers, Invoke, Compare, TimesOut,
               Dispatch, Compute, vars
    <2>p. p \in Parts /\ p \in 1 .. Last(c)
        BY <2>l DEF Last, Parts
    <2>1. CASE Compare(c)
        <3>1. /\ pc[c] = "compare" /\ taken' = taken
              /\ lane[c] # "replay" => taken[c][p].value # "drifts"
            BY <2>t, <2>p, <2>1 DEF Compare, Go, TypeOK, Drifted
        <3>2. /\ taken[c][p].of = p /\ taken[c][p].value # "none"
              /\ taken[c][p].value \in Values \cup {"none"}
            BY <2>t, <2>p, <3>1 DEF PartsAreTheirOwn, TypeOK
        <3> QED BY <2>l, <3>1, <3>2 DEF Values
    <2>2. CASE pc[c] = "renewed" /\ taken'[c] = taken[c]
        BY <2>l, <2>p, <2>2 DEF MeaningIsKept
    <2>3. ASSUME NEW d \in Calls, Took(d, part[d], "legacy") \/ FallsBack(d),
                 pc[d] \in {"gateway", "invoked"}
          PROVE  pc[c] = "renewed" /\ taken'[c] = taken[c]
        BY <2>t, <2>3 DEF FallsBack, Took, Go, TypeOK
    <2>4. ASSUME NEW d \in Calls, NEW q \in Parts, NEW v, Ends(d, q, v)
          PROVE  pc[c] = "renewed" /\ taken'[c] = taken[c]
        BY <2>t, <2>3, <2>4 DEF Ends, Awaits, Took, Go, TypeOK
    <2>5. CASE ~Compare(c)
        <3>1. ASSUME NEW d \in Calls,
                     \/ Receive(d) \/ LegacyAnswers(d) \/ (d # c /\ Compare(d))
              PROVE  pc[c] = "renewed" /\ taken'[c] = taken[c]
            BY <2>t, <3>1 DEF Receive, LegacyAnswers, Compare, Go, TypeOK
        <3>2. ASSUME NEW d \in Calls, Invoke(d) \/ TimesOut(d)
              PROVE  pc[c] = "renewed" /\ taken'[c] = taken[c]
            BY <2>t, <2>3, <3>2 DEF Invoke, TimesOut, Go, TypeOK
        <3>3. ASSUME NEW d \in Calls, NEW q \in Parts, Dispatch(d, q) \/ Compute(d, q)
              PROVE  pc[c] = "renewed" /\ taken'[c] = taken[c]
            BY <2>t, <2>4, <3>3 DEF Dispatch, Compute
        <3>4. ASSUME NEW m \in DOMAIN loaded, LoaderSettles(m)
              PROVE  pc[c] = "renewed" /\ taken'[c] = taken[c]
            BY <3>4 DEF LoaderSettles
        <3>5. CASE UNCHANGED vars
            BY <2>2, <3>5 DEF vars
        <3> QED BY <2>2, <2>5, <3>1, <3>2, <3>3, <3>4, <3>5 DEF Next, Step
    <2> QED BY <2>1, <2>5
<1> QED BY <1>1, <1>2, ProvenHandlerRunsOnce, PTL DEF Spec
=============================================================================
