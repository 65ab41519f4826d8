--------------------------- MODULE ResearchStudies ---------------------------
(***************************************************************************)
(* Studies of strategies over finished trades: walk-forward validation,    *)
(* bootstrap and Monte Carlo (research-validation.ts), the path of a stock *)
(* after a signal (swing-outcome-path.ts), and the summaries of the new    *)
(* plane (review-metrics.ts, swing-evidence.ts).  Pure algorithms.         *)
(*                                                                         *)
(* Dates, identifiers and returns are integers.  Rounding, run identities  *)
(* and the checks of a frozen dataset are left out: bars are sorted,       *)
(* distinct, of one symbol, and prices are above zero.                     *)
(***************************************************************************)
EXTENDS Integers, FiniteSets, Sequences

CONSTANT Huge      \* Number.MAX_SAFE_INTEGER: a profit factor without losses

ASSUME StudiesAssumption == Huge \in Nat \ {0}

(***************************************************************************)
(* Metrics of a series of returns: a function on an interval of integers.  *)
(***************************************************************************)

\* The sum of r[k] over the k in DOMAIN r that satisfy P.
SumIf(r, P(_)) ==
    LET of[S \in SUBSET DOMAIN r] ==
          IF S = {} THEN 0 ELSE LET k == CHOOSE k \in S : TRUE
                                IN  (IF P(r[k]) THEN r[k] ELSE 0) + of[S \ {k}]
    IN  of[DOMAIN r]

Metrics(r) ==
    [count |-> Cardinality(DOMAIN r),
     gain  |-> SumIf(r, LAMBDA x : x > 0),
     loss  |-> - SumIf(r, LAMBDA x : x < 0)]

\* The profit factor as a fraction; without losses the caller has a number for
\* an endless one.
Factor(m, endless) ==
    IF m.loss > 0 THEN <<m.gain, m.loss>>
    ELSE IF m.gain > 0 THEN <<endless, 1>> ELSE <<0, 1>>

Score(m, metric) ==
    IF metric = "expectancy" THEN <<m.gain - m.loss, m.count>> ELSE Factor(m, Huge)

Above(x, y) == x[1] * y[2] > y[1] * x[2]

\* Loops over the returns in their order, from the first of n.
Streak(r, n) ==      \* longestLosingStreak
    LET run[k \in 0 .. n] ==
          IF k = 0 THEN [now |-> 0, longest |-> 0]
          ELSE LET now == IF r[k] < 0 THEN run[k - 1].now + 1 ELSE 0
               IN  [now |-> now,
                    longest |-> IF now > run[k - 1].longest THEN now ELSE run[k - 1].longest]
    IN  run[n].longest

\* Equity after k returns, each a percentage, scaled by 100^k.
Equity(r, n) ==
    LET run[k \in 0 .. n] == IF k = 0 THEN 1 ELSE run[k - 1] * (100 + r[k]) IN run[n]

\* percentile at p hundredths of sorted values v[0 .. n - 1], scaled by 100.
Percentile(v, n, p) ==
    LET low    == ((n - 1) * p) \div 100
        weight == ((n - 1) * p) % 100
    IN  IF weight = 0 THEN 100 * v[low]
        ELSE v[low] * (100 - weight) + v[low + 1] * weight

Median(v, n) ==      \* scaled by 2
    IF n % 2 = 1 THEN 2 * v[n \div 2] ELSE v[n \div 2 - 1] + v[n \div 2]

\* The exchange of shuffled, for the indices n .. 2 in turn: j[i] \in 1 .. i is
\* what the random number chooses.
Shuffled(r, n, j) ==
    LET after[i \in 1 .. n] ==      \* the series before index i is exchanged
          IF i = n THEN r
          ELSE [after[i + 1] EXCEPT ![i + 1] = after[i + 1][j[i + 1]],
                                    ![j[i + 1]] = after[i + 1][i + 1]]
    IN  after[1]

(***************************************************************************)
(* Walk-forward validation.  The candidates share the cases 1 .. total, in *)
(* the order of canonicalTrades; ret[c][k] is what candidate c made of     *)
(* case k.                                                                 *)
(***************************************************************************)

Earlier(t, u) == t.date < u.date \/ (t.date = u.date /\ t.case < u.case)

CanonicalOrder(cases, total) ==
    \A i, j \in 1 .. total : i < j => Earlier(cases[i], cases[j])

\* A fold begins at start, a multiple of the step.
IsFold(start, total, train, test, step) ==
    /\ start + train + test <= total
    /\ \E k \in 0 .. start : start = k * step

TrainOf(start, train)      == start + 1 .. start + train
TestOf(start, train, test) == start + train + 1 .. start + train + test

\* The best score, and the smaller identifier among equals.  Identifiers are
\* unique, so that the parameter version never decides.
BestOf(score, c) ==
    /\ c \in DOMAIN score
    /\ \A d \in DOMAIN score \ {c} :
         \/ Above(score[c], score[d])
         \/ ~Above(score[d], score[c]) /\ c < d

\* The scores a fold selects by: those of the training cases.
TrainScores(ret, start, train, metric) ==
    [c \in DOMAIN ret |->
        Score(Metrics([k \in TrainOf(start, train) |-> ret[c][k]]), metric)]

Selects(ret, start, train, metric, c) == BestOf(TrainScores(ret, start, train, metric), c)

(***************************************************************************)
(* The swing path: the sessions after the date of a signal.                *)
(***************************************************************************)

\* A daily session whose prices are in the order validateDataset asks for.
Session == [date : Int, open : Int, low : Int, high : Int, close : Int]
Ordered(b) == b.low <= b.open /\ b.low <= b.close /\ b.open <= b.high /\ b.close <= b.high

\* The reference session, at whose open the path begins.
IsReference(bars, n, day, f) ==
    /\ f \in 1 .. n /\ bars[f].date > day
    /\ \A i \in 1 .. n : i < f => bars[i].date <= day

\* The sessions of the path: as many as asked for, as far as there are any.
PathOf(n, f, horizons) == {i \in f .. n : i < f + horizons}

\* The highest and the lowest price up to session k; the loops begin at the
\* open of the reference session.
IsHighest(bars, f, k, x) ==
    /\ x = bars[f].open \/ \E i \in f .. k : x = bars[i].high
    /\ bars[f].open <= x /\ \A i \in f .. k : bars[i].high <= x
IsLowest(bars, f, k, x) ==
    /\ x = bars[f].open \/ \E i \in f .. k : x = bars[i].low
    /\ x <= bars[f].open /\ \A i \in f .. k : x <= bars[i].low

\* Returns in points from the reference price, in the direction of the side.
Directional(side, reference, price) ==
    IF side = "LONG" THEN price - reference ELSE reference - price
PathMfe(side, reference, highest, lowest) ==
    IF side = "LONG" THEN highest - reference ELSE -(lowest - reference)
PathMae(side, reference, highest, lowest) ==
    IF side = "LONG" THEN lowest - reference ELSE -(highest - reference)

(***************************************************************************)
(* The summaries of the new plane.                                         *)
(***************************************************************************)

\* What finite makes of a field, [is, value]: Number(null) is zero, and only a
\* field that is missing is no number.
Finite(x) ==
    IF x.is = "number" THEN {x.value} ELSE IF x.is = "null" THEN {0} ELSE {}

\* Wins, losses and flats of the rows of a review.
Review(outcomes, n) ==
    LET those(P(_)) == Cardinality({k \in 1 .. n : \E x \in Finite(outcomes[k]) : P(x)})
    IN  [wins   |-> those(LAMBDA x : x > 0),
         losses |-> those(LAMBDA x : x < 0),
         flats  |-> those(LAMBDA x : x = 0)]

\* A score that the payload has, or its probability: up to one, as a share.
\* Both are in hundredths.
EvidenceScore(payload) ==
    CASE payload.has = "score" -> payload.value
      [] payload.has = "probability" /\ payload.value <= 100 -> payload.value * 100
      [] payload.has = "probability" /\ payload.value > 100  -> payload.value
      [] OTHER -> 0

Prefers(s, t) == s.score > t.score \/ (s.score = t.score /\ s.ts > t.ts)

\* The signal that stands for a symbol: the loop keeps the first of equals.
Stands(signals, n, k) ==
    /\ k \in 1 .. n
    /\ \A i \in 1 .. n : signals[i].symbol = signals[k].symbol =>
         /\ ~Prefers(signals[i], signals[k])
         /\ i < k => Prefers(signals[k], signals[i])

\* Is signal k among the candidates?  limit is held within 1 .. 50.
IsCandidate(signals, n, limit, k) ==
    /\ Stands(signals, n, k)
    /\ LET kept  == IF limit < 1 THEN 1 ELSE IF limit > 50 THEN 50 ELSE limit
           ahead == {i \in 1 .. n : /\ Stands(signals, n, i)
                                    /\ \/ signals[i].score > signals[k].score
                                       \/ /\ signals[i].score = signals[k].score
                                          /\ signals[i].symbol < signals[k].symbol}
       IN  Cardinality(ahead) < kept
==============================================================================
