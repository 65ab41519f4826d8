---------------------------- MODULE StockScreens ----------------------------
(***************************************************************************)
(* How a list of candidate stocks is made from the whole market: the two   *)
(* generations of the family screen (family-stock-selection.ts and -v2.ts) *)
(* and the frozen one over the stable universe (stable-swing-screen.ts,    *)
(* stable-market-tools.ts).                                                *)
(*                                                                         *)
(* A row is what the snapshot, the daily bars and the revenues of a stock  *)
(* say; what may be missing is a set of at most one value.  Percentages    *)
(* are in tenths, distances in tenths of an ATR, scores in hundredths; the *)
(* points of liquidity, a logarithm, come with the row.  Rounding and the  *)
(* wording of reasons are left out.                                        *)
(***************************************************************************)
EXTENDS Integers, Sequences, SequencesExt

Modes    == {"stable", "balanced", "aggressive"}
Exchanges == {"TSE", "OTC"}

By(mode, s, b, a) == CASE mode = "stable" -> s [] mode = "balanced" -> b [] OTHER -> a
Known(x) == x # {}
Or(x, default) == IF Known(x) THEN CHOOSE v \in x : TRUE ELSE default
Clamp(x) == IF x < 0 THEN 0 ELSE IF x > 10000 THEN 10000 ELSE x
Least(a, b) == IF a <= b THEN a ELSE b
Most(a, b)  == IF a <= b THEN b ELSE a

\* The rows of S, each before those it beats.
Ordered(S, Beats(_, _)) == SetToSortSeq(S, Beats)
Prefix(s, n) == SubSeq(s, 1, Least(n, Len(s)))

MinValue(mode)  == By(mode, 50, 20, 10)
MaxGain(mode)   == By(mode, 50, 70, 90)
MaxReturn(mode) == By(mode, 180, 250, 350)
MaxExtension(mode) == By(mode, 20, 25, 30)
-----------------------------------------------------------------------------
(* The snapshot.  A provider answers per exchange with rows, with none or  *)
(* not at all.                                                             *)

Enough == 100

Healthy(status, count) == count >= Enough /\ \A e \in Exchanges : status[e] = "OK"

\* The second generation asks for one day after the other, up to five back: the
\* first that has rows is taken, and a refusal ends the search.
Tries == 5
Ends(answers, n) == answers[n] \in {"rows", "refused"}
Attempts(answers) ==
    IF \E n \in 1 .. Tries : Ends(answers, n)
    THEN CHOOSE n \in 1 .. Tries :
            Ends(answers, n) /\ \A i \in 1 .. n - 1 : ~Ends(answers, i)
    ELSE Tries
FallbackDay(answers) ==
    LET n == Attempts(answers) IN IF answers[n] = "rows" THEN n ELSE 0

\* The first takes the last row of each stock within ten days, and its change
\* against the row before it when there is one; the second has one day only and
\* what the exchange calls its spread.
Earlier(r, rows) == {s \in rows : s.symbol = r.symbol /\ s.day < r.day}
LatestRows(rows) ==
    {r \in rows : \A s \in rows : s.symbol = r.symbol => s.day <= r.day}
BySpread(r) == IF r.spread # 0 THEN r.close - r.spread ELSE 0
BeforeOf(r, rows) ==
    IF Earlier(r, rows) = {} THEN BySpread(r)
    ELSE (CHOOSE s \in Earlier(r, rows) : \A t \in Earlier(r, rows) : t.day <= s.day).close
ChangeFrom(r, before) == IF before > 0 THEN ((r.close - before) * 1000) \div before ELSE 0
FirstChange(r, rows) == ChangeFrom(r, BeforeOf(r, rows))
SecondChange(r) == ChangeFrom(r, BySpread(r))

Merged(primary, fallback) ==
    primary \cup {r \in fallback : \A p \in primary : p.symbol # r.symbol}

SnapshotSource(primary, fallback) ==
    CASE primary # {} /\ fallback # {} -> "both"
      [] primary # {} -> "primary"
      [] fallback # {} -> "fallback"
      [] OTHER -> "UNAVAILABLE"

\* What the snapshot of the second generation has cost: two exchanges, each day
\* tried and the list of names, which is asked for again when it came to nothing.
RequestsUsed(healthy, answers, named) ==
    2 + (IF healthy THEN 0 ELSE Attempts(answers) + 1)
      + (IF ~healthy /\ named THEN 0 ELSE 1)

Liquid(rows, mode) ==
    {r \in rows : r.value >= MinValue(mode) /\ Or(r.change, 0) > -95 /\ Or(r.change, 0) < 98}
-----------------------------------------------------------------------------
(* Which stocks are looked at more closely.                                *)

PreScore(r) ==
    LET gain == Or(r.change, 0)
        move == CASE gain >= 5 /\ gain <= 45 -> 75 [] gain > 75 -> 30
                  [] gain < -50 -> 35 [] OTHER -> 55
    IN  r.liquidity * 60 + move * 25 + Or(r.intraday, 50) * 15

FastScore(r, mode) ==
    LET gain == Or(r.change, 0)
        move == CASE gain >= 3 /\ gain <= Least(45, MaxGain(mode)) -> 77
                  [] gain > MaxGain(mode) -> 25 [] gain < -50 -> 33 [] OTHER -> 55
        place == Or(r.intraday, 50)
        placed == IF place >= 55 /\ place <= 92 THEN 75 ELSE IF place > 95 THEN 50 ELSE 55
    IN  r.liquidity * 45 + move * 25 + placed * 15 + r.volume * 15

\* Down the order, a stock is passed over when its sector has had its share;
\* stocks without a sector have no share to use up.
Shortlist(ordered, cap, limit) ==
    FoldLeft(LAMBDA out, r :
                IF \/ Len(out) >= limit
                   \/ r.sector # "" /\ Len(SelectSeq(out, LAMBDA o : o.sector = r.sector)) >= cap
                THEN out ELSE Append(out, r),
             <<>>, ordered)

SectorCap(mode) == By(mode, 3, 4, 5)
FastCap(mode)   == By(mode, 5, 7, 9)
FastPool(mode)  == By(mode, 80, 100, 120)
TechnicalPool(mode) == By(mode, 24, 28, 32)
ScanLimit(mode) == By(mode, 24, 28, 30)
RevenueLimit(mode) == By(mode, 8, 10, 12)
Budget == 45

\* The calls for bars that the budget leaves, never fewer than twelve.
TechnicalLimit(mode, used, liquid) ==
    Least(Least(ScanLimit(mode), Most(12, Budget - used - RevenueLimit(mode) - 2)), liquid)

\* A stock is dropped when its bars are not had or are fewer than eighty.
Charted(rows) == SelectSeq(rows, LAMBDA r : r.bars >= 80)
ByTechnical(r, s) == r.technical > s.technical
-----------------------------------------------------------------------------
(* Score and bucket.                                                       *)

\* unknown is the volatility taken where none is known.
Risk(r, mode, unknown) ==
    LET v == Most(0, Or(r.volatility, unknown))
        d == Most(0, Or(r.drawdown, 30))
    IN  Clamp(10000 - By(mode, 75, 50, 30) * v - By(mode, 65, 45, 25) * d)

\* Where the price stands: near the high of twenty days, and how far from the
\* average.
Location(r, mode) ==
    LET high == Or(r.toHigh, 0)
        near == CASE ~Known(r.toHigh) -> 0
                  [] high >= -50 /\ high <= 25 -> 20
                  [] high < -120 -> -15 [] high > 50 -> -20 [] OTHER -> 0
        ext  == Or(r.extension, 0)
        calm == IF Known(r.extension) /\ ext >= 0 /\ ext <= 18 THEN 10 ELSE 0
        far  == IF Known(r.extension) /\ ext > MaxExtension(mode) THEN -25 ELSE 0
    IN  Clamp((60 + near + calm + far) * 100)

\* A revenue that is not known counts as one that has not changed.
Growth(r) == IF Known(r.revenue) THEN Clamp(5000 + 15 * Or(r.revenue, 0)) ELSE 5000

Weighted(parts, weights) ==
    FoldLeft(+, 0, [i \in 1 .. Len(parts) |-> parts[i] * weights[i]]) \div 100

FamilyScore(r, mode) ==
    Weighted(<<Clamp(r.technical * 100), Growth(r), r.liquidity * 100, Risk(r, mode, 60),
               Location(r, mode)>>,
             By(mode, <<35, 20, 15, 20, 10>>, <<45, 20, 15, 10, 10>>, <<55, 15, 10, 5, 15>>))

\* The revenue of the month against that of the same month a year before.
LatestGrowth(rows) ==
    LET months == {r \in rows : r.revenue > 0}
        last == CHOOSE r \in months : \A s \in months : s.month <= r.month
        before == {s \in months : s.month = last.month - 12}
    IN  IF months = {} \/ before = {} THEN {}
        ELSE LET b == CHOOSE s \in before : TRUE
             IN  {((last.revenue - b.revenue) * 1000) \div b.revenue}

FamilyChased(r, mode) ==
    \/ Or(r.change, 0) > MaxGain(mode)
    \/ Or(r.return20, 0) > MaxReturn(mode)
    \/ Or(r.extension, 0) > MaxExtension(mode)

\* A stock that has run too far waits, whatever its score.
Bucket(score, chased, green, yellow) ==
    IF chased THEN "YELLOW_WAIT"
    ELSE IF score >= green THEN "GREEN_RESEARCH"
    ELSE IF score >= yellow THEN "YELLOW_WAIT" ELSE "RED_SKIP"

FamilyBucket(r, mode) == Bucket(FamilyScore(r, mode), FamilyChased(r, mode), 7200, 6000)

StableScore(r, mode) ==
    Weighted(<<Clamp(r.technical * 100),
               Clamp(5000 + 13 * Or(r.return20, 0) + (45 * Or(r.return60, 0)) \div 10),
               r.liquidity * 100, Risk(r, mode, 65), Location(r, mode)>>,
             By(mode, <<35, 18, 12, 22, 13>>, <<42, 23, 13, 8, 14>>, <<48, 27, 10, 4, 11>>))
StableChased(r, mode) ==
    Or(r.change, 0) > MaxGain(mode) \/ Or(r.extension, 0) > MaxExtension(mode)
StableBucket(r, mode) == Bucket(StableScore(r, mode), StableChased(r, mode), 7000, 5800)
-----------------------------------------------------------------------------
(* The screens.                                                            *)

Judged(rows, Score(_), Bin(_)) ==
    LET all == {[row |-> r, score |-> Score(r), bucket |-> Bin(r)] : r \in ToSet(rows)}
    IN  Ordered(all, LAMBDA x, y : x.score > y.score)
InBucket(ranked, b) == SelectSeq(ranked, LAMBDA x : x.bucket = b)

Answer(status, list) == [status |-> status, candidates |-> list]
Listed(list) == Answer(IF list = <<>> THEN "NO_QUALIFIED_CANDIDATES" ELSE "OK", list)

\* A revenue that cannot be had leaves the stock in the list without it.
FamilyList(pool, mode, top) ==
    LET ranked == Judged(pool, LAMBDA r : FamilyScore(r, mode), LAMBDA r : FamilyBucket(r, mode))
    IN  Prefix(InBucket(ranked, "GREEN_RESEARCH") \o InBucket(ranked, "YELLOW_WAIT"), top)

FirstScreen(rows, mode, top) ==
    LET liquid == Prefix(Ordered(Liquid(rows, mode), LAMBDA r, s : r.value > s.value),
                         By(mode, 36, 44, 52))
        pool == Prefix(Ordered(ToSet(Charted(liquid)), ByTechnical), By(mode, 14, 16, 18))
    IN  CASE rows = {} -> Answer("DATA_UNAVAILABLE", <<>>)
          [] rows # {} /\ liquid = <<>> -> Answer("NO_LIQUID_CANDIDATES", <<>>)
          [] liquid # <<>> /\ pool = <<>> -> Answer("TECHNICAL_DATA_UNAVAILABLE", <<>>)
          [] OTHER -> Listed(FamilyList(pool, mode, top))

SecondScreen(rows, used, mode, top) ==
    LET liquid == Liquid(rows, mode)
        first == Shortlist(Ordered(liquid, LAMBDA r, s :
                               PreScore(r) > PreScore(s)
                               \/ (PreScore(r) = PreScore(s) /\ r.value > s.value)),
                           SectorCap(mode), TechnicalLimit(mode, used, Cardinality(liquid)))
        pool == Prefix(Ordered(ToSet(Charted(first)), ByTechnical), RevenueLimit(mode))
    IN  CASE rows = {} -> Answer("DATA_UNAVAILABLE", <<>>)
          [] rows # {} /\ liquid = {} -> Answer("NO_LIQUID_CANDIDATES", <<>>)
          [] liquid # {} /\ pool = <<>> -> Answer("TECHNICAL_DATA_UNAVAILABLE", <<>>)
          [] OTHER -> Listed(FamilyList(pool, mode, top))

\* The calls the second screen makes beyond the snapshot.
ScreenRequests(rows, used, mode) ==
    LET scans == TechnicalLimit(mode, used, Cardinality(Liquid(rows, mode)))
    IN  used + scans + Least(RevenueLimit(mode), scans)

StableScreen(universe, mode, top) ==
    LET fast == Shortlist(Ordered(Liquid(universe.rows, mode), LAMBDA r, s :
                              FastScore(r, mode) > FastScore(s, mode)
                              \/ (FastScore(r, mode) = FastScore(s, mode) /\ r.value > s.value)),
                          FastCap(mode), FastPool(mode))
        charted == Charted(Prefix(fast, TechnicalPool(mode)))
        ranked == Judged(charted, LAMBDA r : StableScore(r, mode), LAMBDA r : StableBucket(r, mode))
        list == Prefix(SelectSeq(ranked, LAMBDA x : x.bucket # "RED_SKIP"), top)
    IN  CASE ~universe.usable -> Answer("DATA_UNAVAILABLE", <<>>)
          [] universe.usable /\ charted = <<>> -> Answer("TECHNICAL_DATA_UNAVAILABLE", <<>>)
          [] OTHER -> Listed(list)
=============================================================================
