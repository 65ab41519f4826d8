---------------------------- MODULE StableMarket ----------------------------
(***************************************************************************)
(* The market as a whole, from sources that answer the worker: the listed  *)
(* quotes of TWSE, the master of companies traded over the counter and     *)
(* their quotes in batches (stable-market-tools.ts).  Of each source the   *)
(* number of rows is what decides whether it counts as whole.  A change or *)
(* a price that is not known is the empty set; prices are integers and     *)
(* changes are in hundredths of a percent.                                 *)
(***************************************************************************)
EXTENDS Integers, Sequences, SequencesExt

LeastListed == 400
LeastOtc    == 250

Share(part, whole) == 100 * part >= 98 * whole

ListedErrors(answered, rows) ==
    IF ~answered THEN {"unavailable"} ELSE IF rows < LeastListed THEN {"coverage"} ELSE {}

\* A master too short is not asked about at all.
OtcRows(master, quoted) == IF master < LeastOtc THEN 0 ELSE quoted
OtcErrors(master, quoted, failedBatches) ==
    IF master < LeastOtc THEN {"universe"}
    ELSE (IF failedBatches > 0 THEN {"batch"} ELSE {})
         \cup (IF quoted < LeastOtc THEN {"coverage"} ELSE {})
         \cup (IF Share(quoted, master) THEN {} ELSE {"completeness"})

\* The listed quotes do without their master, which only names sectors.
Usable(answered, listed, master, quoted, failedBatches) ==
    /\ listed >= LeastListed /\ ListedErrors(answered, listed) = {}
    /\ OtcRows(master, quoted) >= LeastOtc
    /\ OtcErrors(master, quoted, failedBatches) = {}

\* The price of a stock over the counter: of the last trade, of the last but
\* one, or of the day before when it has not traded.
First(options) ==
    LET known == SelectSeq(options, LAMBDA o : o # {}) IN IF known = <<>> THEN {} ELSE known[1]
Only(o) == CHOOSE v \in o : TRUE
Quote(last, earlier, before, lots) ==
    LET price == First(<<last, earlier, before>>)
    IN  IF price = {} \/ Only(price) <= 0 THEN {}
        ELSE {[close |-> Only(price),
               change |-> IF before = {} \/ Only(before) <= 0 THEN {}
                          ELSE {((Only(price) - Only(before)) * 10000) \div Only(before)},
               lots |-> lots,
               value |-> IF lots > 0 THEN Only(price) * lots ELSE 0]}
-----------------------------------------------------------------------------
(* Breadth, rankings and sectors over rows.                                *)

Changed(rows) == {r \in rows : r.change # {}}
Rising(rows)  == {r \in Changed(rows) : Only(r.change) > 0}
Falling(rows) == {r \in Changed(rows) : Only(r.change) < 0}

\* The upper of the two middle ones.
Median(rows) ==
    LET order == SetToSortSeq(Changed(rows), LAMBDA r, s : Only(r.change) < Only(s.change))
    IN  IF order = <<>> THEN 0 ELSE Only(order[Len(order) \div 2 + 1].change)

\* The ratio of rising to falling stocks counts as nothing when none falls.
Regime(rows) ==
    LET up == Cardinality(Rising(rows))
        down == Cardinality(Falling(rows))
        ratio == IF down = 0 THEN 0 ELSE (up * 1000) \div down
    IN  CASE ratio >= 1500 /\ Median(rows) > 50 -> "risk_on"
          [] ratio <= 670 /\ Median(rows) < -50 -> "risk_off"
          [] OTHER -> "mixed"

\* Stocks without a change come last in either ranking of changes.
Above(ranking, r, s) ==
    CASE ranking = "gainers" ->
            r.change # {} /\ (s.change = {} \/ Only(r.change) > Only(s.change))
      [] ranking = "losers" ->
            r.change # {} /\ (s.change = {} \/ Only(r.change) < Only(s.change))
      [] ranking = "volume" -> r.lots > s.lots
      [] ranking = "value" -> r.value > s.value
Ranking(rows, ranking, n) ==
    LET order == SetToSortSeq(rows, LAMBDA r, s : Above(ranking, r, s))
    IN  SubSeq(order, 1, IF n < Len(order) THEN n ELSE Len(order))

\* The change of a sector is that of its traded stocks by their value, or their
\* mean when nothing of value was traded; one stock is no sector.
Total(rows, weight(_)) == FoldSet(LAMBDA r, sum : sum + weight(r), 0, rows)
SectorChange(rows) ==
    LET traded == {r \in Changed(rows) : r.lots > 0}
        value == Total(traded, LAMBDA r : r.value)
    IN  IF Cardinality(traded) < 2 THEN {}
        ELSE IF value > 0
        THEN {Total(traded, LAMBDA r : Only(r.change) * r.value) \div value}
        ELSE {Total(traded, LAMBDA r : Only(r.change)) \div Cardinality(traded)}

\* The state of the required sources; the optional ones have no say.
Overall(sources) ==
    IF \A s \in DOMAIN sources : sources[s] = "ok" THEN "healthy"
    ELSE IF \E s \in DOMAIN sources : sources[s] = "ok" THEN "degraded" ELSE "down"
=============================================================================
