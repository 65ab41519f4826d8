---------------------------- MODULE ScreenChecks ----------------------------
(***************************************************************************)
(* What the screens of StockScreens and the market of StableMarket do over *)
(* small inputs.  Stocks differ from an unremarkable one in what a case is *)
(* about.                                                                  *)
(***************************************************************************)
EXTENDS Integers, Sequences
LOCAL INSTANCE FiniteSets
LOCAL INSTANCE SequencesExt
LOCAL INSTANCE StockScreens
LOCAL M == INSTANCE StableMarket

LOCAL Plain ==
    [symbol |-> "a", day |-> 0, value |-> 100, change |-> {10}, sector |-> "", intraday |-> {50},
     volume |-> 50, liquidity |-> 60, bars |-> 80, technical |-> 60, volatility |-> {30},
     drawdown |-> {10}, toHigh |-> {0}, extension |-> {10}, return20 |-> {50}, return60 |-> {50},
     revenue |-> {0}]
LOCAL Tops == 1 .. 3

\* The second screen keeps within its budget of calls whatever its providers
\* answer and however many stocks are liquid, with two to spare for the rest
\* (softSubrequestBudget).
ASSUME RequestsStayInBudget ==
    \A mode \in Modes, healthy, named \in BOOLEAN, n \in 0 .. 40 :
        \A answers \in [1 .. Tries -> {"rows", "none", "error", "refused"}] :
            LET used == RequestsUsed(healthy, answers, named)
                scans == TechnicalLimit(mode, used, n)
            IN  used + scans + Least(RevenueLimit(mode), scans) + 2 <= Budget

\* A shortlist is as long as its limit and its sectors allow: it leaves a stock
\* out only for better ones, of all sectors or of its own
\* (diversifiedShortlist, diversify).
LOCAL Sectors == {"", "chips", "steel"}
ASSUME ShortlistIsGreedy ==
    \A sectors \in UNION {[1 .. n -> Sectors] : n \in 0 .. 5}, cap \in 1 .. 2, limit \in 1 .. 4 :
        LET ordered == [i \in DOMAIN sectors |-> [rank |-> i, sector |-> sectors[i]]]
            taken == ToSet(Shortlist(ordered, cap, limit))
            Better(r) == {t \in taken : t.rank < r.rank}
            Fellows(r) == {t \in Better(r) : t.sector = r.sector}
        IN  /\ Cardinality(taken) <= limit
            /\ \A r \in taken : r.sector # "" => Cardinality(Fellows(r)) < cap
            /\ \A r \in ToSet(ordered) \ taken :
                  \/ Cardinality(Better(r)) = limit
                  \/ r.sector # "" /\ Cardinality(Fellows(r)) = cap

LOCAL Varied ==
    {[Plain EXCEPT !.symbol = <<t, c, e>>, !.technical = t, !.change = {c}, !.extension = {e}] :
        t \in {20, 60, 95}, c \in {-20, 60, 94}, e \in {10, 40}}
LOCAL Families == {{r, s} : r, s \in Varied}

\* The family screens name green stocks before yellow ones and never a red one,
\* however much better the yellow one scores; the frozen screen goes by score.
ASSUME OrderOfCandidates ==
    \A rows \in Families, mode \in Modes, top \in Tops :
        LET family == SecondScreen(rows, 3, mode, top).candidates
            frozen == StableScreen([rows |-> rows, usable |-> TRUE], mode, top).candidates
        IN  /\ \A i, j \in DOMAIN family : i < j =>
                 \/ family[i].bucket = "GREEN_RESEARCH" /\ family[j].bucket = "YELLOW_WAIT"
                 \/ family[i].bucket = family[j].bucket /\ family[i].score >= family[j].score
            /\ \A i, j \in DOMAIN frozen : i < j => frozen[i].score >= frozen[j].score
            /\ \A i \in DOMAIN family : family[i].bucket # "RED_SKIP"
            /\ \A i \in DOMAIN frozen : frozen[i].bucket # "RED_SKIP"

\* Both family screens agree on how they judge a stock; they differ in which
\* stocks they look at.
ASSUME GenerationsJudgeAlike ==
    \A r \in Varied, mode \in Modes :
        LET one == FirstScreen({r}, mode, 1)
            two == SecondScreen({r}, 3, mode, 1)
        IN  one = two

\* A stock that has risen too far waits even when its score is one that would be
\* skipped: having been chased puts a weak stock on the list.
ASSUME ChaseListsTheWeak ==
    \E r \in Varied, mode \in Modes :
        /\ FamilyScore(r, mode) < 6000
        /\ FirstScreen({r}, mode, 1).status = "OK"
        /\ FirstScreen({[r EXCEPT !.change = {10}, !.extension = {10}]}, mode, 1).status
              = "NO_QUALIFIED_CANDIDATES"

\* A revenue that could not be had is better than one known to have fallen.
ASSUME UnknownBeatsDecline ==
    \A mode \in Modes :
        FamilyScore([Plain EXCEPT !.revenue = {}], mode)
            > FamilyScore([Plain EXCEPT !.revenue = {-30}], mode)

\* The frozen screen says that nothing qualifies only when it has had the whole
\* market and the bars of a stock; without the market it says so, whatever rows
\* it has (the first of its hard rules).
ASSUME NothingFoundIsNotNothingKnown ==
    \A rows \in Families, usable, charted \in BOOLEAN, mode \in Modes :
        LET all == {[r EXCEPT !.bars = IF charted THEN 80 ELSE 79] : r \in rows}
            status == StableScreen([rows |-> all, usable |-> usable], mode, 1).status
        IN  /\ status = "NO_QUALIFIED_CANDIDATES" => usable /\ charted
            /\ (status = "DATA_UNAVAILABLE") = ~usable

\* The family screens go on with the one exchange that has answered: their OK
\* does not say that the other was looked at.
ASSUME HalfAMarketIsScreened ==
    LET listed == {[Plain EXCEPT !.technical = 95]}
        status == [e \in Exchanges |-> IF e = "TSE" THEN "OK" ELSE "ERROR"]
        refused == [n \in 1 .. Tries |-> "refused"]
    IN  /\ ~Healthy(status, Enough) /\ FallbackDay(refused) = 0
        /\ SecondScreen(Merged(listed, {}), RequestsUsed(FALSE, refused, FALSE), "balanced", 1).status
              = "OK"

\* Stocks the primary provider lacks come from an earlier day, and are compared
\* with today's: of the snapshot's days only the fallback's is told.
ASSUME DaysMayMix ==
    \E a, b \in {[Plain EXCEPT !.symbol = s, !.day = d, !.technical = 95] : s \in {"a", "b"}, d \in 0 .. 1} :
        LET list == SecondScreen(Merged({a}, {b}), 4, "balanced", 2).candidates
        IN  Len(list) = 2 /\ list[1].row.day # list[2].row.day

\* The two generations agree on the change of a stock whose price is compared with
\* that of the day before; on a day the exchange compares it with less, as when a
\* dividend is paid out, the first shows a fall that the second does not.
LOCAL Prices == {[symbol |-> "a", day |-> d, close |-> p, spread |-> s] :
                    d \in 1 .. 2, p \in 8 .. 10, s \in -1 .. 1}
ASSUME GenerationsSeeDividends ==
    /\ \A r, s \in Prices : s.day < r.day /\ r.spread # 0 /\ r.close - s.close = r.spread =>
          FirstChange(r, {r, s}) = SecondChange(r)
    /\ \E r, s \in Prices : s.day < r.day /\ FirstChange(r, {r, s}) < 0 /\ SecondChange(r) > 0
    /\ \A r, s \in Prices : s.day < r.day => LatestRows({r, s}) = {r}

\* A response cut short is noticed when the master is whole; a master cut short
\* is not, for it is what the responses are measured against
\* (MIN_TPEX_COMPLETENESS_RATIO).
ASSUME CompletenessIsOfTheMaster ==
    /\ \A quoted \in 0 .. 890 : M!Usable(TRUE, 1000, 890, quoted, 0) <=> quoted >= 873
    /\ \A failed \in 1 .. 9 : ~M!Usable(TRUE, 1000, 890, 890, failed)
    /\ M!Usable(TRUE, 1000, 250, 250, 0)

LOCAL Movers ==
    {[symbol |-> s, change |-> c, lots |-> l, value |-> l * 10] :
        s \in {"a", "b", "c"}, c \in {{}, {-100}, {100}, {300}}, l \in {0, 2}}
LOCAL Boards ==
    {B \in {{r, s, t} : r, s, t \in Movers} : \A r, s \in B : r.symbol = s.symbol => r = s}

\* Breadth is never called good when stocks fall as often as they rise, nor bad
\* when they rise as often as they fall; and when no stock falls at all, there
\* is no ratio to call it good by (advance_decline_ratio).
ASSUME RegimeNeedsBothSides ==
    \A rows \in Boards :
        /\ M!Regime(rows) = "risk_on" => Cardinality(M!Rising(rows)) > Cardinality(M!Falling(rows))
        /\ M!Regime(rows) = "risk_off" => Cardinality(M!Rising(rows)) < Cardinality(M!Falling(rows))
        /\ M!Falling(rows) = {} => M!Regime(rows) = "mixed"

\* A ranking holds the n best: nothing left out is above anything in it.
ASSUME RankingsAreBest ==
    \A rows \in Boards, ranking \in {"gainers", "losers", "volume", "value"}, n \in 1 .. 2 :
        LET list == ToSet(M!Ranking(rows, ranking, n))
        IN  \A r \in rows \ list, s \in list : ~M!Above(ranking, r, s)

\* The change of a sector lies between those of its stocks.
ASSUME SectorsLieWithin ==
    \A rows \in Boards : \A c \in M!SectorChange(rows) :
        /\ \E r \in rows : \E v \in r.change : v <= c
        /\ \E r \in rows : \E v \in r.change : v >= c
=============================================================================
