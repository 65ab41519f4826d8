----------------------------- MODULE OhlcReads -----------------------------
(***************************************************************************)
(* The readers of prices: bars up to a decision and no further             *)
(* (research-blind-ohlc-fallback.ts), their formal status                  *)
(* (formal-blind-ohlc-reader.ts), the stored bars and the live book and    *)
(* tape of a stock (cross-account-read-service.ts), and what the family    *)
(* tools make of both (family-ohlc-read-bridge.ts,                         *)
(* shared-stock-market-context-tools.ts).                                  *)
(*                                                                         *)
(* Times are minutes of the day, dates numbers of days with a weekend in   *)
(* every seven; the parsing of files and the fields that only describe an  *)
(* answer are left out.                                                    *)
(***************************************************************************)
EXTENDS Integers, Sequences, SequencesExt

Taken(s, n) == SubSeq(s, IF Len(s) > n THEN Len(s) - n + 1 ELSE 1, Len(s))
-----------------------------------------------------------------------------
(* Bars up to a decision.                                                  *)

Open    == 540
Auction == 810
Step(frame) == IF frame = "5m" THEN 5 ELSE 1
LastSlot(frame) == IF frame = "5m" THEN 800 ELSE 804
Slots(frame) == {t \in Open .. LastSlot(frame) : (t - Open) % Step(frame) = 0} \cup {Auction}
Closes(frame, t) == IF t = Auction THEN Auction ELSE t + Step(frame)

\* The bars of the file are those of the symbol and the day.  All of them must
\* be sound, of different slots and in order, those after the decision too.
Sound(frame, b) == b.time \in Slots(frame) /\ b.valid
BlindFallback(file, frame, cutoff, limit) ==
    LET corrupted == \/ \E i \in DOMAIN file.bars : ~Sound(frame, file.bars[i])
                     \/ \E i, j \in DOMAIN file.bars : i < j /\ file.bars[j].time <= file.bars[i].time
        prefix == SelectSeq(file.bars, LAMBDA b : Closes(frame, b.time) <= cutoff)
        Refused(error) == [ok |-> FALSE, error |-> error, bars |-> <<>>]
    IN  IF ~file.exists THEN Refused("CANONICAL_OHLC_NOT_FOUND")
        ELSE IF ~file.headers THEN Refused("SCHEMA_MISMATCH")
        ELSE IF file.bars = <<>> THEN Refused("CANONICAL_OHLC_EMPTY")
        ELSE IF corrupted THEN Refused("CORRUPTED_PREFIX_SOURCE")
        ELSE [ok |-> TRUE, error |-> "", bars |-> Taken(prefix, limit)]

\* The receipt of the verification comes first: a stock that did not trade has
\* no bars to read.
Identity(receipt) == receipt.ok /\ receipt.same
TradableReceipt(receipt) ==
    /\ Identity(receipt) /\ receipt.eligible /\ receipt.tradable # "no"
    /\ receipt.cut /\ receipt.complete /\ receipt.accepted
NoTradeReceipt(receipt) ==
    /\ Identity(receipt) /\ receipt.disposition = "NO_TRADE_CONFIRMED" /\ receipt.resolved
    /\ receipt.tradable = "no" /\ ~receipt.eligible
    /\ receipt.cut /\ receipt.accepted /\ receipt.official

Transient == {"429", "500", "502", "503", "504"}
FormalBlind(http, receipt, file, frame, cutoff, limit) ==
    LET local == BlindFallback(file, frame, cutoff, limit)
        Blocked(again) == [status |-> "blocked", retry |-> again, eligible |-> FALSE, bars |-> <<>>]
    IN  CASE http # "200" -> Blocked(http = "failed" \/ http \in Transient)
          [] http = "200" /\ NoTradeReceipt(receipt) ->
                [Blocked(FALSE) EXCEPT !.status = "NO_TRADE_CONFIRMED"]
          [] http = "200" /\ ~NoTradeReceipt(receipt) /\ TradableReceipt(receipt) /\ local.ok ->
                [status |-> "TRADABLE_VERIFIED", retry |-> FALSE, eligible |-> TRUE, bars |-> local.bars]
          [] OTHER -> Blocked(FALSE)
-----------------------------------------------------------------------------
(* Stored bars.  Files are of a year or, in minutes, of a working day; one *)
(* that cannot be read is left out, and the rest is called complete.       *)

Year == 365
Weekend(day) == day % 7 \in {5, 6}
Dates(from, to) ==
    LET working == {d \in from .. to : ~Weekend(d)}
    IN  {d \in working : Cardinality({e \in working : e < d}) < 14}
Files(frame, from, to) ==
    IF frame = "1d" THEN (from \div Year) .. (to \div Year) ELSE Dates(from, to)

\* answer[p] is what the read of a file came to, a row is its date.
StoredBars(frame, answer, from, to, limit) ==
    LET paths == Files(frame, from, to)
        good == {p \in paths : answer[p].state = "read"}
        rows == Taken(SetToSortSeq({d \in UNION {answer[p].rows : p \in good} : from <= d /\ d <= to},
                                   LAMBDA a, b : a < b),
                      limit)
    IN  IF rows # <<>>
        THEN [ok |-> TRUE, complete |-> TRUE, formal |-> TRUE, error |-> "", files |-> good, rows |-> rows]
        ELSE [ok |-> FALSE, complete |-> FALSE, formal |-> FALSE, files |-> {}, rows |-> rows,
              error |-> IF \E p \in paths : answer[p].state = "failed"
                        THEN "GITHUB_CANONICAL_READ_FAILED" ELSE "DATA_NOT_FOUND"]
-----------------------------------------------------------------------------
(* The live tape.  Who was aggressive in a trade is told by the quotes, or *)
(* by the price against the one before, or is whoever it was before.       *)

\* A trade is [time, price, size, bid, ask]; bids and asks are sets of at most one.
Classified(trades) ==
    LET Told[i \in 0 .. Len(trades)] ==
            IF i = 0 THEN "UNKNOWN"
            ELSE LET t == trades[i]
                 IN  CASE \E a \in t.ask : t.price >= a -> "BUY"
                       [] (\A a \in t.ask : t.price < a) /\ (\E b \in t.bid : t.price <= b) -> "SELL"
                       [] OTHER ->
                            IF i > 1 /\ t.price > trades[i - 1].price THEN "BUY"
                            ELSE IF i > 1 /\ t.price < trades[i - 1].price THEN "SELL"
                            ELSE Told[i - 1]
    IN  [i \in DOMAIN trades |-> Told[i]]

Second == 1
TapeWindow == 180 * Second
\* The tape shows no more trades than its limit, the latest first, and the flow
\* of every window is added up over those.
LargeSize(sizes) ==
    IF Len(sizes) < 20 THEN {}
    ELSE {SortSeq(sizes, LAMBDA a, b : a < b)[(Len(sizes) * 9) \div 10 + 1]}
Tape(trades, limit) ==
    LET aggressor == Classified(trades)
        within == SelectSeq([i \in DOMAIN trades |-> [by |-> aggressor[i]] @@ trades[i]],
                            LAMBDA t : t.time >= trades[Len(trades)].time - TapeWindow)
    IN  [rows |-> Reverse(Taken(within, limit)), truncated |-> Len(within) > limit,
         large |-> LargeSize([i \in DOMAIN within |-> within[i].size])]

FlowWindow(rows, window) ==
    LET Total(by) == FoldLeft(LAMBDA sum, t : sum + t.size, 0,
                SelectSeq(rows, LAMBDA t : t.by = by /\ t.time >= rows[1].time - window))
    IN  [buy |-> Total("BUY"), sell |-> Total("SELL"), unknown |-> Total("UNKNOWN")]
Control(rows) ==
    LET flow == FlowWindow(rows, 60 * Second)
    IN  CASE flow.buy + flow.sell > 0 /\ 100 * flow.buy >= 58 * (flow.buy + flow.sell) -> "BUY_CONTROL"
          [] flow.buy + flow.sell > 0 /\ 100 * flow.buy <= 42 * (flow.buy + flow.sell) -> "SELL_CONTROL"
          [] OTHER -> "MIXED"

\* A book of five levels each side; a failed call fails the whole.
Live(calls, priced, bids, asks, rows) ==
    LET shown == priced /\ bids # <<>> /\ asks # <<>>
    IN  IF "failed" \in calls THEN "failed"
        ELSE IF shown /\ rows # <<>> THEN "READY" ELSE IF shown THEN "DEGRADED" ELSE "LIVE_UNAVAILABLE"
-----------------------------------------------------------------------------
(* What the family tools make of it.                                       *)

\* A call that failed is not ok.  The prices of an answer are formal or there
\* are none; bars of minutes, when
\* the question asks about the day, only if they are formal too.  Of a question
\* count its intent and what its words are about: the short run, levels to trade
\* at, the market, gold.
FormalReady(answer) == answer.ok /\ answer.formal /\ answer.complete /\ answer.rows # <<>>
Intents == {"QUICK_STOCK_QUESTION", "FULL_STOCK_ANALYSIS", "STOCK_COMPARE", "SWING_DISCOVERY",
            "MARKET_CONTEXT", "OPEN_RESEARCH"}
AsksIntraday(intent, words) ==
    intent \in {"FULL_STOCK_ANALYSIS", "STOCK_COMPARE", "SWING_DISCOVERY"}
    \/ words \cap {"short", "levels"} # {}
AsksRegime(intent, words) ==
    intent \in {"FULL_STOCK_ANALYSIS", "STOCK_COMPARE", "SWING_DISCOVERY", "MARKET_CONTEXT"}
    \/ words \cap {"short", "market"} # {}
FamilyCanonical(bound, daily, minutes, intent, words) ==
    IF ~bound \/ ~FormalReady(daily) THEN [status |-> "UNAVAILABLE"]
    ELSE [status |-> "READY", daily |-> daily.rows,
          minutes |-> IF AsksIntraday(intent, words) /\ FormalReady(minutes)
                      THEN minutes.rows ELSE <<>>]

\* The state of the live context: shown without a tape, or warming up, it is
\* degraded.
StockContext(live, priced, bids, asks) ==
    LET shown == priced /\ bids # <<>> /\ asks # <<>>
    IN  IF live = "failed" THEN "UNAVAILABLE"
        ELSE IF live = "READY" /\ shown THEN "READY"
        ELSE IF shown \/ live \in {"WARMING_UP", "DEGRADED"} THEN "DEGRADED" ELSE "UNAVAILABLE"

Products(intent, words) ==
    CASE intent \in {"FULL_STOCK_ANALYSIS", "MARKET_CONTEXT"} -> {"MNQ", "NIY", "MES", "GC"}
      [] intent \in {"STOCK_COMPARE", "SWING_DISCOVERY"} -> {"MNQ", "NIY", "MES"}
      [] OTHER -> IF "gold" \in words THEN {"GC", "MNQ"} ELSE {"MNQ", "NIY"}

\* The last working day with verified bars, going back while there are none: any
\* other answer ends the search without bars.
Candidates(asOf) == SetToSortSeq({d \in asOf - 8 .. asOf : ~Weekend(d)}, LAMBDA a, b : a > b)
FutureAsOf(answer, asOf) ==
    LET days == Candidates(asOf)
        ended == {i \in DOMAIN days : answer[days[i]] # "DATA_NOT_FOUND"}
        first == CHOOSE i \in ended : \A j \in ended : i <= j
    IN  IF ended = {} \/ answer[days[first]] # "verified" THEN {} ELSE {days[first]}

Governed(state, rows) ==
    IF state \in {"OK", "READY", "DEGRADED"} /\ rows THEN (IF state = "DEGRADED" THEN state ELSE "READY")
    ELSE "UNAVAILABLE"
Regime(bound, intent, words, futures, answers, asOf) ==
    LET asked == Products(intent, words)
        found == {p \in asked : FutureAsOf(answers[p], asOf) # {}}
        Of(state) == [txf |-> Governed(futures.state, futures.rows), global |-> state, found |-> found]
    IN  IF ~bound \/ ~AsksRegime(intent, words)
        THEN [txf |-> "UNAVAILABLE", global |-> "UNAVAILABLE", found |-> {}]
        ELSE Of(IF found = {} THEN "UNAVAILABLE" ELSE IF found = asked THEN "READY" ELSE "DEGRADED")

\* A quote shows what the provider displays only when the live context has nothing.
TradeTape(rows, context) ==
    IF rows # <<>> THEN "READY" ELSE IF context = "DEGRADED" THEN "DEGRADED" ELSE "UNAVAILABLE"
SharedContext(context, canonical, tape) ==
    context # "UNAVAILABLE" \/ canonical.status = "READY" \/ tape # "UNAVAILABLE"
Quote(type, context, canonical, tape, display) ==
    IF type = "oddlot" THEN [ok |-> display \/ canonical.status = "READY", fallback |-> TRUE]
    ELSE [ok |-> SharedContext(context, canonical, tape), fallback |-> context = "UNAVAILABLE"]
\* Daily prices from the start asked for, the last of them.
DailyPrice(canonical, start, end, limit) ==
    IF canonical.status # "READY" THEN <<>>
    ELSE Taken(SelectSeq(canonical.daily, LAMBDA d : start <= d /\ d <= end), limit)
=============================================================================
