----------------------------- MODULE ReadChecks -----------------------------
(***************************************************************************)
(* What the readers of ChipReads and OhlcReads do over small inputs.       *)
(***************************************************************************)
EXTENDS Integers, Sequences
LOCAL INSTANCE FiniteSets
LOCAL INSTANCE SequencesExt
LOCAL C == INSTANCE ChipReads WITH Month <- 25
LOCAL O == INSTANCE OhlcReads

LOCAL s11 == <<1, 1>>
LOCAL OneDigit == {<<1>>}
LOCAL Row(date, v) ==
    [date |-> date, market |-> "listed", symbol |-> s11, total |-> v,
     margin_change |-> v, short_change |-> {}, borrowed |-> v, returned |-> {}, sold |-> v]
LOCAL Shard(month, prefix, kind, rows) ==
    [month |-> month, prefix |-> prefix, rows |-> (s11 :> (kind :> rows))]

\* A horizon of the cross-section is a sum of exactly its rows, all known; the
\* older windows then agree with it, and only then are bound to
\* (metricWindow, institutionalWindows).
LOCAL Tapes == UNION {[1 .. n -> {{}, {1}, {5}}] : n \in 0 .. 4}
ASSUME StrictAgreesWithLenient ==
    \A tape \in Tapes, h \in {1, 3} :
        LET rows == [i \in DOMAIN tape |-> Row(i, tape[i])]
            strict == C!CompactLayer("institutional", rows).windows["total"][h]
            older == C!Windows("institutional", rows)["total"][h]
        IN  /\ strict.value # {} => strict.value = {older.value} /\ older.days = h
            /\ strict.value = {} => strict.observations < h
ASSUME LenientCountsUnknownAsNothing ==
    \E tape \in Tapes : \E i \in DOMAIN tape :
        /\ tape[i] = {}
        /\ C!Windows("institutional", [j \in DOMAIN tape |-> Row(j, tape[j])])["total"][3].days = 3

\* The eligibility of a cross-section is that of its day: of the days before it
\* says nothing, and a horizon counts the rows there are, so that one of three
\* days may reach over days the shards have not (getTwMarketCrossSection).
LOCAL Ready(date) ==
    [complete |-> TRUE, terminal |-> TRUE, ready |-> C!Layers, snapshots |-> C!Layers,
     indexed |-> TRUE, prefixes |-> <<<<1>>>>, total |-> 1, date |-> date]
LOCAL Places(read) == [m \in 0 .. 2 |-> [p \in OneDigit |-> read[m]]]
LOCAL ReadOf(rows, m) ==
    [failed |-> FALSE, value |-> {Shard(m, <<1>>, "institutional",
        SelectSeq(rows, LAMBDA r : C!MonthOf(r.date) = m))}]
LOCAL Cross(rows, manifests, asOf) ==
    C!CrossSection(Places([m \in 0 .. 2 |-> ReadOf(rows, m)]), manifests, asOf, 20, OneDigit, 5)
LOCAL Traded(days) == [i \in DOMAIN days |-> Row(days[i], {i})]
ASSUME FormalIsOfTheDayOnly ==
    LET Of(rows) == Cross(rows, {Ready(55)}, 55)
        Three(rows) == Of(rows).symbols[s11]["institutional"].windows["total"][3]
    IN  /\ Of(Traded(<<52, 53, 54, 55>>)).formal /\ Of(Traded(<<40, 46, 55>>)).formal
        /\ Three(Traded(<<40, 46, 55>>)).value # {}
        /\ ~ Cross(Traded(<<54, 55>>), {Ready(55)}, 54).formal

\* One shard that fails or is malformed makes the whole answer informal and
\* leaves out its rows, and no others.
LOCAL Broken(m) == {[failed |-> TRUE, value |-> {}], [failed |-> FALSE, value |-> {}],
    [failed |-> FALSE, value |-> {Shard(m, <<2>>, "institutional", <<Row(25 * m, {1})>>)}],
    [failed |-> FALSE, value |-> {Shard(m, <<1>>, "institutional", <<Row(25 * m + 24, {1}), Row(25 * m + 24, {2})>>)}],
    [failed |-> FALSE, value |-> {Shard(m, <<1>>, "institutional", <<Row(25 * (m + 1), {1})>>)}]}
ASSUME BrokenShardIsLeftOut ==
    \A m \in 1 .. 2 : \A read \in Broken(m) :
        LET rows == Traded(<<40, 45, 53, 55>>)
            answer == C!CrossSection(
                Places([n \in 0 .. 2 |-> IF n = m THEN read ELSE ReadOf(rows, n)]),
                {Ready(55)}, 55, 20, OneDigit, 5)
        IN  /\ ~ answer.formal
            /\ answer.symbols[s11]["institutional"].windows["total"][1].value
                   = {IF m = 2 THEN 2 ELSE 4}

\* What a compact shard says of a symbol hides what the older shard of the same
\* month says of it, even of kinds and dates the compact one has nothing of
\* (readMonthShard, readMonthState, readClosedMonthState).
LOCAL NoShards == [p \in {<<1>>, s11} |-> {}]
ASSUME CompactHidesLegacy ==
    LET legacy == [NoShards EXCEPT ![s11] = {Shard(1, s11, "margin", <<Row(26, {1}), Row(27, {1})>>)}]
        both == [legacy EXCEPT ![<<1>>] = {Shard(1, <<1>>, "institutional", <<Row(28, {1})>>)}]
    IN  /\ Len(C!MonthState(legacy, s11)["margin"]) = 2
        /\ C!MonthState(both, s11)["margin"] = <<>>

\* The published gateway answers of the pinned month whatever has become of the
\* index since, and of every other month from the index as it is: the answer
\* about an earlier date is not of the generation it names.
LOCAL StoredMonths(rows) == [m \in 0 .. 2 |-> [NoShards EXCEPT ![<<1>>] =
    {Shard(m, <<1>>, "institutional", SelectSeq(rows, LAMBDA r : C!MonthOf(r.date) = m))}]]
LOCAL File(rows, prefix) ==
    [same |-> TRUE, prefix |-> prefix, month |-> 2] @@ Shard(2, prefix, "institutional", rows)
LOCAL Generation(format, rows, prefix) ==
    [format |-> format, of |-> 55, files |-> (prefix :> File(rows, prefix))]
LOCAL Histories == {<<>>, <<30>>, <<30, 53>>, <<53, 55>>}
LOCAL PublishedAt(index, generation, asked) ==
    C!Published(StoredMonths(index), {55}, generation, s11, asked, 30)
ASSUME PublishedMonthIsPinned ==
    \A before, after \in Histories :
        LET g == Generation("v5", Traded(<<51, 55>>), s11)
            Of(days, asked) == PublishedAt(Traded(days), g, asked)
            Early(days) == SelectSeq(Traded(days), LAMBDA r : r.date < 50)
        IN  Of(before, {}) = Of(after, {}) \/ Early(before) # Early(after)
ASSUME EarlierMonthsAreLive ==
    \E before, after \in Histories :
        LET g == Generation("v5", Traded(<<51, 55>>), s11)
        IN  PublishedAt(Traded(before), g, {40}) # PublishedAt(Traded(after), g, {40})

\* The three formats of a generation give the same answer; a generation of
\* another date or, in the newest, of one digit gives none.
ASSUME FormatsAgree ==
    LET Of(format, prefix) == PublishedAt(<<>>, Generation(format, Traded(<<51, 55>>), prefix), {})
    IN  /\ Of("v3", s11) = Of("v4", s11) /\ Of("v4", s11) = Of("v5", s11)
        /\ Of("v5", s11).status = "DEGRADED"
        /\ Of("v5", <<1>>).status = "UNAVAILABLE"
        /\ PublishedAt(<<>>, [Generation("v5", Traded(<<55>>), s11) EXCEPT !.of = 54], {}).status = "UNAVAILABLE"

\* The fast gateway shows a layer that is ready although the index has not come
\* to it, and what the snapshot says where the two differ; a stock that changed
\* its market has two rows of the day and counts both.
LOCAL Snapshots(rows) == [kind \in C!Kinds |-> IF kind = "institutional" THEN rows ELSE <<>>]
ASSUME SnapshotGoesFirst ==
    \A indexed \in Histories :
        LET rows == C!Fast(StoredMonths(Traded(indexed)), Snapshots(<<Row(55, {9})>>), s11, 55, 30)
                        .layers["institutional"]
        IN  /\ rows[Len(rows)] = Row(55, {9})
            /\ \A i, j \in DOMAIN rows : i < j => rows[i].date < rows[j].date
ASSUME ChangedMarketCountsTwice ==
    LET other == [Row(55, {9}) EXCEPT !.market = "otc"]
        rows == C!Fast(StoredMonths(Traded(<<55>>)), Snapshots(<<other>>), s11, 55, 30).layers["institutional"]
    IN  Len(rows) = 2 /\ C!Windows("institutional", rows)["total"][3].value = 10

\* Rows of the provider never stand for official ones of their date; one
\* official row among them is enough for the layer to count as ready.
ASSUME OfficialRowsGoFirst ==
    \A official, provided \in SUBSET {48, 53, 55} :
        LET index == StoredMonths(Traded(SetToSortSeq(official, LAMBDA a, b : a < b)))
            answer == C!WithFallback(index, {Row(d, {90}) : d \in provided}, s11, "institutional", 55, 30)
        IN  /\ {answer.rows[i].date : i \in DOMAIN answer.rows} = official \cup provided
            /\ \A i \in DOMAIN answer.rows :
                  answer.rows[i].total = {90} <=> answer.rows[i].date \in provided \ official
            /\ answer.status = "READY" <=> official # {}

\* A higher price never puts a position into a worse zone.
LOCAL Zones == <<"CRITICAL", "HIGH", "ELEVATED", "NORMAL", "LOW">>
LOCAL Place(z) == CHOOSE i \in DOMAIN Zones : Zones[i] = z
ASSUME RiskFallsWithThePrice ==
    \A cost \in {50, 100}, financed \in {0, 60, 95}, p \in 1 .. 120 :
        Place(C!MaintenanceRisk(p, cost, financed)) <= Place(C!MaintenanceRisk(p + 1, cost, financed))
-----------------------------------------------------------------------------
LOCAL Times(frame) == {540, 541, 545, 800, 804, 805, 810}
LOCAL Pairs == {<<a, b>> : a, b \in Times("1m")} \cup {<<a>> : a \in Times("1m")} \cup {<<>>}
LOCAL FileOf(times, broken) ==
    [exists |-> TRUE, headers |-> TRUE,
     bars |-> [i \in DOMAIN times |-> [time |-> times[i], valid |-> i \notin broken]]]
LOCAL Cutoffs == {539, 541, 546, 805, 810, 900}
LOCAL Frames == {"1m", "5m"}

\* A reader that may see up to a decision is given no bar that closes after it,
\* and what an earlier decision was given a later one is given too
\* (readResearchBlindOhlcFallback).
ASSUME NothingAfterTheDecision ==
    \A times \in Pairs, frame \in Frames, c, d \in Cutoffs :
        LET Given(x) == O!BlindFallback(FileOf(times, {}), frame, x, 300)
        IN  /\ \A i \in DOMAIN Given(c).bars : O!Closes(frame, Given(c).bars[i].time) <= c
            /\ c <= d => IsPrefix(Given(c).bars, Given(d).bars)

\* Whether it is given any depends on the bars after the decision: a bar broken
\* later in the day refuses what could be read before it.
ASSUME LaterBarsMayRefuse ==
    \E times \in Pairs, frame \in Frames, c \in Cutoffs : \E i \in DOMAIN times :
        /\ times[i] > c
        /\ O!BlindFallback(FileOf(times, {}), frame, c, 300).bars # <<>>
        /\ ~ O!BlindFallback(FileOf(times, {i}), frame, c, 300).ok

\* Bars count as formal only with a receipt for a stock that could be traded,
\* and no receipt says both that it could and that it did not trade; what failed
\* on the way is never taken for a stock that did not trade
\* (readFormalBlindOhlc).
LOCAL Receipts ==
    [ok : BOOLEAN, same : {TRUE}, eligible : BOOLEAN, tradable : {"yes", "no", "unsaid"},
     cut : BOOLEAN, complete : BOOLEAN, accepted : BOOLEAN, official : BOOLEAN, resolved : {TRUE},
     disposition : {"NO_TRADE_CONFIRMED", "OTHER"}]
ASSUME FormalHasItsReceipt ==
    \A receipt \in Receipts, http \in {"200", "404", "503", "failed"}, times \in {<<540, 545>>, <<546>>} :
        LET answer == O!FormalBlind(http, receipt, FileOf(times, {}), "5m", 550, 300)
        IN  /\ ~ (O!TradableReceipt(receipt) /\ O!NoTradeReceipt(receipt))
            /\ answer.eligible => O!TradableReceipt(receipt) /\ times = <<540, 545>> /\ http = "200"
            /\ answer.bars # <<>> => answer.eligible
            /\ answer.status = "NO_TRADE_CONFIRMED" => http = "200" /\ O!NoTradeReceipt(receipt)
            /\ answer.retry => http \in {"503", "failed"}

\* Prices of which a file could not be read count as the complete, formal view;
\* only when nothing is left are they refused (readStockCanonicalOhlc).
ASSUME PartOfTheFilesIsComplete ==
    LET answer == [p \in 0 .. 1 |-> IF p = 0 THEN [state |-> "failed", rows |-> {}]
                                    ELSE [state |-> "read", rows |-> {366}]]
        bars == O!StoredBars("1d", answer, 200, 366, 420)
    IN  O!FormalReady(bars) /\ bars.files = {1}

\* Daily prices asked for from further back than the reader goes begin where it
\* does, and say nothing of it (get_daily_price).
ASSUME DailyPriceBeginsLater ==
    LET answer == [p \in 0 .. 2 |-> [state |-> "read", rows |-> {100, 500, 700}]]
        canonical == O!FamilyCanonical(TRUE, O!StoredBars("1d", answer, 720 - 280, 720, 420),
                                       [ok |-> FALSE], "FULL_STOCK_ANALYSIS", {})
    IN  O!DailyPrice(canonical, 0, 720, 120) = <<500, 700>>

\* The quotes of a trade tell who was aggressive whatever came before; without
\* quotes a trade at the same price goes with the one before, so that what the
\* tape begins with decides (normalizedTrades).
LOCAL Trade(time, price, bid, ask) ==
    [time |-> time, price |-> price, size |-> 1, bid |-> bid, ask |-> ask]
LOCAL Prints == {Trade(0, p, b, a) : p \in 1 .. 2, b \in {{}, {1}}, a \in {{}, {2}}}
LOCAL Tapes3 == {<<r, s, t>> : r, s, t \in Prints}
ASSUME QuotesDecide ==
    \A tape \in Tapes3 : \A i \in DOMAIN tape :
        LET by == O!Classified(tape)
        IN  /\ tape[i].ask = {2} /\ tape[i].price = 2 => by[i] = "BUY"
            /\ tape[i].bid = {1} /\ tape[i].price = 1 => by[i] = "SELL"
            /\ by[i] = "UNKNOWN" => \A j \in 1 .. i : by[j] = "UNKNOWN"
ASSUME CutTapeMayDiffer ==
    \E tape \in Tapes3 : O!Classified(tape)[3] # O!Classified(Tail(tape))[2]

\* The flow of three minutes is that of the trades shown: with more of them than
\* the tape shows, the longer windows lack the earliest.
ASSUME FlowIsOfWhatIsShown ==
    LET trades == [i \in 1 .. 3 |-> Trade(30 * i, 2, {1}, {2})]
        shown == O!Tape(trades, 2)
    IN  shown.truncated /\ O!FlowWindow(shown.rows, O!TapeWindow).buy = 2

\* A context is never ready without a price, both sides of the book and a tape.
LOCAL Sides == {<<>>, <<1>>}
ASSUME ReadyContextIsWhole ==
    \A calls \in {{"ok"}, {"ok", "failed"}}, priced \in BOOLEAN, bids, asks, rows \in Sides :
        LET live == O!Live(calls, priced, bids, asks, rows)
            context == O!StockContext(live, priced, bids, asks)
        IN  /\ context = "READY" =>
                  calls = {"ok"} /\ priced /\ bids # <<>> /\ asks # <<>> /\ rows # <<>>
            /\ O!Quote("normal", context, [status |-> "UNAVAILABLE"], O!TradeTape(rows, context), FALSE).fallback
                  <=> live \in {"failed", "LIVE_UNAVAILABLE"}

\* Bars of a future are of the last working day that has them, never of a later
\* one, and any other answer on the way leaves the future out: the context is
\* then degraded, and without any future unavailable (readGlobalFutureAsOf).
LOCAL Says == {"verified", "DATA_NOT_FOUND", "other"}
ASSUME FutureOfTheLastDay ==
    \A a, b, c \in Says :
        LET answer == [d \in 12 .. 20 |-> IF d = 18 THEN a ELSE IF d = 17 THEN b ELSE c]
            day == O!FutureAsOf(answer, 20)
        IN  /\ O!Candidates(20)[1] = 18
            /\ day # {} => \E d \in day : d <= 20 /\ answer[d] = "verified"
                              /\ \A e \in d + 1 .. 18 : answer[e] = "DATA_NOT_FOUND"
            /\ a = "verified" => day = {18}
            /\ a = "other" => day = {}

\* A question about gold alone asks for no future: the words that choose gold are
\* not among those that ask for the market (shouldUseFamilyRegimeContext).
ASSUME GoldAloneAsksNothing ==
    \A intent \in {"QUICK_STOCK_QUESTION", "OPEN_RESEARCH"} :
        ~ O!AsksRegime(intent, {"gold"}) /\ "GC" \in O!Products(intent, {"gold"})
=============================================================================
