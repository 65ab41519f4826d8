-------------------------- MODULE FamilyQuestions --------------------------
(***************************************************************************)
(* How a question of the family is answered: which requests are let in     *)
(* (index-v6.ts, family-smart-rest.ts, family-action-compat.ts), what is   *)
(* read out of the words (family-query-resolver.ts), which way is taken    *)
(* (family-adaptive-planner.ts), for which day (tw-trading-asof-resolver), *)
(* and how two answers are put together.  The pages themselves are read in *)
(* MarketReaders, BrokerBundles and FamilyEvidence.                        *)
(*                                                                         *)
(* A question is what its patterns find in it: marks, the codes and dates  *)
(* in their order, a date that no calendar has being "spoiled"; words, the *)
(* kinds of words; spans, the windows written before a day; given, a date  *)
(* beside the text.  Texts, headers and the answers' prose are left out.   *)
(***************************************************************************)
EXTENDS Integers, Sequences, FiniteSets, SequencesExt

Windows == <<1, 5, 10, 20, 40, 60, 120, 240>>
Words   == {"full", "broker", "ranking", "credit", "maintenance", "swing", "cautious",
            "market", "regime", "deep", "quick"}
Looked  == 14          \* days a question without a date may go back

\* The outcome of the first rule that applies; the last one always does.
FirstOf(rules) ==
    rules[CHOOSE i \in DOMAIN rules : rules[i][1] /\ \A j \in 1 .. i - 1 : ~rules[j][1]][2]
-----------------------------------------------------------------------------
(* What is read out of the words.                                          *)

\* The digits of a spoiled date stay in the text, and its year is a code.
Symbols(q) ==
    LET codes    == SelectSeq(q.marks, LAMBDA m : m.kind \in {"code", "spoiled"})
        distinct == FoldLeft(LAMBDA s, m : IF Contains(s, m.of) THEN s ELSE Append(s, m.of), <<>>, codes)
    IN  SubSeq(distinct, 1, IF Len(distinct) < 5 THEN Len(distinct) ELSE 5)
Dates(q) == SelectSeq(q.marks, LAMBDA m : m.kind = "date")
WrittenDate(q) == IF Dates(q) = <<>> THEN {} ELSE {Head(Dates(q)).of}
AsOf(q) == IF WrittenDate(q) # {} THEN WrittenDate(q) ELSE q.given

IsBrokerQuery(q) == "broker" \in q.words /\ Len(Symbols(q)) = 1
BrokerWindows(q) ==
    IF IsBrokerQuery(q) THEN SelectSeq(Windows, LAMBDA w : w = 1 \/ w \in q.spans) ELSE <<>>
-----------------------------------------------------------------------------
(* Which way is taken.                                                     *)

Swing(q)   == q.words \cap {"swing", "ranking"} # {}
Credit(q)  == "credit" \in q.words /\ "maintenance" \notin q.words
IntentOf(q, symbols) ==
    LET one == Len(symbols) = 1
    IN  FirstOf(<< <<Len(symbols) >= 2, "STOCK_COMPARE">>,
                   <<Swing(q), "SWING_DISCOVERY">>,
                   <<one /\ "full" \in q.words, "FULL_STOCK_ANALYSIS">>,
                   <<one /\ "broker" \in q.words /\ Credit(q), "CREDIT_SBL_BROKER_QUERY">>,
                   <<one /\ "broker" \in q.words, "BROKER_WINDOW_QUERY">>,
                   <<one /\ Credit(q), "CREDIT_SBL_QUERY">>,
                   <<one, "QUICK_STOCK_QUESTION">>,
                   <<"market" \in q.words, "MARKET_CONTEXT">>,
                   <<TRUE, "OPEN_RESEARCH">> >>)
Intent(q) == IntentOf(q, Symbols(q))
FastPaths == {"BROKER_WINDOW_QUERY", "CREDIT_SBL_QUERY", "CREDIT_SBL_BROKER_QUERY"}

Depth(q) ==
    FirstOf(<< <<Intent(q) \in FastPaths, "QUICK">>,
               <<Intent(q) \in {"FULL_STOCK_ANALYSIS", "STOCK_COMPARE"}, "DEEP">>,
               <<Intent(q) = "SWING_DISCOVERY", "STANDARD">>,
               <<q.words \cap {"deep", "full"} # {}, "DEEP">>,
               <<"quick" \in q.words, "QUICK">>,
               <<TRUE, "STANDARD">> >>)

Regime == {"txf_context", "global_futures_context", "jin10_events"}
Stock  == {"realtime_market", "canonical_ohlc", "current_chip", "published_chip", "fundamentals",
           "open_world_web"}
Industry == {"industry_supply_chain"}
World  == {"global_market_context", "research_repository", "open_world_web"}
BaseReads(intent) ==
    CASE intent = "BROKER_WINDOW_QUERY" -> {"broker_branch"}
      [] intent = "CREDIT_SBL_QUERY" -> {"current_chip"}
      [] intent = "CREDIT_SBL_BROKER_QUERY" -> {"current_chip", "broker_branch"}
      [] intent = "QUICK_STOCK_QUESTION" -> Stock
      [] intent \in {"STOCK_COMPARE", "SWING_DISCOVERY"} -> Stock \cup Regime \cup Industry
      [] intent = "FULL_STOCK_ANALYSIS" -> Stock \cup Regime \cup Industry \cup World
      [] intent = "MARKET_CONTEXT" -> Regime \cup World
      [] intent = "OPEN_RESEARCH" -> {"fundamentals"} \cup Industry \cup World
Reads(q) ==
    BaseReads(Intent(q)) \cup IF "regime" \in q.words /\ Intent(q) \notin FastPaths THEN Regime ELSE {}

\* The older handler looks for the same things in another order.
CompatRoute(q) ==
    FirstOf(<< <<IsBrokerQuery(q), "broker">>,
               <<Symbols(q) # <<>>, "analysis">>,
               <<q.words \cap {"swing", "cautious"} # {}, "screen">>,
               <<TRUE, "answer">> >>)
SmartRoute(q) ==
    FirstOf(<< <<Intent(q) = "CREDIT_SBL_BROKER_QUERY", "composite">>,
               <<Intent(q) = "BROKER_WINDOW_QUERY", "broker">>,
               <<Intent(q) = "CREDIT_SBL_QUERY", "credit">>,
               <<Intent(q) = "SWING_DISCOVERY", "screen">>,
               <<Intent(q) = "MARKET_CONTEXT", "market">>,
               <<Symbols(q) # <<>>, "analysis">>,
               <<TRUE, "open">> >>)
-----------------------------------------------------------------------------
(* For which day.  calendar says of a day whether the market is open, or   *)
(* that it cannot be told.                                                 *)

Exact(day, calendar) == IF calendar[day] = "open" THEN {day} ELSE {}
LatestOpen(day, calendar) ==
    {d \in day - Looked + 1 .. day :
        calendar[d] = "open" /\ \A e \in d + 1 .. day : calendar[e] = "closed"}
ResolvedDay(day, explicit, calendar) ==
    IF explicit THEN Exact(day, calendar) ELSE LatestOpen(day, calendar)

Asked(q, today) == IF AsOf(q) = {} THEN today ELSE CHOOSE d \in AsOf(q) : TRUE
Explicit(q)     == WrittenDate(q) # {}

\* The day each way asks its source for; none when the way refuses the question.
DaysAsked(q, today, calendar) ==
    CASE SmartRoute(q) = "broker" -> {Asked(q, today)}
      [] SmartRoute(q) \in {"credit", "composite"} -> ResolvedDay(Asked(q, today), Explicit(q), calendar)
      [] SmartRoute(q) = "analysis" -> {Asked(q, today)}
      [] OTHER -> {}

DefaultWindows == <<1, 5, 10, 20, 60, 120>>
CompositeWindows(q) == IF q.spans # {} THEN BrokerWindows(q) ELSE DefaultWindows

\* Both halves, each of which may throw; the credit half finds its day itself,
\* in the calendar it is given.
Shown == {"READY", "DEGRADED"}
Composite(q, today, calendar, again, credit, broker) ==
    LET day       == ResolvedDay(Asked(q, today), Explicit(q), calendar)
        creditDay == ResolvedDay(Asked(q, today), Explicit(q), again)
        one       == creditDay = {} \/ creditDay = day
        shown     == (IF creditDay # {} /\ credit \in Shown THEN {"credit"} ELSE {})
                        \cup (IF broker \in Shown THEN {"broker"} ELSE {})
    IN  IF day = {} \/ broker = "throws" \/ (creditDay # {} /\ credit = "throws")
        THEN [http |-> 500, status |-> "failed", days |-> {}, ok |-> FALSE]
        ELSE [http |-> 200, days |-> day \cup creditDay, ok |-> one /\ shown # {},
              status |-> FirstOf(<< <<~one, "CONFLICT">>, <<Cardinality(shown) = 2, "READY">>,
                                    <<shown # {}, "DEGRADED">>, <<TRUE, "UNAVAILABLE">> >>)]

\* A line for every window that was asked for, in that order.
RenderRows(requested, windows) ==
    [i \in DOMAIN requested |->
        IF requested[i] \in DOMAIN windows
        THEN [days |-> requested[i], status |-> windows[requested[i]], error |-> "own"]
        ELSE [days |-> requested[i], status |-> "UNAVAILABLE", error |-> "missing_requested_window"]]
BrokerAnswer(requested, bundle) ==
    [ok |-> bundle.status \in Shown,
     oneDay |-> IF Contains(requested, 1) /\ 1 \in DOMAIN bundle.windows THEN {bundle.windows[1]} ELSE {},
     rows |-> RenderRows(requested, bundle.windows)]
-----------------------------------------------------------------------------
(* Who is let in, and to what.                                             *)

FamilyPaths == {"query", "market-context", "chips", "analyze", "compare", "screen", "status"}
Paths == FamilyPaths \cup {"openapi", "privacy", "health", "full-market", "formal-blind",
                           "day-status", "research-status", "research-run", "research-candles", "unknown"}

ValidBody(r) ==
    CASE r.path = "query" -> r.text = "fine"
      [] r.path \in {"market-context", "chips", "analyze"} -> r.symbols = <<"valid">>
      [] r.path = "compare" -> Len(r.symbols) \in 2 .. 5 /\ r.unique /\ \A i \in DOMAIN r.symbols : r.symbols[i] = "valid"
      [] OTHER -> TRUE
Smart(r) ==
    FirstOf(<< <<r.method = "OPTIONS", 204>>,
               <<~r.authorized, 401>>,
               <<r.path = "status", IF r.method = "GET" THEN 200 ELSE 405>>,
               <<r.method # "POST", 405>>,
               <<r.large, 413>>,
               <<~r.json \/ ~ValidBody(r), 400>>,
               <<r.throws, 500>>,
               <<TRUE, 200>> >>)
Compat(r) ==
    FirstOf(<< <<r.method = "OPTIONS", 204>>,
               <<r.method # "POST", 405>>,
               <<~r.authorized, 401>>,
               <<r.large, 413>>,
               <<~r.json \/ r.text # "fine", 400>>,
               <<r.throws, 500>>,
               <<TRUE, 200>> >>)

\* The blind record is shown as ready when it and its receipt say so throughout.
Flags == {"blind", "research", "scorecard", "leakage", "prefix", "receipt", "receipt_leakage",
          "receipt_prefix", "accepted"}
BlindReady(flags) == flags = Flags
Surface(r) ==
    FirstOf(<< <<r.path = "openapi", 200>>,
               <<r.path \in FamilyPaths, Smart(r)>>,
               <<r.path \in {"privacy", "health"}, 200>>,
               <<r.path = "full-market" /\ r.method = "GET", IF r.usable THEN 200 ELSE 503>>,
               <<r.path = "formal-blind" /\ r.method = "GET", IF BlindReady(r.flags) THEN 200 ELSE 503>>,
               <<r.path = "day-status" /\ r.method = "GET", 200>>,
               <<r.path \in {"research-status", "research-run", "research-candles"} /\ ~r.researcher, 401>>,
               <<r.path = "research-status" /\ r.method = "GET", 200>>,
               <<r.path = "research-candles" \/ (r.path = "research-run" /\ r.method = "POST"), 410>>,
               <<TRUE, 404>> >>)

\* A number a caller may leave out, in the bounds its reader has.
Bounded(value, low, high, default) ==
    IF value = {} THEN default
    ELSE LET v == CHOOSE x \in value : TRUE IN IF v < low THEN low ELSE IF v > high THEN high ELSE v
WaitOf(body) == Bounded(body.wait, 0, 2500, 0)
CalendarDays(body) == Bounded(body.days, 30, 180, 60)
TopN(body) == Bounded(body.top, 1, 10, 5)

\* An answer is cut once; what is measured lacks the measure itself.
Compacted(full, tight, stamp, target) ==
    LET size == IF full > target THEN tight ELSE full
    IN  [measured |-> size, within |-> size <= target, sent |-> size + stamp]
=============================================================================
