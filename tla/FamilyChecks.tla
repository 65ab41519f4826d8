---------------------------- MODULE FamilyChecks ----------------------------
(***************************************************************************)
(* What FamilyQuestions and FamilyEvidence make of small questions.        *)
(***************************************************************************)
EXTENDS Integers, Sequences
LOCAL INSTANCE FiniteSets
LOCAL Q == INSTANCE FamilyQuestions
LOCAL E == INSTANCE FamilyEvidence

LOCAL Mark(kind, of) == [kind |-> kind, of |-> of]
LOCAL Marks ==
    {<<>>, <<Mark("code", 1)>>, <<Mark("code", 1), Mark("code", 1)>>, <<Mark("code", 1), Mark("code", 2)>>,
     <<Mark("date", 5), Mark("code", 1)>>, <<Mark("date", 5), Mark("date", 6)>>,
     <<Mark("code", 1), Mark("spoiled", 9)>>}
LOCAL Questions ==
    [marks : Marks, words : {w \in SUBSET (Q!Words \ {"deep", "quick", "cautious"}) : Cardinality(w) <= 3},
     spans : {{}, {5}, {5, 40}}, given : {{}, {7}}]

\* The digits of a date are never taken for a stock, unless no calendar has the
\* date: then its year makes a comparison of a question about one stock
\* (tests/family-broker-query-routing.test.ts).
ASSUME SpoiledDateIsAStock ==
    /\ \A q \in Questions : \A i \in DOMAIN Q!Symbols(q) :
            Q!Symbols(q)[i] \in {1, 2} \/ Mark("spoiled", Q!Symbols(q)[i]) \in {q.marks[j] : j \in DOMAIN q.marks}
    /\ \E q \in Questions : /\ q.marks = <<Mark("code", 1), Mark("spoiled", 9)>>
                            /\ Q!Intent(q) = "STOCK_COMPARE"

\* A question for the ranking of one stock's branches is read as one by the
\* resolver; the planner sends it to the screen of the market when it says
\* "ranking", a word the resolver's own pattern knows.  Otherwise only the full
\* analysis comes before it (inferFamilyAdaptiveIntent, BROKER_QUERY_PATTERN).
ASSUME BranchRankingIsAScreen ==
    /\ \A q \in Questions :
            Q!IsBrokerQuery(q) =>
                (Q!SmartRoute(q) \in {"broker", "composite"}) = (q.words \cap {"swing", "ranking", "full"} = {})
    /\ \E q \in Questions :
            /\ q.words = {"broker", "ranking"} /\ Q!IsBrokerQuery(q) /\ Q!BrokerWindows(q) # <<>>
            /\ Q!SmartRoute(q) = "screen" /\ Q!CompatRoute(q) = "broker"

\* A short way is of one stock and reads its own pages only, whatever else the
\* question mentions; every other way may go to the web (execution_guidance).
ASSUME ShortWaysReadTheirOwn ==
    \A q \in Questions :
        IF Q!Intent(q) \in Q!FastPaths
        THEN /\ Len(Q!Symbols(q)) = 1 /\ Q!Reads(q) \subseteq {"current_chip", "broker_branch"}
             /\ Q!Depth(q) = "QUICK"
             /\ (Q!SmartRoute(q) = "broker") => (Q!Reads(q) = {"broker_branch"} /\ Q!BrokerWindows(q) # <<>>)
        ELSE "open_world_web" \in Q!Reads(q)

\* Days 1 .. 20; the market is closed on a few, and one cannot be told.
LOCAL Calendars ==
    {[d \in -20 .. 20 |-> IF d \in closed THEN "closed" ELSE IF d = dark THEN "unknown" ELSE "open"] :
        closed \in {{}, {5}, {6, 7}, {5, 6, 7}, -20 .. 7}, dark \in {0, 4, 6}}
LOCAL Dated == {q \in Questions : q.words \in {{"credit"}, {"broker"}, {"credit", "broker"}}}

\* A date written in the text is asked for or refused; one given beside it may be
\* answered for an earlier day, as if it had not been given
\* (resolveTradingAsOf; "explicit" is queryResolution.as_of_date alone).
ASSUME GivenDateMayMove ==
    /\ \A q \in Dated, calendar \in Calendars :
            Q!WrittenDate(q) # {} => Q!DaysAsked(q, 8, calendar) \subseteq Q!WrittenDate(q)
    /\ \E q \in Dated, calendar \in Calendars :
            q.given = {7} /\ Q!DaysAsked(q, 8, calendar) \notin {{}, {7}}

\* The branches alone are asked for on the day of the question, open or not; the
\* same question with the credit beside it is asked for on the day before.
ASSUME AloneIsAnotherDay ==
    \E q \in Dated, calendar \in Calendars :
        LET both == [q EXCEPT !.words = {"credit", "broker"}]
        IN  /\ q.words = {"broker"} /\ Q!SmartRoute(q) = "broker" /\ Q!SmartRoute(both) = "composite"
            /\ Q!DaysAsked(both, 7, calendar) # {}
            /\ Q!DaysAsked(q, 7, calendar) # Q!DaysAsked(both, 7, calendar)

\* Two halves are shown as one answer only of one day; as READY even when each is
\* degraded.  Where the credit alone says that the day is none, or one half
\* throws, the whole answer fails (date_contract_consistent).
LOCAL Halves == {"READY", "DEGRADED", "UNAVAILABLE", "throws"}
ASSUME OneDayOrConflict ==
    \A q \in {x \in Dated : Q!SmartRoute(x) = "composite"}, calendar \in Calendars, again \in Calendars,
            credit \in Halves, broker \in Halves :
        LET a == Q!Composite(q, 7, calendar, again, credit, broker)
        IN  /\ a.ok => Cardinality(a.days) = 1
            /\ (a.status = "READY") = (a.ok /\ credit \in Q!Shown /\ broker \in Q!Shown
                                          /\ Q!ResolvedDay(Q!Asked(q, 7), Q!Explicit(q), again) # {})
            /\ (calendar = again /\ a.http = 200) => a.status # "CONFLICT"
            /\ (broker = "throws" \/ Q!DaysAsked(q, 7, calendar) = {}) => a.http = 500

\* Every window asked for has its line, in its order, and one that is missing says
\* so (FAMILY_BROKER_WINDOW_RENDER_CONTRACT).
ASSUME EveryWindowHasItsLine ==
    \A q \in {x \in Dated : Q!SmartRoute(x) \in {"broker", "composite"}}, shown \in SUBSET {1, 5, 40} :
        LET asked == IF Q!SmartRoute(q) = "broker" THEN Q!BrokerWindows(q) ELSE Q!CompositeWindows(q)
            rows == Q!BrokerAnswer(asked, [status |-> "READY", windows |-> [w \in shown |-> "READY"]]).rows
        IN  /\ DOMAIN rows = DOMAIN asked
            /\ \A i, j \in DOMAIN rows : i < j => rows[i].days < rows[j].days
            /\ \A i \in DOMAIN rows : (rows[i].status = "READY") = (rows[i].days \in shown)

LOCAL Requests ==
    [path : Q!Paths, method : {"GET", "POST", "OPTIONS"}, authorized : BOOLEAN, large : BOOLEAN, json : BOOLEAN,
     text : {"fine", "empty"}, symbols : {<<>>, <<"valid">>, <<"valid", "valid">>, <<"valid", "bad">>},
     unique : BOOLEAN, throws : BOOLEAN, usable : {TRUE}, flags : {Q!Flags, Q!Flags \ {"receipt"}}, researcher : BOOLEAN]

\* The older handler of questions is never asked: the newer one answers every
\* request to its path, and each lets in only who has the key.
ASSUME OlderHandlerIsShadowed ==
    \A r \in Requests :
        /\ r.path = "query" => Q!Surface(r) = Q!Smart(r)
        /\ (r.path \in Q!FamilyPaths /\ ~r.authorized) => (Q!Smart(r) \in {204, 401} /\ Q!Compat(r) # 200)
        /\ (Q!Compat(r) = 200 /\ r.path = "query") => Q!Smart(r) = 200
        /\ (r.path = "formal-blind" /\ Q!Surface(r) = 200) => "receipt" \in r.flags

\* An answer said to be within its size may be sent above it.
ASSUME MeasuredBeforeStamped ==
    /\ \E full, tight \in 1 .. 8 : LET c == Q!Compacted(full, tight, 1, 6) IN c.within /\ c.sent > 6
    /\ \A full, tight \in 1 .. 8 : full <= 6 => Q!Compacted(full, tight, 1, 6).measured = full
-----------------------------------------------------------------------------
LOCAL Statuses == {"READY", "PARTIAL", "PENDING", "ERROR"}
LOCAL Maybe(S) == {{}} \cup {{x} : x \in S}
LOCAL Chips ==
    [exact : Maybe({"READY", "PENDING"}), current : Maybe(Statuses), archive : Maybe({"READY", "ERROR"}),
     status : {"READY", "ERROR"}, preferred : BOOLEAN, substituted : BOOLEAN, ok : BOOLEAN, published : BOOLEAN]
LOCAL Inputs ==
    [live : {[status |-> "READY", display |-> FALSE]}, price : BOOLEAN, technical : {"ERROR"},
     others : {[id \in E!Others |-> "ERROR"]},
     ohlc : [formal : BOOLEAN, source : {"OHLC_MCP", "elsewhere"}, status : {"READY", "ERROR"}],
     chip : {[exact |-> {}, current |-> c, archive |-> {}, status |-> "ERROR", preferred |-> FALSE,
              substituted |-> b, ok |-> FALSE, published |-> FALSE] : c \in Maybe(Statuses), b \in BOOLEAN},
     fundamentals : [{"revenue", "accounting", "valuation"} -> {"READY", "ERROR"}],
     holding : {"READY", "ERROR"}, foreign : {"ERROR"}]

\* The payload of the day and the generation of a day before are never both read
\* from one object: what has a current payload is not published by itself, and a
\* day before is never formal for the day (previous_day_substitution).
ASSUME CurrentAndPublishedApart ==
    \A chip \in Chips :
        /\ E!Current(chip).formal => (~E!Direct(chip) /\ ~chip.substituted)
        /\ (E!Current(chip).formal /\ E!Published(chip).formal) => chip.archive # {}
        /\ E!Current(chip).formal => E!Current(chip).status \in E!Usable

\* Of the canonical bars and of the published days "formal" is said of an answer
\* that is not to be had: the decision has it, and lists it as missing
\* (formal_research_eligible beside status).  Nothing else is ever formal.
ASSUME FormalThoughMissing ==
    /\ \E chip \in Chips : E!Published(chip).formal /\ E!Published(chip).status = "UNAVAILABLE"
    /\ \A in \in Inputs :
            LET evidence == E!Evidence(in)
            IN  /\ \A id \in DOMAIN evidence : evidence[id].formal => evidence[id].class = "FORMAL_TRUTH"
                /\ E!Decision(evidence).current_chip => "current_chip" \notin E!Readiness(evidence).missing
    /\ \E in \in Inputs :
            LET evidence == E!Evidence(in)
            IN  E!Decision(evidence).formal_ohlc /\ "canonical_ohlc" \in E!Readiness(evidence).missing

\* A part of what is critical that is only awaited is not missing: the decision is
\* READY without it.  Without anything critical it is never READY (criticalLayers).
ASSUME ReadyWhilePending ==
    /\ \E in \in Inputs :
            /\ E!Readiness(E!Evidence(in)).state = "READY"
            /\ ~E!Decision(E!Evidence(in)).current_chip
            /\ E!Evidence(in)["current_chip"].status = "PENDING"
    /\ \A in \in Inputs :
            LET evidence == E!Evidence(in)  ready == E!Readiness(evidence)
            IN  /\ (ready.state = "READY") => \A id \in E!Critical : evidence[id].status # "UNAVAILABLE"
                /\ (ready.state = "INSUFFICIENT") => ready.usable = {} /\ ready.formalReady = {}
                /\ ready.formalReady \cap ready.formalMissing = {}

\* The month before is the row before it, whichever month that is; the year before
\* is the month itself (mom_percent).
ASSUME MonthMayBeSkipped ==
    LET row(month, value) == [month |-> month, value |-> value]
    IN  /\ E!Revenue(<<row(10, 100), row(12, 150)>>).mom = {5000}
        /\ E!Revenue(<<row(10, 100), row(12, 150)>>).yoy = {}
        /\ \A a, b \in {-2, 0, 5} :
                /\ E!Revenue(<<row(1, a), row(12, 3), row(13, b)>>).yoy = E!Growth({b}, {a})
                /\ (E!Growth({b}, {a}) = {}) = (a = 0)

LOCAL Nothing == [f \in E!Figures |-> {}]
LOCAL Periods ==
    {[Nothing EXCEPT !["revenue"] = {100}, !["net"] = n, !["cash"] = c, !["capex"] = x, !["receivables"] = r,
                     !["gross"] = g, !["liabilities"] = l, !["assets"] = {100}] :
        n \in Maybe({-5, 10}), c \in Maybe({-10, 10}), x \in Maybe({-30}), r \in Maybe({50, 80}),
        g \in Maybe({20, 30}), l \in Maybe({69, 70})}
LOCAL Flags(latest, previous) == E!HighFlags(latest, previous) \cup E!MediumFlags(latest, previous)

\* Of a period nothing is known of, nothing is held against: it is ready, without
\* risk and "healthy".  A period before it only ever adds to the flags, and a
\* figure unknown is never itself a flag (missing_values: never guessed).
ASSUME EmptyPeriodIsHealthy ==
    /\ E!Accounting(<<Nothing>>) = [status |-> "READY", score |-> 0, quality |-> "healthy"]
    /\ \A latest \in Periods :
            /\ Flags(latest, {}) \subseteq {"debt", "cash_negative"}
            /\ \A f \in {"net", "cash", "capex", "gross", "liabilities"} :
                    Flags([latest EXCEPT ![f] = {}], {Nothing}) \subseteq Flags(latest, {Nothing})
            /\ \A previous \in {p \in Periods : p["capex"] = {} /\ p["liabilities"] = {}} :
                    /\ Flags(latest, {}) \subseteq Flags(latest, {previous})
                    /\ E!RiskScore(latest, {}) <= E!RiskScore(latest, {previous})
                    /\ E!RiskScore(latest, {previous}) \in 0 .. 100

\* A trend measures against a share of where it began: where that is a loss, one
\* that stays the same or grows goes "up" (trend of eps and of margins).
ASSUME LossMayTrendUp ==
    /\ E!Trend(<<{-100}, {-100}>>) = "UP" /\ E!Trend(<<{-100}, {}, {-104}>>) = "UP"
    /\ \A a, b \in 0 .. 40 :
            /\ E!Trend(<<{a}, {b}>>) = "UP" => b > a
            /\ E!Trend(<<{a}, {b}>>) = "DOWN" => b < a

LOCAL Level(least, most, percent) == [least |-> least, most |-> most, percent |-> percent]
LOCAL Levels ==
    {<<Level({1}, {10000}, a), Level({400001}, {600000}, b), Level({1000001}, {}, c), Level({}, {}, {30})>> :
        a \in Maybe({40}), b \in Maybe({20}), c \in Maybe({10})}

\* A level the day does not tell counts as nothing, so that a holding no one has
\* told of is a holding that was sold (row.percent ?? 0).
ASSUME UnknownLevelCountsAsNothing ==
    /\ \A day \in Levels :
            /\ E!Large(day, 1000) <= E!Large(day, 400)
            /\ E!Large(day, 400) + E!Small(day, 10) <= E!Share(day)
    /\ \E known, told \in Levels :
            /\ known[2].percent = {20} /\ told = [known EXCEPT ![2].percent = {}]
            /\ E!HoldingChange(told, known) = -20

\* Those of the same chain are its peers; those of its category only where it
\* shares none, and then there is no chain to show (buildIndustryContext).
LOCAL Chained(symbol, key) == [symbol |-> symbol, key |-> key]
ASSUME PeersShareAChain ==
    \A chains \in {<<>>, <<Chained(1, "a")>>, <<Chained(1, "a"), Chained(2, "b")>>,
                   <<Chained(2, "a"), Chained(1, "a"), Chained(3, "b")>>, <<Chained(2, "a"), Chained(3, "a")>>},
       category \in Maybe({"x"}), infos \in [{1, 2, 4} -> Maybe({"x", "y"})] :
        LET industry == E!Industry(1, category, chains, infos)
        IN  /\ 1 \notin industry.peers
            /\ industry.shared = \E p \in {2, 3} : E!Shared(1, p, chains) > 0
            /\ industry.shared => /\ industry.status = "READY"
                                  /\ \A p \in industry.peers : E!Shared(1, p, chains) > 0
            /\ ~industry.shared => \A p \in industry.peers : infos[p] = {"x"}

\* However many bars there are, the first and the last are shown, and no bar twice
\* (timelineBars).
ASSUME TimelineKeepsEnds ==
    \A n \in 0 .. 60, limit \in 2 .. 16 :
        LET t == E!Timeline(n, limit)
        IN  /\ Len(t) = IF n < limit THEN n ELSE limit
            /\ n > 0 => (t[1] = 1 /\ t[Len(t)] = n)
            /\ \A i \in 1 .. Len(t) - 1 : t[i] < t[i + 1]
=============================================================================
