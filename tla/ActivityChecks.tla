--------------------------- MODULE ActivityChecks ---------------------------
(***************************************************************************)
(* What the answers of MarketActivity and BrokerBundles say over small     *)
(* inputs.  Rankings are of two, and a market is whole with two rows.      *)
(***************************************************************************)
EXTENDS Integers, Sequences
LOCAL INSTANCE FiniteSets
LOCAL INSTANCE SequencesExt
LOCAL A == INSTANCE MarketActivity WITH TopN <- 2
LOCAL B == INSTANCE BrokerBundles

LOCAL AsOf == 5
LOCAL Stock(symbol, foreign, trust) ==
    [symbol |-> symbol, date |-> AsOf, common |-> TRUE, foreign |-> {foreign}, trust |-> {trust}]
LOCAL Body(date, rows) == [thrown |-> FALSE, words |-> {}, date |-> date, rows |-> rows]
LOCAL Thrown(words, date) == [thrown |-> TRUE, words |-> words, date |-> date, rows |-> <<>>]
LOCAL Words ==
    {"date_mismatch", "not_published", "redirected", "relay_missing", "transient_http", "network",
     "invalid_json", "contract"}
LOCAL Up == <<Stock(1, 3, -2), Stock(2, 2, 4)>>
LOCAL Down == <<Stock(3, -1, 1), Stock(4, -5, -6)>>
LOCAL Loads ==
    {Body({AsOf}, Up), Body({AsOf}, Down), Body({AsOf}, <<>>), Body({AsOf - 1}, Up),
     Body({AsOf + 1}, Up), Body({}, Up)}
    \cup {Thrown(words, {d}) : words \in {{}} \cup {{v, w} : v, w \in Words}, d \in {AsOf - 1, AsOf + 1}}
LOCAL Listed(load) == A!Source("listed", load, AsOf, 2)
LOCAL Otc(load) == A!Source("otc", load, AsOf, 2)

\* What one exchange published is not shown until the other has too: no ranking
\* is of half the market, or of rows of another day (combinedStatus).
ASSUME BothExchangesOrNone ==
    \A one, two \in Loads :
        LET day == A!Institutional(Listed(one), Otc(two), AsOf)
        IN  day.status = "READY" =>
                /\ \A load \in {one, two} : ~load.thrown /\ load.date = {AsOf}
                /\ {one, two} = {Body({AsOf}, Up), Body({AsOf}, Down)}

\* The diagnosis of an answer never speaks of health before the answer is ready,
\* and tells to wait only when all that is missing may still come
\* (fullMarketDiagnostics).
ASSUME DiagnosisGoesWithStatus ==
    \A one, two \in Loads :
        LET day == A!Institutional(Listed(one), Otc(two), AsOf)
            d == day.diagnostics
        IN  /\ (d.health = "HEALTHY") = (day.status = "READY")
            /\ (d.health = "WAITING") = d.retryable
            /\ d.health = "WAITING" =>
                    \A load \in {one, two} :
                        IF load.thrown THEN load.words # {"contract"} ELSE load.date # {}

\* An answer can be pending although one exchange will not be had by waiting:
\* the status says to come back and only the diagnosis that it is an error.
ASSUME PendingHidesError ==
    \E one, two \in Loads :
        LET day == A!Institutional(Listed(one), Otc(two), AsOf)
        IN  day.status = "PENDING" /\ day.diagnostics.health = "ERROR"

\* The cause that is named can be one worth retrying while the answer is not:
\* what is unknown comes last in the order of causes.
ASSUME NamedCauseMayBeTheMilder ==
    \E one, two \in Loads :
        LET d == A!Institutional(Listed(one), Otc(two), AsOf).diagnostics
        IN  d.health = "ERROR" /\ d.code \in A!Retryable

\* A market in which too few stocks were bought has no rankings at all, though
\* both exchanges were read; the same market has its margins
\* (incomplete_top_ten).
ASSUME QuietMarketHasNoRankings ==
    \E one, two \in Loads :
        LET l == Listed(one)
            o == Otc([two EXCEPT !.rows = [i \in DOMAIN @ |-> [@[i] EXCEPT !.symbol = @ + 4]]])
        IN  /\ A!Institutional(l, o, AsOf).error = {"incomplete_top_ten"}
            /\ A!Margin(l, o, AsOf).status = "READY"

\* Which page is had depends on the tries in order only up to the first that is
\* not worth another: a page behind a refusal is never seen (fetchFreshJson).
ASSUME RefusalEndsTheTries ==
    \A outcomes \in [1 .. A!Attempts -> {"page", "refused", "transient", "invalid_json", "network"}] :
        (A!Fetched(outcomes) = "page") =
            \E i \in 1 .. A!Attempts : outcomes[i] = "page" /\ \A j \in 1 .. i : outcomes[j] # "refused"
-----------------------------------------------------------------------------
(* Warrants of stock 7.                                                    *)

LOCAL Quote(date, code, side, amount) ==
    [date |-> date, code |-> code, side |-> side, underlying |-> {7}, amount |-> amount]
LOCAL Info(code, side) == [code |-> code, side |-> side, underlying |-> {7}]
LOCAL Quotes ==
    {<<>>} \cup {<<q>> : q \in {Quote(d, 1, s, a) : d \in {{}, {AsOf}, {AsOf - 1}}, s \in A!Sides, a \in {{}, {6}}}}
LOCAL Infos == {<<>>, <<Info(1, "CALL")>>, <<Info(1, "CALL"), Info(1, "PUT")>>, <<Info(0, "PUT")>>}
LOCAL Pages ==
    [basic : {{i} : i \in Infos}, daily : {{q} : q \in Quotes}, info : {{i} : i \in Infos},
     quotes : {{q} : q \in Quotes}]

\* The amounts by side add up to the whole, and there is no ratio without puts
\* (summarize).
ASSUME SidesAddUp ==
    \A p \in Pages :
        LET rows == A!WarrantActivity(p, 7, AsOf).rows
            s == A!Summary(rows)
        IN  /\ s.total = s.bySide["CALL"] + s.bySide["PUT"] + s.bySide["UNKNOWN"]
            /\ s.callPutRatio = {} <=> s.bySide["PUT"] = 0

\* An answer of one exchange alone, or of none, is called full: completeness
\* does not follow the status.
ASSUME CalledFullRegardless ==
    \A status \in {"DEGRADED", "PENDING", "ERROR"} : \E p \in Pages :
        LET a == A!WarrantActivity(p, 7, AsOf)
        IN  a.status = status /\ a.completeness = "FULL_OFFICIAL_DAILY_ACTIVITY"

\* A listed warrant the basic list does not know is not counted for any stock; one
\* over the counter is, with the side its quote names.
ASSUME UnknownListedWarrantIsLost ==
    LET q == <<Quote({AsOf}, 1, "PUT", {6})>>
    IN  /\ A!ListedWarrants(<<>>, q, 7, AsOf).rows = <<>>
        /\ Len(A!OtcWarrants(<<>>, q, 7, AsOf).rows) = 1
-----------------------------------------------------------------------------
(* Branches.                                                               *)

LOCAL Nets == [B!Structural -> {{}, {0}, {2}, {-2}}]
LOCAL Mirror(pattern) ==
    CASE pattern = "PERSISTENT_ACCUMULATION" -> "PERSISTENT_DISTRIBUTION"
      [] pattern = "PERSISTENT_DISTRIBUTION" -> "PERSISTENT_ACCUMULATION"
      [] pattern = "SHORT_TERM_DISTRIBUTION_AGAINST_LONGER_ACCUMULATION" ->
            "SHORT_TERM_ACCUMULATION_AGAINST_LONGER_DISTRIBUTION"
      [] pattern = "SHORT_TERM_ACCUMULATION_AGAINST_LONGER_DISTRIBUTION" ->
            "SHORT_TERM_DISTRIBUTION_AGAINST_LONGER_ACCUMULATION"
      [] OTHER -> pattern

\* Buying and selling are judged alike: what is sold instead of bought has the
\* opposite pattern (branchPattern).
ASSUME PatternsAreSymmetric ==
    \A net \in Nets :
        B!BranchPattern([d \in DOMAIN net |-> {-n : n \in net[d]}]) = Mirror(B!BranchPattern(net))

\* A window that was not read never counts against a pattern: a persistent branch
\* stays one in whichever window it is no longer seen, or is not judged.
ASSUME UnseenIsNotAgainst ==
    \A net \in Nets, d \in B!Structural :
        LET less == B!BranchPattern([net EXCEPT ![d] = {}])
        IN  B!BranchPattern(net) = "PERSISTENT_ACCUMULATION" =>
                less \in {"PERSISTENT_ACCUMULATION", "INSUFFICIENT_RANKED_COVERAGE", "MIXED"}

LOCAL Row(side, branch, net) == [side |-> side, rank |-> 1, branch |-> branch, net |-> net]
LOCAL Window(days, status, rows) ==
    [provider |-> "MONEYDJ", days |-> days, status |-> status, asOf |-> AsOf, rangeEnd |-> AsOf,
     date |-> IF status = "PENDING" THEN {AsOf - 1} ELSE {AsOf}, verified |-> B!Usable(status),
     rows |-> rows]

\* A branch in both halves of a page has appeared twice in one window, and goes
\* before one seen in one window only; its purchase is forgotten.
ASSUME BothHalvesCountTwice ==
    LET windows == [d \in {5} |-> Window(5, "READY", <<Row("BUY", 2, 9), Row("BUY", 1, 1), Row("SELL", 1, -1)>>)]
        matrix == B!BranchMatrix(windows)
    IN  matrix[1].branch = 1 /\ matrix[1].appearances = 2 /\ matrix[1].net[5] = {-1}

\* A page read in the first days of a year and dated without its year has a date
\* that is still to come, and is not of the day asked for.
ASSUME YearIsTheAskedOne ==
    B!PageDate([year |-> {}, day |-> 365], [year |-> 2, day |-> 1]) = [year |-> 2, day |-> 365]
-----------------------------------------------------------------------------
(* Providers 1 and 2, asked for the windows of one and of five days.       *)

LOCAL Asked == <<1, 5>>
LOCAL Provider(id, priority, supported) ==
    [id |-> id, priority |-> priority, exactAsOf |-> TRUE, exactWindows |-> TRUE, supported |-> supported]
LOCAL Claimed ==
    {Window(d, s, <<>>) : d \in {1}, s \in {"READY", "READY_EMPTY", "PENDING", "ERROR"}}
    \cup {[Window(1, "READY", <<>>) EXCEPT !.date = {AsOf - 1}], [Window(1, "READY", <<>>) EXCEPT !.verified = FALSE]}
LOCAL Bundle(id, one, five) ==
    [B!MoneyDj([d \in {} |-> 0], Asked, 7, AsOf) EXCEPT !.provider = id,
        !.windows = [d \in {1, 5} |->
            IF d = 1 THEN [one EXCEPT !.provider = id] ELSE [five EXCEPT !.provider = id, !.days = 5]]]
LOCAL Bundles(id) == {{}} \cup {{Bundle(id, one, five)} : one, five \in Claimed}
LOCAL Both == {Provider(1, 10, {}), Provider(2, 20, {})}
LOCAL Answer(one, two) == B!Route(Both, <<one, two>>, 7, AsOf, Asked)
LOCAL Whole(answer) == \E b \in answer : B!ReadyDays(b, Asked) = {1, 5}

\* An answer's windows are one provider's, and what counts as ready is of the day
\* asked for and verified, whatever the providers claim of their windows
\* (validateBundleContract).
ASSUME OneProviderAnswers ==
    \A one \in Bundles(1), two \in Bundles(2) :
        LET a == Answer(one, two)
        IN  \A d \in DOMAIN a.windows :
                /\ {a.windows[d].provider} = a.provider
                /\ B!Usable(a.windows[d].status) =>
                        a.windows[d].date = {AsOf} /\ a.windows[d].verified

\* A whole bundle of a later provider goes before a part of an earlier one's, and a
\* part of neither is ever filled up from the other's.
ASSUME WholeGoesBeforePart ==
    \A one \in Bundles(1), two \in Bundles(2) :
        LET a == Answer(one, two)
            Valid(id, answer) == \A b \in answer : B!ContractErrors(b, id, 7, AsOf, Asked) = {}
        IN  (a.status = "READY") =
                ((Whole(one) /\ Valid(1, one)) \/ (Whole(two) /\ Valid(2, two)))

\* A provider that answers with errors hides a later one that would have said to
\* wait: among bundles with nothing ready the first is the answer.
ASSUME ErrorHidesPending ==
    \E one \in Bundles(1), two \in Bundles(2) :
        /\ Answer(one, two).status = "ERROR" /\ Answer(one, two).provider = {1}
        /\ Answer({}, two).status = "PENDING"

\* The provider there is passes as one that proves itself: only a window it was
\* never given, or one with a wrong date, is held against it.
ASSUME StampedBundleIsHeldToItsWindows ==
    \A one, five \in Claimed, given \in SUBSET {1, 5} :
        LET windows == [d \in given |-> IF d = 1 THEN one ELSE [five EXCEPT !.days = 5]]
            errors == B!ContractErrors(B!MoneyDj(windows, Asked, 7, AsOf), "MONEYDJ", 7, AsOf, Asked)
        IN  /\ errors \subseteq {"days_mismatch", "as_of_mismatch", "range_end_mismatch",
                                 "source_date_mismatch", "unverified"}
            /\ given # {1, 5} => errors # {}
=============================================================================
