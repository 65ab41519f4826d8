--------------------------- MODULE MarketActivity ---------------------------
(***************************************************************************)
(* The market of a day from its official sources: institutions and margins *)
(* of both exchanges (tw-full-market-on-demand.ts) and the turnover of the *)
(* warrants of a stock (tw-warrant-activity-on-demand.ts).                 *)
(*                                                                         *)
(* A day and a symbol are numbers; what may be missing is a set of at most *)
(* one value.  Of the message of an error the words that decide are kept.  *)
(* The cache of the warrants' pages and what only describes the answer are *)
(* left out.                                                               *)
(***************************************************************************)
EXTENDS Integers, Sequences, SequencesExt

CONSTANTS
    TopN     \* length of a ranking: 10

Markets == {"listed", "otc"}
Only(o) == CHOOSE v \in o : TRUE
-----------------------------------------------------------------------------
(* One source.                                                             *)

Attempts == 3

\* Tries in turn: a refusal that is not transient ends them at once.
Fetched(outcomes) ==
    LET ends == {i \in 1 .. Attempts : outcomes[i] \in {"page", "refused"}}
    IN  outcomes[IF ends = {} THEN Attempts ELSE Min(ends)]

SourceDate(own, rowDates) ==
    LET dated == SelectSeq(SubSeq(rowDates, 1, IF Len(rowDates) < 20 THEN Len(rowDates) ELSE 20),
                           LAMBDA d : d # {})
    IN  IF own # {} THEN own ELSE IF dated # <<>> THEN dated[1] ELSE {}

\* What is loaded is thrown with the words of a message, and the day a mismatch
\* names, or is a body with its date and rows.
Source(market, loaded, asOf, least) ==
    LET rows == SelectSeq(loaded.rows, LAMBDA r : r.date = asOf /\ r.common)
        Is(status, date, words, kept) ==
            [market |-> market, status |-> status, date |-> date, words |-> words, rows |-> kept]
    IN  IF loaded.thrown
        THEN Is(IF loaded.words \cap {"date_mismatch", "not_published"} # {} THEN "PENDING" ELSE "ERROR",
                IF "date_mismatch" \in loaded.words THEN loaded.date ELSE {}, loaded.words, <<>>)
        ELSE IF loaded.date = {} THEN Is("ERROR", {}, {"date_missing"}, <<>>)
        ELSE IF loaded.date # {asOf} THEN Is("PENDING", loaded.date, {"date_mismatch"}, <<>>)
        ELSE IF Len(rows) < least THEN Is("ERROR", loaded.date, {"few_rows"}, <<>>)
        ELSE Is("READY", loaded.date, {}, rows)

\* The first of these that fits.
DiagnosisOrder ==
    <<"READY", "OFFICIAL_NOT_PUBLISHED", "DATE_MISMATCH", "OFFICIAL_GATEWAY_BLOCKED",
      "TRANSIENT_TRANSPORT", "INVALID_PAYLOAD", "DATE_CONTRACT_MISSING", "COVERAGE_INCOMPLETE",
      "DATA_CONTRACT_ERROR", "UNKNOWN">>
Fits(s, asOf) ==
    LET pending == s.status = "PENDING"
    IN  [READY |-> s.status = "READY",
         OFFICIAL_NOT_PUBLISHED |->
            pending /\ ("not_published" \in s.words \/ \E d \in s.date : d < asOf),
         DATE_MISMATCH |-> pending \/ "date_mismatch" \in s.words,
         OFFICIAL_GATEWAY_BLOCKED |->
            s.market = "otc" /\ {"redirected", "relay_missing"} \subseteq s.words,
         TRANSIENT_TRANSPORT |-> s.words \cap {"transient_http", "network"} # {},
         INVALID_PAYLOAD |-> "invalid_json" \in s.words,
         DATE_CONTRACT_MISSING |-> "date_missing" \in s.words,
         COVERAGE_INCOMPLETE |-> "few_rows" \in s.words,
         DATA_CONTRACT_ERROR |-> "contract" \in s.words,
         UNKNOWN |-> TRUE]
Diagnosis(s, asOf) == SelectSeq(DiagnosisOrder, LAMBDA code : Fits(s, asOf)[code])[1]
Retryable ==
    {"OFFICIAL_NOT_PUBLISHED", "DATE_MISMATCH", "OFFICIAL_GATEWAY_BLOCKED", "TRANSIENT_TRANSPORT",
     "INVALID_PAYLOAD", "COVERAGE_INCOMPLETE"}
-----------------------------------------------------------------------------
(* Both markets.                                                           *)

Severity ==
    <<"DATA_CONTRACT_ERROR", "DATE_CONTRACT_MISSING", "INVALID_PAYLOAD", "COVERAGE_INCOMPLETE",
      "OFFICIAL_GATEWAY_BLOCKED", "TRANSIENT_TRANSPORT", "DATE_MISMATCH", "OFFICIAL_NOT_PUBLISHED",
      "UNKNOWN">>
Diagnostics(sources, asOf, contractError) ==
    LET codes == {Diagnosis(s, asOf) : s \in {s \in sources : s.status # "READY"}}
        Is(health, code, retryable) == [health |-> health, code |-> code, retryable |-> retryable]
    IN  IF contractError # {} THEN Is("ERROR", "DATA_CONTRACT_ERROR", FALSE)
        ELSE IF codes = {} THEN Is("HEALTHY", "READY", FALSE)
        ELSE Is(IF codes \subseteq Retryable THEN "WAITING" ELSE "ERROR",
                SelectSeq(Severity, LAMBDA code : code \in codes)[1],
                codes \subseteq Retryable)

Combined(sources) ==
    IF \A s \in sources : s.status = "READY" THEN "READY"
    ELSE IF \E s \in sources : s.status = "PENDING" THEN "PENDING" ELSE "ERROR"

HasDuplicate(rows) == \E i, j \in DOMAIN rows : i < j /\ rows[i].symbol = rows[j].symbol

\* Numbers on the wanted side of nothing, the farthest first, then by symbol.
Ranking(rows, key, direction) ==
    LET wanted == {r \in ToSet(rows) : \E v \in r[key] : direction * v > 0}
        Before(r, s) ==
            LET a == direction * Only(r[key])
                b == direction * Only(s[key])
            IN  a > b \/ (a = b /\ r.symbol < s.symbol)
        order == SetToSortSeq(wanted, Before)
    IN  SubSeq(order, 1, IF Len(order) < TopN THEN Len(order) ELSE TopN)

All(listed, otc) == IF Combined({listed, otc}) = "READY" THEN listed.rows \o otc.rows ELSE <<>>

\* What both answers have in common, given what the data itself is blamed for.
MarketDay(listed, otc, asOf, contractError) ==
    LET sources == {listed, otc}
    IN  [status |-> IF Combined(sources) # "READY" THEN Combined(sources)
                    ELSE IF contractError = {} THEN "READY" ELSE "ERROR",
         error |-> contractError,
         diagnostics |-> Diagnostics(sources, asOf, contractError)]

\* Each of the four rankings has to be a full one.
Institutional(listed, otc, asOf) ==
    LET all == All(listed, otc)
        rankings == {Ranking(all, key, direction) : key \in {"foreign", "trust"}, direction \in {1, -1}}
        full == \A r \in rankings : Len(r) = TopN
    IN  MarketDay(listed, otc, asOf,
            IF HasDuplicate(all) THEN {"duplicate"}
            ELSE IF Combined({listed, otc}) = "READY" /\ ~full THEN {"incomplete_top_ten"}
            ELSE {})

Margin(listed, otc, asOf) ==
    MarketDay(listed, otc, asOf, IF HasDuplicate(All(listed, otc)) THEN {"duplicate"} ELSE {})

\* A number that is not known counts as nothing.
MarginTotal(rows, key) ==
    FoldSeq(LAMBDA r, sum : sum + (IF r[key] = {} THEN 0 ELSE Only(r[key])), 0, rows)
-----------------------------------------------------------------------------
(* Warrants of a stock.  Of the rows of one code the last is believed.     *)

Sides == {"CALL", "PUT", "UNKNOWN"}
Amount(o) == IF o = {} THEN 0 ELSE Only(o)
DatesOf(rows) == UNION {rows[i].date : i \in DOMAIN rows}
LastOf(rows, code) ==
    LET found == {i \in DOMAIN rows : rows[i].code = code}
    IN  IF found = {} THEN {} ELSE {rows[Max(found)]}

\* A row without a code names nothing in the information, which is code 0.
Activity(market, quotes, symbol, asOf, sideOf, underlyingOf) ==
    LET kept == SelectSeq(quotes, LAMBDA q : q.date = {asOf} /\ underlyingOf[q] = {symbol})
        rows == [i \in DOMAIN kept |->
                    [market |-> market, code |-> kept[i].code, side |-> sideOf[kept[i]],
                     amount |-> Amount(kept[i].amount)]]
        dated == asOf \in DatesOf(quotes)
    IN  [status |-> IF ~dated THEN (IF DatesOf(quotes) = {} THEN "ERROR" ELSE "PENDING")
                    ELSE IF rows = <<>> THEN "READY_EMPTY" ELSE "READY",
         rows |-> IF dated THEN rows ELSE <<>>]

ListedWarrants(basic, daily, symbol, asOf) ==
    LET named == SelectSeq(basic, LAMBDA b : b.code # 0)
    IN  Activity("listed", daily, symbol, asOf,
                 [q \in ToSet(daily) |->
                    LET b == LastOf(named, q.code) IN IF b = {} THEN "UNKNOWN" ELSE Only(b).side],
                 [q \in ToSet(daily) |->
                    LET b == LastOf(named, q.code) IN IF b = {} THEN {} ELSE Only(b).underlying])

\* Over the counter a quote names what it is on, and its side if nothing else does.
OtcWarrants(info, quotes, symbol, asOf) ==
    LET named == SelectSeq(info, LAMBDA b : b.code # 0)
    IN  Activity("otc", quotes, symbol, asOf,
                 [q \in ToSet(quotes) |->
                    LET b == LastOf(named, q.code) IN IF b = {} THEN q.side ELSE Only(b).side],
                 [q \in ToSet(quotes) |-> q.underlying])

WarrantSum(rows, sides) ==
    FoldSeq(LAMBDA r, sum : sum + (IF r.side \in sides THEN r.amount ELSE 0), 0, rows)
Summary(rows) ==
    LET put == WarrantSum(rows, {"PUT"})
    IN  [count |-> Len(rows), total |-> WarrantSum(rows, Sides),
         bySide |-> [side \in Sides |-> WarrantSum(rows, {side})],
         callPutRatio |-> IF put > 0 THEN {(WarrantSum(rows, {"CALL"}) * 10000) \div put} ELSE {}]

\* One page that fails of the four fails the answer.  What is called full is
\* called so whichever of the two markets answered.
WarrantActivity(pages, symbol, asOf) ==
    LET listed == ListedWarrants(Only(pages.basic), Only(pages.daily), symbol, asOf)
        otc == OtcWarrants(Only(pages.info), Only(pages.quotes), symbol, asOf)
        rows == listed.rows \o otc.rows
        states == {listed.status, otc.status}
        missed == states \cap {"ERROR", "PENDING"} # {}
    IN  IF \E p \in DOMAIN pages : pages[p] = {}
        THEN [status |-> "ERROR", completeness |-> "UNKNOWN", rows |-> <<>>]
        ELSE [status |-> IF rows # <<>> THEN (IF missed THEN "DEGRADED" ELSE "READY")
                         ELSE IF ~missed THEN "READY_EMPTY"
                         ELSE IF "PENDING" \in states THEN "PENDING" ELSE "ERROR",
              completeness |-> "FULL_OFFICIAL_DAILY_ACTIVITY",
              rows |-> rows]
=============================================================================
