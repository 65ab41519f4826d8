--------------------------- MODULE MarketReaders ---------------------------
(***************************************************************************)
(* Questions about one stock answered from the official pages of the day   *)
(* without storing anything: the credit and lending fast path              *)
(* (tw-credit-sbl-query-fast-path.ts), the chip snapshot                   *)
(* (tw-chip-on-demand.ts) and the broker ranking                           *)
(* (tw-broker-ranked-on-demand.ts).                                        *)
(*                                                                         *)
(* Each reader keeps, for every address, the promise of the last fetch and *)
(* when it expires; overlapping questions share it, and its failure.  The  *)
(* pages are external: one shows the day before, or nothing it dates,      *)
(* until the day is published.                                             *)
(***************************************************************************)
EXTENDS Naturals

CONSTANTS
    Queries,     \* questions to one reader; the readers share nothing
    NoQuery,
    Readers,     \* the readers checked: "fast", "chip", "broker"
    Ttl,         \* how long a promise is kept
    Wanted(_),   \* Wanted(r): the topics that the questions to reader r may be
                 \* about, each a function on Queries; {} asks nothing
    MaxTime,     \* bound: the clock
    MaxFailures    \* bound: fetches that fail, or show nothing of use

Markets == {"listed", "otc"}
Layers  == {"margin", "sbl"}
Origins == {"concords", "5850web"}
\* What the questions to a reader are about: layers, or a ranking.
Topics(r) == IF r = "broker" THEN {"ranking"} ELSE Layers
\* Official pages of a layer: over the counter, lending is balances and volumes.
PagesOf(l, m) ==
    CASE l = "margin" /\ m = "listed" -> {"MI_MARGN"}
      [] l = "margin" /\ m = "otc"    -> {"margin_balance"}
      [] l = "sbl" /\ m = "listed"    -> {"TWT93U"}
      [] l = "sbl" /\ m = "otc"       -> {"margin_sbl", "short_sell"}
Official == UNION {PagesOf(l, m) : l \in Layers, m \in Markets}
Pages    == Official \cup Origins
\* A page of an origin may say that the day has no ranking ("empty"), have the
\* marker words and no date, or no rows, or not even the words ("foreign").
Faulty   == {"foreign", "dateless", "rowless"}
Bodies   == {"old", "undated", "day", "empty"} \cup Faulty
Outcomes == Bodies \cup {"failed"}

ASSUME ReadersAssumption ==
    /\ Readers \subseteq {"fast", "chip", "broker"}
    /\ NoQuery \notin Queries
    /\ \A r \in Readers : Wanted(r) \subseteq [Queries -> SUBSET Topics(r)]
    /\ Ttl \in Nat \ {0} /\ MaxTime \in Nat /\ MaxFailures \in Nat

VARIABLES
    reader,    \* the reader asked
    market,    \* the market the stock trades on
    has,       \* the topics on which it has a row that day
    known,     \* the archive has rows of it, which tell its market
    published, \* when the day was published on each page
    volumes,   \* what the page of lending volumes shows before that
    now,       \* the clock
    cache,     \* cache[p]: who made the promise kept, and when it expires
    promise,   \* promise[q][p]: the fetch q has begun, and what it has come to
    asked,     \* asked[q][p]: when q asked for p
    source,    \* source[q][p]: whose promise it was given
    wants,     \* the topics a question asks about
    answered,  \* questions that have been answered
    failures

stock == <<reader, market, has, known, wants, volumes>>
readersVars  == <<reader, market, has, known, wants, volumes, published, now, cache, promise,
           asked, source, answered, failures>>

Never == MaxTime + 1

NoEntry == [by |-> NoQuery, expires |-> 0]

ReadersInit ==
    /\ reader \in Readers /\ market \in Markets
    /\ volumes \in IF market = "otc" THEN {"old", "undated"} ELSE {"old"}
    /\ known \in IF reader = "fast" THEN BOOLEAN ELSE {FALSE}
    /\ wants \in Wanted(reader) /\ has \in SUBSET UNION {wants[q] : q \in Queries}
    /\ reader = "broker" => market = "listed"
    /\ published = [p \in Pages |-> Never]
    /\ now = 0 /\ cache = [p \in Pages |-> NoEntry]
    /\ promise = [q \in Queries |-> [p \in Pages |-> "none"]]
    /\ asked = [q \in Queries |-> [p \in Pages |-> 0]]
    /\ source = [q \in Queries |-> [p \in Pages |-> NoQuery]]
    /\ answered = {q \in Queries : wants[q] = {}} /\ failures = 0

(***************************************************************************)
(* What a question has been given.                                         *)
(***************************************************************************)

Asks(q, p)  == source[q][p] # NoQuery
Given(q, p) == IF Asks(q, p) THEN promise[source[q][p]][p] ELSE "none"
Settled(q, p) == Given(q, p) \in Outcomes

\* Mutant of OfTheDay: the balances alone are looked at.
OfTheDayBalance(q, l, m) ==
    \A p \in PagesOf(l, m) \ {"short_sell"} : Given(q, p) = "day"

\* Every page of the layer is of the day asked for; volumes may be undated.
OfTheDay(q, l, m) ==
    \A p \in PagesOf(l, m) :
        Given(q, p) = "day" \/ (p = "short_sell" /\ Given(q, p) = "undated")

\* The stock's row, if the layer is of the day and the market is the stock's.
Row(q, l, m) == OfTheDay(q, l, m) /\ m = market /\ l \in has

\* layerFromBody, loadSource, loadTpexSbl, fetchOtcSbl
LayerStatus(q, l, m) ==
    CASE \E p \in PagesOf(l, m) : Given(q, p) \in {"none", "failed"} -> "ERROR"
      [] \E p \in PagesOf(l, m) \ {"short_sell"} : Given(q, p) = "undated" -> "ERROR"
      [] ~OfTheDay(q, l, m) -> "PENDING"
      [] OTHER -> IF Row(q, l, m) THEN "READY" ELSE "READY_EMPTY"

(***************************************************************************)
(* The fast path: one market at a time, the listed one first when the      *)
(* archive does not know the stock.                                        *)
(***************************************************************************)

\* All pages of a layer have settled, or one has failed.
Told(q, l, m) ==
    \/ \A p \in PagesOf(l, m) : Settled(q, p)
    \/ \E p \in PagesOf(l, m) : Given(q, p) = "failed"

\* A page fetched outside of a try.
Throws(q) == \E p \in Official \ PagesOf("sbl", "otc") : Given(q, p) = "failed"

\* The layer by which an unknown stock's market is found.
Probe(q) == IF "margin" \in wants[q] THEN "margin" ELSE "sbl"

\* "none" when no layer of the probe has the stock's row.
FoundMarket(q) ==
    IF known THEN market
    ELSE IF \E m \in Markets : Row(q, Probe(q), m)
    THEN CHOOSE m \in Markets : Row(q, Probe(q), m) ELSE "none"

\* The market of the layer in the answer: of a probe without a row the last,
\* and the listed one for another layer of a stock nobody has found.
Chosen(q, l) ==
    CASE known -> market
      [] ~known /\ l = Probe(q) -> IF Row(q, l, "listed") THEN "listed" ELSE "otc"
      [] OTHER -> IF FoundMarket(q) = "otc" THEN "otc" ELSE "listed"

ProbeTold(q) ==
    IF known THEN Told(q, Probe(q), market)
    ELSE /\ Told(q, Probe(q), "listed")
         /\ Row(q, Probe(q), "listed") \/ Told(q, Probe(q), "otc")

FastNeeds(q) ==
    LET probe == Probe(q)
        first == IF known THEN PagesOf(probe, market)
                 ELSE PagesOf(probe, "listed")
                      \cup (IF Told(q, probe, "listed") /\ ~Row(q, probe, "listed")
                            THEN PagesOf(probe, "otc") ELSE {})
        rest  == IF ProbeTold(q) THEN UNION {PagesOf(l, Chosen(q, l)) : l \in wants[q]}
                                 ELSE {}
    IN  IF Throws(q) THEN {} ELSE first \cup rest

FastTold(q) == Throws(q) \/ (ProbeTold(q) /\ \A l \in wants[q] : Told(q, l, Chosen(q, l)))

(***************************************************************************)
(* The chip snapshot: all pages at once.                                   *)
(***************************************************************************)

\* inferMarket: some layer has the stock's row.
Inferred(q) == IF \E l \in Layers : Row(q, l, market) THEN {market} ELSE Markets

\* Mutant of PairStatus: a market that is ready decides.
PairStatusReady(q, l) ==
    LET s == {LayerStatus(q, l, m) : m \in Inferred(q)}
    IN  CASE "READY" \in s -> "READY"
          [] "READY_EMPTY" \in s -> "READY_EMPTY"
          [] OTHER -> IF "PENDING" \in s THEN "PENDING" ELSE "ERROR"

\* choosePair: of the stock's market, or of both while it is unknown.
PairStatus(q, l) ==
    LET s == {LayerStatus(q, l, m) : m \in Inferred(q)}
    IN  CASE "READY" \in s -> "READY"
          [] "PENDING" \in s -> "PENDING"
          [] "READY" \notin s /\ "PENDING" \notin s /\ "ERROR" \in s -> "ERROR"
          [] OTHER -> "READY_EMPTY"

(***************************************************************************)
(* The broker ranking: the second origin when the first has failed, or has *)
(* answered with something else than a ranking.                            *)
(***************************************************************************)

\* What a fetch of an origin may end with and the loop goes on.
Useless(q, p) == Given(q, p) \in {"failed", "foreign"}

BrokerNeeds(q) ==
    {"concords"} \cup (IF Useless(q, "concords") THEN {"5850web"} ELSE {})

\* The origin whose page is read: the last one the loop gets to.
Taken(q) == IF Useless(q, "concords") THEN "5850web" ELSE "concords"

\* A page with the marker words is final: the other origin is not tried when it
\* has no date or no rows.
BrokerStatus(q) ==
    CASE Given(q, Taken(q)) = "day"   -> "READY"
      [] Given(q, Taken(q)) = "empty" -> "READY_EMPTY"
      [] Given(q, Taken(q)) = "old"   -> "PENDING"
      [] OTHER -> "ERROR"

(***************************************************************************)
(* Steps.                                                                  *)
(***************************************************************************)

Needs(q) == CASE reader = "fast" -> FastNeeds(q)
              [] reader = "chip" -> Official
              [] reader = "broker" -> BrokerNeeds(q)

Ended(q) == CASE reader = "fast" -> FastTold(q)
              [] reader = "chip" -> \A l \in Layers, m \in Markets : Told(q, l, m)
              [] reader = "broker" -> \A p \in BrokerNeeds(q) : Settled(q, p)

\* Mutant of Kept: a promise is kept for good.
KeptForever(p) == cache[p].by # NoQuery

\* The promise of p has not expired.
Kept(p) == cache[p].by # NoQuery /\ cache[p].expires > now

\* Whose promise q is given for p.
Shares(q, p) == IF Kept(p) THEN cache[p].by ELSE q

\* fetchJsonCached, fetchPageCached of all pages it needs next
Ask(q) ==
    LET pages == {p \in Needs(q) : ~Asks(q, p)}
        begun == {p \in pages : ~Kept(p)}
    IN  /\ q \notin answered /\ pages # {}
        /\ asked' = [asked EXCEPT ![q] = [p \in Pages |-> IF p \in pages THEN now ELSE @[p]]]
        /\ source' = [source EXCEPT ![q] = [p \in Pages |->
                                            IF p \in pages THEN Shares(q, p) ELSE @[p]]]
        /\ cache' = [p \in Pages |-> IF p \in begun THEN [by |-> q, expires |-> now + Ttl]
                                     ELSE cache[p]]
        /\ promise' = [promise EXCEPT ![q] = [p \in Pages |->
                                              IF p \in begun THEN "pending" ELSE @[p]]]
        /\ UNCHANGED <<stock, published, now, answered, failures>>

\* Mutant of Forgets: the address keeps the promise that has failed.
ForgetsNothing(p) == UNCHANGED cache

\* The promise kept for p is removed, whoever has made it.
Forgets(p) == cache' = [cache EXCEPT ![p] = NoEntry]

\* What a page shows before the day is published.
Before(p) == CASE p \in {"MI_MARGN", "TWT93U"} -> "undated"
               [] p = "short_sell" -> volumes
               [] OTHER -> "old"

\* A page that never says which day it is of.
Undated(p) == p = "short_sell" /\ volumes = "undated"

\* What it shows from then on.
After(p) == CASE Undated(p) -> "undated"
              [] p \in Origins /\ "ranking" \notin has -> "empty"
              [] OTHER -> "day"

\* The page has answered at some time since it was asked, or the fetch fails.
\* The day may have been published meanwhile, and a public page may answer with
\* something else.
Settle(q, p) ==
    /\ promise[q][p] = "pending"
    /\ \/ /\ asked[q][p] <= published[p]
          /\ promise' = [promise EXCEPT ![q][p] = Before(p)]
          /\ UNCHANGED <<published, cache, failures>>
       \/ /\ promise' = [promise EXCEPT ![q][p] = After(p)]
          /\ published' = [published EXCEPT ![p] = IF @ = Never THEN now ELSE @]
          /\ UNCHANGED <<cache, failures>>
       \/ /\ failures < MaxFailures /\ failures' = failures + 1
          /\ promise' = [promise EXCEPT ![q][p] = "failed"] /\ Forgets(p)
          /\ UNCHANGED published
       \/ /\ failures < MaxFailures /\ failures' = failures + 1
          /\ p \in Origins
          /\ \E body \in Faulty : promise' = [promise EXCEPT ![q][p] = body]
          /\ UNCHANGED <<published, cache>>
    /\ UNCHANGED <<stock, now, asked, source, answered>>

Answer(q) ==
    /\ q \notin answered /\ Ended(q)
    /\ \A p \in Needs(q) : Asks(q, p)
    /\ answered' = answered \cup {q}
    /\ UNCHANGED <<stock, published, now, cache, promise, asked, source, failures>>

\* A question is still to come.
Open == \E q \in Queries \ answered : \A p \in Pages : ~Asks(q, p)

\* The day is published on a page after it has answered one question and before
\* another.
Publish(p) ==
    /\ Open /\ \E q \in Queries : promise[q][p] = Before(p)
    /\ published[p] = Never /\ published' = [published EXCEPT ![p] = now]
    /\ UNCHANGED <<stock, now, cache, promise, asked, source, answered, failures>>

\* Time passes between the first question and the last.
Tick ==
    /\ Open /\ \E q \in Queries, p \in Pages : Asks(q, p)
    /\ now < MaxTime /\ now' = now + 1
    /\ UNCHANGED <<stock, published, cache, promise, asked, source, answered, failures>>

ReadersNext ==
    \/ \E q \in Queries : Ask(q) \/ Answer(q)
    \/ \E q \in Queries, p \in Pages : Settle(q, p)
    \/ \E p \in Pages : Publish(p)
    \/ Tick

ReadersSpec == ReadersInit /\ [][ReadersNext]_readersVars

-----------------------------------------------------------------------------
\* The variables stay in their types.
ReadersTypeOK ==
    /\ reader \in Readers /\ market \in Markets /\ has \in SUBSET Topics(reader)
    /\ known \in BOOLEAN /\ wants \in [Queries -> SUBSET Topics(reader)]
    /\ volumes \in {"old", "undated"} /\ published \in [Pages -> 0 .. Never]
    /\ now \in 0 .. MaxTime /\ failures \in 0 .. MaxFailures /\ answered \subseteq Queries
    /\ cache \in [Pages -> [by : Queries \cup {NoQuery}, expires : 0 .. MaxTime + Ttl]]
    /\ promise \in [Queries -> [Pages -> Outcomes \cup {"none", "pending"}]]
    /\ asked \in [Queries -> [Pages -> 0 .. MaxTime]]
    /\ source \in [Queries -> [Pages -> Queries \cup {NoQuery}]]

\* The status of a topic in the answer.
Status(q, l) ==
    CASE reader = "fast"   -> LayerStatus(q, l, Chosen(q, l))
      [] reader = "chip"   -> PairStatus(q, l)
      [] reader = "broker" -> BrokerStatus(q)

\* Answers that have not been given up by an exception.
Answers == {q \in answered : reader = "fast" => ~Throws(q)}

\* READY_EMPTY says that the stock has no row that day, in whichever market it
\* trades: a page that is late or fails leaves its layer pending or in error, and
\* one that cannot be read is no empty ranking.  The fast path is held to it for
\* stocks whose market the archive knows (choosePair, layerFromBody,
\* getTwBrokerRankedOnDemand).
EmptyIsSound ==
    \A q \in Answers : \A l \in wants[q] :
        Status(q, l) = "READY_EMPTY" /\ (reader = "fast" => known) => l \notin has

\* A layer in the answer that is ready, with or without a row, has taken nothing
\* dated from a page that still showed the day before: of two pages kept for
\* different times neither may be the old one (loadTpexSbl, fetchOtcSbl).  A
\* ranking is ready by the day its own page shows, whichever origin it is from.
NothingOfTheDayBefore ==
    \A q \in Answers : \A l \in wants[q] :
        IF reader = "broker"
        THEN Status(q, l) \in {"READY", "READY_EMPTY"} => published[Taken(q)] # Never
        ELSE \A m \in Markets :
                 LayerStatus(q, l, m) \in {"READY", "READY_EMPTY"} =>
                     \A p \in PagesOf(l, m) : Undated(p) \/ published[p] # Never

\* A day published for as long as a promise is kept is seen by whoever asks:
\* however slow a fetch was and whoever shares it, an answer from before the
\* day was published is not given any longer (the expiry in fetchJsonCached).
PublishedDayIsSeen ==
    \A q \in Queries, p \in Pages :
        Asks(q, p) /\ published[p] + Ttl <= asked[q][p] =>
            Undated(p) \/ Given(q, p) \notin {"old", "undated"}

\* The second origin is asked only by who has found the first of no use, and a
\* ranking ends without a page to read only when neither origin had one with the
\* marker words (fetchMoneyDjRangePage; a page with them and no date or no rows
\* ends it in ERROR, and the second origin is not tried).
OriginsInTurn ==
    reader = "broker" => \A q \in Queries :
        /\ Asks(q, "5850web") => Useless(q, "concords")
        /\ q \in answered /\ wants[q] # {} =>
             \/ Given(q, Taken(q)) \in {"old", "day", "empty", "dateless", "rowless"}
             \/ \A p \in Origins : Useless(q, p)

\* A ranking that has been answered had all it needed, and nothing of that
\* changes any more.
RankingsAreTold ==
    reader = "broker" => \A q \in answered : wants[q] # {} =>
        \A p \in BrokerNeeds(q) : Settled(q, p)

\* A question was given a fetch that had been begun, its own or one whose entry
\* had not expired when it asked.
FetchesAreShared ==
    \A q \in Queries, p \in Pages :
        /\ asked[q][p] <= now
        /\ promise[q][p] # "none" => source[q][p] = q
        /\ Asks(q, p) => /\ promise[source[q][p]][p] # "none"
                        /\ asked[q][p] < asked[source[q][p]][p] + Ttl

\* The promise kept for a page has not failed, and expires Ttl after it was made.
EntriesAreCurrent ==
    \A p \in Pages : cache[p].by # NoQuery =>
        /\ promise[cache[p].by][p] \notin {"none", "failed"}
        /\ cache[p].expires = asked[cache[p].by][p] + Ttl

\* A fetch shows the day only of a page on which it is published, and nothing
\* older if that was so when it was begun.
FetchesShowTheirTime ==
    \A q \in Queries, p \in Pages :
        /\ promise[q][p] \in {"day", "empty"} => published[p] # Never
        /\ promise[q][p] = "empty" => "ranking" \notin has
        /\ promise[q][p] \in {"old", "undated"} => Undated(p) \/ asked[q][p] <= published[p]
        /\ promise[q][p] = "undated" => p \notin Origins /\ (p = "short_sell" => Undated(p))

\* A question is told what the pages it was given can tell, and what is kept or
\* shared is what it is taken for (fetchJsonCached, fetchMoneyDjRangePage).
ReadersInv ==
    /\ ReadersTypeOK /\ PublishedDayIsSeen /\ OriginsInTurn
    /\ RankingsAreTold /\ FetchesAreShared /\ EntriesAreCurrent /\ FetchesShowTheirTime

\* Nobody is given a fetch that has already failed: a failure reaches those who
\* were waiting for it and no one after (the delete in fetchJsonCached).
FailuresAreCurrent ==
    [][\A q \in Queries, p \in Pages :
        source[q][p] # source'[q][p] => promise[source'[q][p]][p] # "failed"]_readersVars
=============================================================================
