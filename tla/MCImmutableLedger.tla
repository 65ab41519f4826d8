------------------------- MODULE MCImmutableLedger -------------------------
(***************************************************************************)
(* Two collections in miniature: an event, a signal that refers to it, and *)
(* two contents a caller may give either; and the rules of the research    *)
(* memory on small records, as assumptions that TLC evaluates: what they   *)
(* guarantee, and what they leave open.                                    *)
(***************************************************************************)
EXTENDS ImmutableLedger, ResearchRecords, TLC

CONSTANTS c1, c2, c3, event, signal, h1, h2

MCKeys   == {event, signal}
MCParent == (event :> NoKey) @@ (signal :> event)

OneToAnother == Permutations(Callers) \cup Permutations(Hashes)

LOCAL PairsOf(S) == S \X S

(***************************************************************************)
(* Judgments made at hour 20 of the epoch, which is day 1 in Taipei.       *)
(***************************************************************************)

Judgment(market, day, cutoff, reasons, lines) ==
    [market |-> market, symbol |-> IF market = "TXF" THEN "TXF" ELSE "2330", day |-> day,
     at |-> 20, cutoff |-> cutoff, watermark |-> 18, reasons |-> reasons, levels |-> <<>>,
     lines |-> lines, patterns |-> <<>>]

Line(id, anchors) == [id |-> id, anchors |-> anchors]

Reasons == PairsOf([code : 1..2, weight : 1..2])
Anchors == PairsOf([ts : 18..21, price : 1..2])

\* A judgment of a stock is accepted on the Taipei date of its time only, one
\* of the futures on every date; either with two distinct anchors that were
\* known at its cutoff.
ASSUME AcceptedIsKnown ==
    \A m \in Markets, d \in 0..2, c \in 17..21, a \in Anchors :
        JudgmentAccepted(Judgment(m, d, c, <<>>, <<Line(1, a)>>)) <=>
            /\ c \in 18..20 /\ (m = "TXF" \/ d = 1)
            /\ a[1].ts # a[2].ts /\ a[1].ts <= c /\ a[2].ts <= c

\* A repetition with reasons or anchors in another order has the same content,
\* unless it has two reasons of one code: then the last one given decides.
ASSUME OrderIsForgotten ==
    \A r \in Reasons, a \in Anchors :
        LET first == Judgment("TXF", 1, 20, r, <<Line(1, a)>>)
            again == Judgment("TXF", 1, 20, <<r[2], r[1]>>, <<Line(1, <<a[2], a[1]>>)>>)
        IN  Canonical(first) = Canonical(again) <=> (r[1].code # r[2].code \/ r[1] = r[2])

\* A repetition with its lines in another order is other content: the ledger
\* answers it with a conflict.
ASSUME LinesKeepTheirOrder ==
    \E a \in Anchors :
        LET first == Judgment("TXF", 1, 20, <<>>, <<Line(1, a), Line(2, a)>>)
            again == Judgment("TXF", 1, 20, <<>>, <<Line(2, a), Line(1, a)>>)
        IN  /\ JudgmentAccepted(first) /\ JudgmentAccepted(again)
            /\ Canonical(first) # Canonical(again)

(***************************************************************************)
(* Reviews and knowledge.                                                  *)
(***************************************************************************)

Datasets == [frozen : BOOLEAN, complete : BOOLEAN, truncated : BOOLEAN, paired : BOOLEAN,
             market : Markets, symbol : {"TXF", "2330"}, formal : BOOLEAN, eligible : BOOLEAN]

Stored == [v \in Markets |-> Judgment(v, 1, 20, <<>>, <<>>)]

\* A review is accepted of a judgment on record, after it, with a frozen and
\* whole dataset of its instrument, in the unit of its market.
ASSUME ReviewsAreSound ==
    \A d \in Datasets, v \in Markets \cup {"none"}, at \in {20, 21}, pct, points \in {{}, {1}} :
        ReviewAccepted([judgment |-> v, dataset |-> d, at |-> at, pct |-> pct, points |-> points],
                       Stored) =>
            /\ v # "none" /\ at = 21 /\ d.frozen /\ d.complete /\ ~ d.truncated
            /\ v = "TW_STOCK" => d.symbol = "2330" /\ d.formal /\ pct = {1}
            /\ v = "TXF" => d.symbol = "TXF" /\ (d.formal \/ d.eligible) /\ points = {1}

References == PairsOf([judgment : 1..2, review : 1..2, version : 1..2])

\* The number of pieces of evidence is the caller's word, whatever it refers
\* to; and references to two versions of one review keep the caller's order.
ASSUME EvidenceIsTheCallersWord ==
    /\ \A n \in 0..3, refs \in References :
         KnowledgeAccepted([status |-> "ACCEPTED", actor |-> "HUMAN", approved |-> TRUE,
                            count |-> n, refs |-> refs])
    /\ \A refs \in References :
         (\E out \in References : Sorted(refs, out) /\ Sorted(<<refs[2], refs[1]>>, out))
            <=> \/ refs[1] = refs[2]
                \/ RefBefore(refs[1], refs[2]) \/ RefBefore(refs[2], refs[1])

(***************************************************************************)
(* Listings.                                                               *)
(***************************************************************************)

\* Two judgments made at times 1 and 2, recorded in either order.
Indexes == {{[key |-> 1, at |-> 1, recorded |-> r], [key |-> 2, at |-> 2, recorded |-> 3 - r]}
              : r \in 1..2}

\* The limit keeps what was recorded last, not what was judged last, although
\* the answer is sorted by the time of judgment; and an entry without its
\* record is not replaced.
ASSUME LimitIsByRecording ==
    /\ \E entries \in Indexes : \E e \in Listed(entries, {1, 2}, 1) : e.at = 1
    /\ \E entries \in Indexes : Listed(entries, {1}, 1) = {} /\ Listed(entries, {1}, 2) # {}

\* Without a market as a filter the one mean of the analysis is of percentages
\* and of points.
ASSUME UnitsAreMixed ==
    \E entries \in Indexes :
        LET reviews == {[judgment |-> e.key, recorded |-> e.recorded, outcome |-> {1},
                         market |-> IF e.key = 1 THEN "TXF" ELSE "TW_STOCK"] : e \in entries}
        IN  Cardinality(UnitsOf(Outcomes(entries, reviews, 100))) = 2

ASSUME LimitsAreBounded ==
    /\ \A n \in -1..501 : Limit({n}, 100, 500) \in 1..500
    /\ Limit({}, 100, 500) = 100

\* The bar a stock signal is shown begins by the time of the signal; its close,
\* a bar's length later, may not be known by then.
ASSUME ContextMayStillBeOpen ==
    LET bars == [i \in 1..5 |-> [ts |-> 5 * i, close |-> i % 3]]
    IN  /\ \A ts \in 5..29 : \E i \in 1..5 : ContextBar(bars, 5, ts, i)
        /\ \E ts \in 5..24, i \in 1..5 : ContextBar(bars, 5, ts, i) /\ bars[i].ts + 5 > ts
        /\ {Trend(bars, i) : i \in 1..5} = {"INSUFFICIENT", "FLAT"}
=============================================================================
