--------------------------- MODULE ResearchRecords ---------------------------
(***************************************************************************)
(* What the research memory accepts, stores and lists: market judgments,   *)
(* reviews of them and trading knowledge (memory-core.ts and the adapter   *)
(* over the GitHub store, with the same rules in gpt-judgment-memory.ts),  *)
(* and the statistics over them.  Pure rules; how a record reaches the     *)
(* store is ImmutableLedger.                                               *)
(*                                                                         *)
(* Times are whole hours since the epoch, identifiers and prices are       *)
(* integers.  Which error a refused record is answered with, text, scores  *)
(* and payloads are left out.                                              *)
(***************************************************************************)
EXTENDS Integers, FiniteSets, Sequences

Markets == {"TW_STOCK", "TXF"}

MaxAnchors == 12

TaipeiDay(ts) == (ts + 8) \div 24

Elements(s) == {s[i] : i \in DOMAIN s}

DistinctBy(s, F(_)) == \A i, j \in DOMAIN s : F(s[i]) = F(s[j]) => i = j

(***************************************************************************)
(* A judgment: [market, symbol, day, at, cutoff, watermark, reasons,       *)
(* levels, lines, patterns], the last four sequences as the caller gives   *)
(* them.                                                                   *)
(***************************************************************************)

\* Anchors are sorted before they are compared, so they are strictly
\* chronological when no two have one time.
Drawn(line, cutoff) ==
    /\ Len(line.anchors) \in 2 .. MaxAnchors
    /\ \A a \in Elements(line.anchors) : a.ts > 0 /\ a.ts <= cutoff
    /\ DistinctBy(line.anchors, LAMBDA a : a.ts)

Detected(pattern, cutoff) == pattern.ts > 0 /\ pattern.ts <= cutoff

JudgmentAccepted(j) ==
    /\ j.market = "TXF" <=> j.symbol = "TXF"
    /\ 0 < j.watermark /\ j.watermark <= j.cutoff /\ j.cutoff <= j.at
    /\ j.market = "TW_STOCK" => TaipeiDay(j.at) = j.day
    /\ \A line \in Elements(j.lines) : Drawn(line, j.cutoff)
    /\ \A pattern \in Elements(j.patterns) : Detected(pattern, j.cutoff)
    /\ DistinctBy(j.lines, LAMBDA line : line.id)
    /\ DistinctBy(j.patterns, LAMBDA pattern : pattern.id)

\* The reason a code is left with: the last one given for it.
ReasonOf(reasons, code) ==
    LET given == {i \in DOMAIN reasons : reasons[i].code = code}
    IN  reasons[CHOOSE i \in given : \A k \in given : k <= i]

\* The content that is hashed.  Reasons, levels and the anchors of a line are
\* put in an order of their own (here: they are sets); lines and patterns keep
\* the caller's.
Canonical(j) ==
    [j EXCEPT !.reasons  = {ReasonOf(@, r.code) : r \in Elements(@)},
              !.levels   = Elements(@),
              !.lines    = [i \in DOMAIN @ |-> [id |-> @[i].id, anchors |-> Elements(@[i].anchors)]]]

(***************************************************************************)
(* A review: [judgment, dataset, at, pct, points].  pct and points are the *)
(* metrics of the outcome that are given.                                  *)
(***************************************************************************)

DatasetFits(d, j) ==
    /\ d.frozen /\ d.complete /\ ~ d.truncated
    /\ d.paired                      \* dataset_version is the hash's
    /\ d.market = j.market /\ d.symbol = j.symbol
    /\ d.formal \/ (j.market = "TXF" /\ d.eligible)

\* stored: the judgments on record, by identifier and version.
ReviewAccepted(r, stored) ==
    /\ r.judgment \in DOMAIN stored
    /\ LET j == stored[r.judgment] IN
       /\ DatasetFits(r.dataset, j)
       /\ r.at > j.at
       /\ (IF j.market = "TXF" THEN r.points ELSE r.pct) # {}

(***************************************************************************)
(* Knowledge: [status, actor, approved, count, refs].                      *)
(***************************************************************************)

KnowledgeAccepted(k) ==
    /\ k.count >= 0
    /\ k.status = "ACCEPTED" => k.approved /\ k.actor = "HUMAN"

\* The order of references looks at judgment and review, never at the version
\* of the review; equal references keep the caller's order.
RefBefore(a, b) ==
    \/ a.judgment < b.judgment
    \/ a.judgment = b.judgment /\ a.review < b.review

Sorted(refs, out) ==
    /\ Len(out) = Len(refs)
    /\ \E p \in [DOMAIN refs -> DOMAIN refs] :
         /\ \A i, k \in DOMAIN refs : p[i] = p[k] => i = k
         /\ \A i \in DOMAIN refs : out[i] = refs[p[i]]
         /\ \A i, k \in DOMAIN refs : i < k =>
              /\ ~ RefBefore(out[k], out[i])
              /\ ~ RefBefore(out[i], out[k]) => p[i] < p[k]

(***************************************************************************)
(* Listing a collection.  Its index holds distinct entries [key, recorded, *)
(* ...]; no two entries were recorded in one millisecond.                  *)
(***************************************************************************)

\* asked is {} when the caller names no limit.
Limit(asked, fallback, max) ==
    CHOOSE n \in 1 .. max :
        /\ asked = {} => n = fallback
        /\ \A a \in asked : \/ a \in 1 .. max /\ n = a
                            \/ a < 1 /\ n = 1
                            \/ a > max /\ n = max

Newer(index, e) == {f \in index : f.recorded > e.recorded}

\* listIndexedRecords: the newest entries are chosen, then read; an entry
\* without its record is dropped without another in its place.
Listed(index, records, limit) ==
    {e \in index : /\ Cardinality(Newer(index, e)) < limit
                   /\ e.key \in records}

\* getMarketJudgment without a version.
Latest(index, id) ==
    {e \in index : e.id = id /\ \A f \in index : f.id = id => f.recorded <= e.recorded}

\* analyzeJudgmentHistory: reviews of the listed judgments, newest reviews
\* first; the outcome of one is a set of at most one return, in the unit of its
\* market.
Reviewed(judgments, reviews, limit) ==
    LET of == {r \in reviews : \E e \in judgments : e.key = r.judgment}
    IN  {r \in of : Cardinality(Newer(of, r)) < limit}

Outcomes(judgments, reviews, limit) ==
    {r \in Reviewed(judgments, reviews, limit) : r.outcome # {}}

\* The units in the one mean outcome and the one win rate of the summary.
UnitsOf(rows) == {IF r.market = "TXF" THEN "points" ELSE "pct" : r \in rows}

(***************************************************************************)
(* buildStockTxfContext: what of a session's futures bars a stock signal   *)
(* is shown; bars[1 .. n] are chronological, of one session.               *)
(***************************************************************************)

\* The last bar that begins by the time of the signal.
ContextBar(bars, n, ts, i) ==
    /\ i \in 1 .. n
    /\ bars[i].ts <= ts
    /\ \A k \in 1 .. n : bars[k].ts <= ts => k <= i

Trend(bars, i) ==
    IF i < 4 THEN "INSUFFICIENT"
    ELSE LET moved == bars[i].close - bars[i - 3].close
         IN  IF moved > 0 THEN "UP" ELSE IF moved < 0 THEN "DOWN" ELSE "FLAT"

\* The bars whose highs and lows are the range.
Window(i) == {k \in 1 .. i : k > i - 12}
=============================================================================
