--------------------------- MODULE FamilyEvidence ---------------------------
(***************************************************************************)
(* What the family's analysis makes of the parts it has read: the nodes of *)
(* evidence and whether they suffice for a decision                        *)
(* (family-unified-evidence.ts, family-analysis.ts), the summaries of      *)
(* revenue and accounts (family-fundamental-summary.ts), the eleven points *)
(* (family-eleven-point.ts) and the bars of a market question              *)
(* (family-market-question.ts).                                            *)
(*                                                                         *)
(* What may be missing is a set of at most one value.  Percentages are in  *)
(* hundredths, rounded down; names of fields and prose are left out.       *)
(***************************************************************************)
EXTENDS Integers, Sequences, FiniteSets, SequencesExt

The(s) == CHOOSE x \in s : TRUE
Usable == {"READY", "DEGRADED"}
Normal(status) ==
    CASE status \in {"READY", "READY_EMPTY"} -> "READY"
      [] status \in {"DEGRADED", "READY_OR_DEGRADED", "PARTIAL"} -> "DEGRADED"
      [] status = "PENDING" -> "PENDING"
      [] OTHER -> "UNAVAILABLE"
Node(class, status, formal) == [class |-> class, status |-> status, formal |-> formal]

\* Of two parts, and of three.
Both(a, b)     == IF a /\ b THEN "READY" ELSE IF a \/ b THEN "DEGRADED" ELSE "UNAVAILABLE"
TwoOf(n)       == IF n >= 2 THEN "READY" ELSE IF n = 1 THEN "DEGRADED" ELSE "UNAVAILABLE"
-----------------------------------------------------------------------------
(* The nodes.                                                              *)

\* A live view counts when it may be shown; any price from elsewhere is ready.
Realtime(live, price) ==
    IF Normal(live.status) \in Usable /\ live.display THEN Normal(live.status)
    ELSE IF price THEN "READY" ELSE "UNAVAILABLE"

Canonical(ohlc) ==
    LET formal == ohlc.formal /\ ohlc.source = "OHLC_MCP"
    IN  Node("FORMAL_TRUTH", IF formal THEN Normal(ohlc.status) ELSE "UNAVAILABLE", formal)

\* chip: the status said to be of the exact date, the one of the current payload
\* and the archive's, each or none; whether its own status stands for the current
\* one, whether a day before stands in for it, whether what it is of was published.
CurrentStatus(chip) ==
    Normal(IF chip.exact # {} THEN The(chip.exact)
           ELSE IF chip.current # {} THEN The(chip.current)
           ELSE IF chip.preferred THEN chip.status ELSE "UNAVAILABLE")
Current(chip) ==
    Node("FORMAL_TRUTH", CurrentStatus(chip),
         chip.current # {} /\ ~chip.substituted /\ CurrentStatus(chip) \in Usable)
Direct(chip) == chip.ok /\ chip.published /\ chip.current = {}
Published(chip) ==
    LET formal == Direct(chip) \/ (chip.archive # {} /\ chip.published)
    IN  Node("FORMAL_TRUTH",
             IF ~formal THEN "UNAVAILABLE"
             ELSE IF chip.archive # {} THEN Normal(The(chip.archive)) ELSE Normal(chip.status), formal)

Context(status) == Node("GOVERNED_CONTEXT", Normal(status), FALSE)
Fundamentals(parts) ==
    Node("GOVERNED_CONTEXT", TwoOf(Cardinality({p \in DOMAIN parts : Normal(parts[p]) = "READY"})), FALSE)
Holders(holding, foreign) == Node("GOVERNED_CONTEXT", Both(holding = "READY", foreign = "READY"), FALSE)

Others == {"broker_branch", "warrant_activity", "maintenance_risk", "txf_context", "global_market_context",
           "global_futures_context"}
Evidence(in) ==
    [id \in Others |-> Context(in.others[id])] @@
    [realtime_market |-> Node("DISPLAY_FALLBACK", Realtime(in.live, in.price), FALSE),
     technical_research_fallback |-> Node("DISPLAY_FALLBACK", Normal(in.technical), FALSE),
     canonical_ohlc |-> Canonical(in.ohlc),
     current_chip |-> Current(in.chip),
     published_chip |-> Published(in.chip),
     fundamentals |-> Fundamentals(in.fundamentals),
     holder_structure |-> Holders(in.holding, in.foreign),
     web_evidence |-> Node("WEB_EVIDENCE", "PENDING", FALSE)]

Critical == {"canonical_ohlc", "current_chip", "fundamentals"}
With(evidence, statuses) == {id \in DOMAIN evidence : evidence[id].status \in statuses}
Readiness(evidence) ==
    LET missing == Critical \cap With(evidence, {"UNAVAILABLE"})
        formal  == {id \in DOMAIN evidence : evidence[id].class = "FORMAL_TRUTH"}
    IN  [missing |-> missing, usable |-> With(evidence, Usable), degraded |-> With(evidence, {"DEGRADED"}),
         state |-> IF missing = {} THEN "READY" ELSE IF With(evidence, Usable) # {} THEN "DEGRADED" ELSE "INSUFFICIENT",
         formalReady |-> formal \cap With(evidence, {"READY"}),
         formalMissing |-> formal \cap With(evidence, {"UNAVAILABLE"})]

\* What the analysis adds in words of its own.
Decision(evidence) ==
    [realtime |-> evidence["realtime_market"].status = "READY",
     formal_ohlc |-> evidence["canonical_ohlc"].formal,
     current_chip |-> evidence["current_chip"].formal,
     published_history |-> evidence["published_chip"].formal,
     contexts |-> {id \in Others : evidence[id].status \in Usable}]
MarketReadiness(txf, futures, events) ==
    [txf_context |-> txf \in Usable, global_futures_context |-> futures \in Usable, jin10_context |-> events]
-----------------------------------------------------------------------------
(* Revenue and accounts.                                                   *)

\* The change from b to c in hundredths of a percent.
Growth(c, b) ==
    IF c = {} \/ b = {} \/ b = {0} THEN {}
    ELSE LET x == The(c)  y == The(b) IN {IF y > 0 THEN (10000 * (x - y)) \div y ELSE (10000 * (y - x)) \div (-y)}
ShareOf(x, of) ==
    IF x = {} \/ of \in {{}, {0}} THEN {}
    ELSE {IF The(of) > 0 THEN (10000 * The(x)) \div The(of) ELSE (10000 * (-The(x))) \div (-The(of))}

\* Rows of months in order; the month before is the row before.
Revenue(rows) ==
    LET n == Len(rows)
        same == {i \in 1 .. n : rows[i].month = rows[n].month - 12}
    IN  IF n = 0 THEN [status |-> "UNAVAILABLE", mom |-> {}, yoy |-> {}]
        ELSE [status |-> "READY",
              mom |-> Growth({rows[n].value}, IF n > 1 THEN {rows[n - 1].value} ELSE {}),
              yoy |-> Growth({rows[n].value},
                             IF same = {} THEN {} ELSE {rows[CHOOSE i \in same : \A j \in same : i <= j].value})]

\* A period: the figures its statements name.
Figures == {"revenue", "gross", "net", "other", "receivables", "inventory", "liabilities", "assets", "cash", "capex"}
FreeCash(p) == IF p["cash"] = {} \/ p["capex"] = {} THEN {} ELSE {The(p["cash"]) + The(p["capex"])}
Over(a, b, by) == a # {} /\ b # {} /\ The(a) > The(b) + by
Abs(x) == IF x < 0 THEN -x ELSE x
HighFlags(latest, previous) ==
    {f \in {"cash_falls", "receivables", "inventory", "cash_behind_profit"} :
        /\ previous # {}
        /\ LET p == The(previous)  revenue == Growth(latest["revenue"], p["revenue"])
           IN  CASE f = "cash_falls" -> Over(revenue, {0}, 0) /\ Over(p["cash"], latest["cash"], 0)
                 [] f = "receivables" -> Over(Growth(latest[f], p[f]), revenue, 1500)
                 [] f = "inventory" -> Over(Growth(latest[f], p[f]), revenue, 2000)
                 [] OTHER -> /\ \E x \in latest["net"] : x > 0
                             /\ \E x \in FreeCash(latest) : x < 0}
    \cup {f \in {"debt"} : \E d \in ShareOf(latest["liabilities"], latest["assets"]) : d >= 7000}
MediumFlags(latest, previous) ==
    {f \in {"margin_falls", "other_income"} :
        /\ previous # {}
        /\ LET p == The(previous)
           IN  IF f = "margin_falls"
               THEN Over(ShareOf(p["gross"], p["revenue"]), ShareOf(latest["gross"], latest["revenue"]), 300)
               ELSE \E o \in latest["other"], x \in latest["net"] : x # 0 /\ 2 * Abs(o) >= Abs(x)}
    \cup {f \in {"cash_negative"} : \E x \in latest["cash"] : x < 0}
RiskScore(latest, previous) ==
    LET sum == 25 * Cardinality(HighFlags(latest, previous)) + 12 * Cardinality(MediumFlags(latest, previous))
    IN  IF sum > 100 THEN 100 ELSE sum
Accounting(periods) ==
    IF periods = <<>> THEN [status |-> "UNAVAILABLE", score |-> 0, quality |-> "unavailable"]
    ELSE LET n == Len(periods)
             score == RiskScore(periods[n], IF n > 1 THEN {periods[n - 1]} ELSE {})
         IN  [status |-> "READY", score |-> score,
              quality |-> IF score >= 60 THEN "weak" ELSE IF score >= 30 THEN "mixed" ELSE "healthy"]

\* Each market's page is asked; one answer is enough, the listed one comes first.
Valuation(listed, otc) ==
    LET found == SelectSeq(<<listed, otc>>, LAMBDA p : p.ok /\ p.row # {})
    IN  [status |-> IF found = <<>> THEN "UNAVAILABLE" ELSE "READY", rows |-> found,
         errors |-> {m \in {"listed"} : ~listed.ok} \cup {m \in {"otc"} : ~otc.ok}]
-----------------------------------------------------------------------------
(* The eleven points.                                                      *)

Trend(values) ==
    LET known == SelectSeq(values, LAMBDA v : v # {})
    IN  IF Len(known) < 2 THEN "INSUFFICIENT"
        ELSE LET first == The(Head(known))  last == The(known[Len(known)])
             IN  IF 100 * last > 105 * first THEN "UP" ELSE IF 100 * last < 95 * first THEN "DOWN" ELSE "FLAT"

\* Levels of holdings of a day, bounded in shares, a thousand to the lot; what is
\* unknown counts nothing.
Share(levels) == FoldLeft(LAMBDA s, l : s + (IF l.percent = {} THEN 0 ELSE The(l.percent)), 0, levels)
Large(levels, lots) == Share(SelectSeq(levels, LAMBDA l : \E m \in l.least : m > 1000 * lots))
Small(levels, lots) == Share(SelectSeq(levels, LAMBDA l : l.most # {} /\ The(l.most) <= 1000 * lots))
HoldingChange(latest, previous) == Large(latest, 400) - Large(previous, 400)
ForeignChange(ratios) ==
    LET n == Len(ratios)
    IN  IF n < 21 \/ ratios[n] = {} \/ ratios[n - 20] = {} THEN {} ELSE {The(ratios[n]) - The(ratios[n - 20])}

\* Those that share a chain with it; failing any, those of its category.
Shared(symbol, peer, chains) ==
    Cardinality({i \in DOMAIN chains : chains[i].symbol = peer /\
        \E j \in DOMAIN chains : chains[j].symbol = symbol /\ chains[j].key = chains[i].key})
Industry(symbol, category, chains, infos) ==
    LET own  == {i \in DOMAIN chains : chains[i].symbol = symbol}
        near == {p \in {chains[i].symbol : i \in DOMAIN chains} \ {symbol} : Shared(symbol, p, chains) > 0}
        kin  == {p \in DOMAIN infos \ {symbol} : category # {} /\ infos[p] = category}
        peers == IF near # {} THEN near ELSE kin
    IN  [peers |-> peers, shared |-> near # {},
         status |-> IF own # {} THEN "READY" ELSE IF peers # {} THEN "DEGRADED" ELSE "UNAVAILABLE"]

\* What is had of each point.
PointStatus(in) ==
    <<IF in.company THEN "PARTIAL_NEEDS_WEB" ELSE "NEEDS_WEB_RESEARCH",
      IF in.industry.status = "READY" THEN "PARTIAL_NEEDS_WEB" ELSE "NEEDS_WEB_RESEARCH",
      IF in.accounting = "READY" THEN "READY" ELSE "DEGRADED",
      IF "READY" \in {in.revenue, in.accounting} THEN "PARTIAL_NEEDS_WEB" ELSE "NEEDS_WEB_RESEARCH",
      "NEEDS_WEB_RESEARCH",
      "NEEDS_WEB_RESEARCH",
      IF in.flags THEN "PARTIAL_NEEDS_WEB" ELSE "NEEDS_WEB_RESEARCH",
      IF in.chip \/ "READY" \in {in.holding, in.foreign} THEN "READY_OR_DEGRADED" ELSE "DEGRADED",
      IF in.industry.peers # {} THEN "PARTIAL_NEEDS_WEB" ELSE "NEEDS_WEB_RESEARCH",
      IF in.valuation = "READY" THEN "PARTIAL_NEEDS_WEB" ELSE "NEEDS_WEB_RESEARCH",
      IF in.technical = "READY" THEN "PARTIAL_NEEDS_OHLC_MCP" ELSE "NEEDS_OHLC_MCP">>
-----------------------------------------------------------------------------
(* The bars of a session, thinned to a limit above one.                    *)

Rounded(a, b) == (2 * a + b) \div (2 * b)
Timeline(n, limit) ==
    IF n <= limit THEN [i \in 1 .. n |-> i]
    ELSE IF limit <= 1 THEN <<n>>
    ELSE [i \in 1 .. limit |-> 1 + Rounded((i - 1) * (n - 1), limit - 1)]
=============================================================================
