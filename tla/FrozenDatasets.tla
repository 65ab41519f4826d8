--------------------------- MODULE FrozenDatasets ---------------------------
(***************************************************************************)
(* The datasets a backtest, a replay, a swing path and a futures review    *)
(* accept (validateDataset of each engine), and the batch that brings      *)
(* datasets and signals together (batch-backtester.ts).                    *)
(*                                                                         *)
(* A dataset is [market, symbol, timeframe, source, files, frozen,         *)
(* complete, truncated, formal, eligible, count, version] with a sequence  *)
(* of rows; an engine is [market, symbol, timeframe].  SHA-256 never       *)
(* collides: a version is the fingerprint itself.                          *)
(***************************************************************************)
EXTENDS Integers, FiniteSets, Sequences

\* Prices above zero within low and high; volume not below zero.
Sound(row) ==
    /\ row.low > 0 /\ row.volume >= 0
    /\ \A p \in {row.open, row.close, row.low, row.high} : row.low <= p /\ p <= row.high

\* A loop that refuses a bar not after the one before, or seen already.
Chronological(rows) ==
    \A i, j \in DOMAIN rows : i < j => rows[i].ts < rows[j].ts

\* What is hashed: the files without their order, and none of the flags.
Fingerprint(engine, dataset, rows) ==
    [market |-> dataset.market, symbol |-> dataset.symbol, timeframe |-> engine.timeframe,
     source |-> dataset.source, files |-> dataset.files, rows |-> rows]

\* Formal research for the stocks; the futures are reviewed on less.
Eligible(engine, dataset) ==
    IF engine.market = "txf" THEN dataset.eligible ELSE dataset.formal

Accepts(engine, dataset, rows) ==
    /\ dataset.frozen /\ dataset.complete /\ ~ dataset.truncated
    /\ Eligible(engine, dataset)
    /\ dataset.market = engine.market /\ dataset.timeframe = engine.timeframe
    /\ dataset.symbol = engine.symbol
    /\ rows # <<>> /\ dataset.count = Len(rows)
    /\ \A i \in DOMAIN rows : rows[i].symbol = engine.symbol /\ Sound(rows[i])
    /\ Chronological(rows)
    /\ dataset.version = Fingerprint(engine, dataset, rows)

(***************************************************************************)
(* A batch: bundles is a sequence of [id, version, hash, ...], cases one   *)
(* of [signal, strategy, version, outcome].                                *)
(***************************************************************************)

\* Two bundles of one version must have one identity; the rows of the second
\* are not compared.
Consistent(bundles) ==
    \A i, j \in DOMAIN bundles : bundles[i].version = bundles[j].version =>
        bundles[i].hash = bundles[j].hash /\ bundles[i].id = bundles[j].id

\* The bundle a case is evaluated on: the first of its version.
BundleOf(bundles, version, i) ==
    /\ i \in DOMAIN bundles /\ bundles[i].version = version
    /\ \A k \in DOMAIN bundles : bundles[k].version = version => i <= k

NoCaseTwice(cases) ==
    \A i, j \in DOMAIN cases :
        cases[i].signal = cases[j].signal /\ cases[i].version = cases[j].version => i = j

BatchAccepts(bundles, cases) ==
    /\ bundles # <<>> /\ cases # <<>>
    /\ Consistent(bundles) /\ NoCaseTwice(cases)
    /\ \A i \in DOMAIN cases : \E k \in DOMAIN bundles : BundleOf(bundles, cases[i].version, k)

\* The counts of the summary, and of each strategy in it; results is a set.
Counts(results) ==
    LET wins   == {r \in results : r.outcome > 0}
        losses == {r \in results : r.outcome < 0}
    IN  [total |-> Cardinality(results), wins |-> Cardinality(wins),
         losses |-> Cardinality(losses),
         breakeven |-> Cardinality(results) - Cardinality(wins) - Cardinality(losses)]

OfStrategy(results, name) == {r \in results : r.strategy = name}
=============================================================================
