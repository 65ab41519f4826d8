----------------------------- MODULE ChipReads -----------------------------
(***************************************************************************)
(* The readers of the stored chip data of stocks: the cross-section of the *)
(* market (market-data-cross-section.ts), the published gateway            *)
(* (market-data-published-gateway-v2.ts), the fast one over the index and  *)
(* the snapshots of the day (market-data-fast-gateway.ts), and the one     *)
(* that fills in from a provider (tw-market-data-github.ts).               *)
(*                                                                         *)
(* A symbol is a pair of digits, a date a number, and a row the numbers of *)
(* one kind of a symbol on a date; what may be missing is a set of at most *)
(* one value.  Paths, hashes of blobs and what only describes the answer   *)
(* are left out.                                                           *)
(***************************************************************************)
EXTENDS Integers, Sequences, SequencesExt

CONSTANTS
    Month    \* days in a month, positive

Kinds == {"institutional", "margin", "securities_lending", "sbl_short_sale"}
MonthOf(day) == day \div Month
MonthRange(start, end) == MonthOf(start) .. MonthOf(end)
Between(days, least, most) == IF days < least THEN least ELSE IF days > most THEN most ELSE days

ByDate(rows) == SetToSortSeq(rows, LAMBDA r, s : r.date < s.date)
Latest(s, n) == SubSeq(s, IF Len(s) > n THEN Len(s) - n + 1 ELSE 1, Len(s))
Leading(s, n) == SubSeq(s, 1, IF Len(s) > n THEN n ELSE Len(s))
InRange(rows, start, end) == {r \in rows : start <= r.date /\ r.date <= end}
-----------------------------------------------------------------------------
(* Sums over the last rows.  The cross-section gives none unless every row *)
(* of the horizon is there and has the number; the older windows count a   *)
(* missing number as nothing, and add what rows there are.                 *)

Metrics(kind) ==
    CASE kind = "institutional" -> {"total"}
      [] kind = "margin" -> {"margin_change", "short_change"}
      [] kind = "securities_lending" -> {"net_borrowed"}
      [] kind = "sbl_short_sale" -> {"sold"}

Number(row, m) ==
    IF m = "net_borrowed" THEN {b - r : b \in row.borrowed, r \in row.returned} ELSE row[m]

Sum(rows, m) ==
    FoldLeft(LAMBDA sum, r : sum + (CHOOSE v \in Number(r, m) : TRUE), 0,
             SelectSeq(rows, LAMBDA r : Number(r, m) # {}))

MetricWindow(rows, m, horizon) ==
    LET slice == Latest(rows, horizon)
        known == SelectSeq(slice, LAMBDA r : Number(r, m) # {})
    IN  [days |-> Len(slice), observations |-> Len(known),
         value |-> IF Len(known) = horizon THEN {Sum(slice, m)} ELSE {}]

CompactLayer(kind, rows) ==
    [latest |-> Latest(rows, 1),
     windows |-> [m \in Metrics(kind) |-> [h \in {1, 3, 5} |-> MetricWindow(rows, m, h)]]]

\* A loan without its return counts as lent, one without its borrowing as returned.
Nullable(values) == IF values = {} THEN 0 ELSE CHOOSE v \in values : TRUE
Lenient(row, m) ==
    IF m = "net_borrowed" THEN Nullable(row.borrowed) - Nullable(row.returned) ELSE Nullable(row[m])
Windows(kind, rows) ==
    [m \in Metrics(kind) |-> [h \in {1, 3, 5, 10, 20} |->
        [days |-> Len(Latest(rows, h)),
         value |-> FoldLeft(LAMBDA sum, r : sum + Lenient(r, m), 0, Latest(rows, h))]]]
-----------------------------------------------------------------------------
(* The cross-section.  Every file is read at one revision: an answer of    *)
(* the contents API without its text sends the reader to the blob.         *)

ResolveRevision(pinned, answer) ==
    IF pinned \/ answer = "sha" THEN "revision" ELSE "error"

ReadCanonical(contents, blob) ==
    CASE contents = "missing" -> "absent"
      [] contents = "inline"  -> "value"
      [] contents = "large"   -> IF blob = "same" THEN "value" ELSE "error"
      [] OTHER -> "error"

\* The day is complete, all eight layers with their snapshots, and indexed.
Layers == Kinds \X {"listed", "otc"}
Prerequisites(manifest) ==
    /\ manifest.complete /\ manifest.terminal
    /\ manifest.ready = Layers /\ manifest.snapshots = Layers
    /\ manifest.indexed
    /\ IsInjective(manifest.prefixes) /\ manifest.prefixes # <<>>
    /\ Len(manifest.prefixes) = manifest.total
ManifestGate(manifests, asOf) ==
    \E m \in manifests : Prerequisites(m) /\ m.date = asOf

\* rows[s][kind] is what the shard holds of a symbol, in the order of the file.
ShardValid(shard, month, prefix) ==
    /\ shard.month = month /\ shard.prefix = prefix
    /\ \A s \in DOMAIN shard.rows :
          /\ IsPrefix(prefix, s)
          /\ \A kind \in DOMAIN shard.rows[s] :
                LET rows == shard.rows[s][kind]
                IN  /\ \A i \in DOMAIN rows : MonthOf(rows[i].date) = month /\ rows[i].symbol = s
                    /\ \A i, j \in DOMAIN rows : rows[i].date = rows[j].date => i = j

Held(shard, s, kind) ==
    IF s \in DOMAIN shard.rows /\ kind \in DOMAIN shard.rows[s] THEN ToSet(shard.rows[s][kind]) ELSE {}

\* shards[m][p] is what the read of the shard came to: at most one shard, or a
\* failure.  A shard that is valid holds one row of a date, so that rows of
\* several months never contend.
CrossSection(shards, manifests, asOf, days, prefixes, limit) ==
    LET start == asOf - Between(days, 20, 62)
        places == MonthRange(start, asOf) \X prefixes
        At(p) == shards[p[1]][p[2]]
        bad == {p \in places : \/ At(p).failed
                               \/ \E sh \in At(p).value : ~ShardValid(sh, p[1], p[2])}
        used == UNION {At(p).value : p \in places \ bad}
        symbols == SetToSortSeq(UNION {DOMAIN sh.rows : sh \in used},
                                LAMBDA s, t : 10 * s[1] + s[2] < 10 * t[1] + t[2])
        RowsOf(s, kind) == ByDate(InRange(UNION {Held(sh, s, kind) : sh \in used}, start, asOf))
    IN  [formal |->
            /\ ManifestGate(manifests, asOf)
            /\ \A p \in prefixes : \E m \in manifests : Contains(m.prefixes, p)
            /\ \A p \in places \ bad : At(p).value # {}
            /\ bad = {},
         symbols |-> [s \in ToSet(Leading(symbols, limit)) |->
                        [kind \in Kinds |-> CompactLayer(kind, RowsOf(s, kind))]]]
-----------------------------------------------------------------------------
(* One symbol, month by month.  The index of a month is filed under one    *)
(* digit or, before, two: a symbol found under one is not looked up under  *)
(* two, whatever rows it has there.                                        *)

Nothing == [kind \in Kinds |-> <<>>]
OfSymbol(shards, s) == {sh \in shards : s \in DOMAIN sh.rows}
MonthState(month, s) ==
    LET compact == OfSymbol(month[SubSeq(s, 1, 1)], s)
        found == IF compact # {} THEN compact ELSE OfSymbol(month[s], s)
    IN  IF found = {} THEN Nothing
        ELSE [kind \in Kinds |-> LET sh == CHOOSE sh \in found : TRUE
                                 IN  IF kind \in DOMAIN sh.rows[s] THEN sh.rows[s][kind] ELSE <<>>]

\* A bundle refuses rows of another month or symbol and a second row of a date.
BundleBuilds(state, month, s) ==
    \A kind \in Kinds :
        /\ \A i \in DOMAIN state[kind] : MonthOf(state[kind][i].date) = month /\ state[kind][i].symbol = s
        /\ \A i, j \in DOMAIN state[kind] : state[kind][i].date = state[kind][j].date => i = j

\* Of rows of one date and market the last one counts; a stock that changed its
\* market keeps both.
Deduped(rows) ==
    ByDate({rows[i] : i \in {i \in DOMAIN rows :
        \A j \in i + 1 .. Len(rows) :
            ~(rows[j].date = rows[i].date /\ rows[j].market = rows[i].market)}})

Overall(layers) ==
    IF \A kind \in Kinds : layers[kind] # <<>> THEN "READY"
    ELSE IF \E kind \in Kinds : layers[kind] # <<>> THEN "DEGRADED" ELSE "UNAVAILABLE"

InOrder(seq, start, end) == SelectSeq(seq, LAMBDA r : start <= r.date /\ r.date <= end)
Joined(first, last, StateOf(_)) ==
    [kind \in Kinds |-> FlattenSeq([n \in 1 .. last - first + 1 |-> StateOf(first + n - 1)[kind]])]

\* The published gateway: the month of the pointer from its generation, every
\* other month from the index as it is now.  A generation is a manifest with
\* references under one or two digits, or one file per two digits, with the
\* rows or with a reference; whichever it is, it must be of the pointer.  The
\* manifest is refused with any prefix of one digit, which is looked for first.
GenerationState(generation, pointer, s) ==
    LET one == SubSeq(s, 1, 1)
        prefix == IF generation.format = "v5" /\ one \in DOMAIN generation.files THEN one ELSE s
    IN  IF \/ generation.of # pointer \/ prefix \notin DOMAIN generation.files
           \/ generation.format = "v5" /\ \E p \in DOMAIN generation.files : Len(p) # 2
        THEN {}
        ELSE LET file == generation.files[prefix]
             IN  IF generation.format # "v3"
                    /\ (~file.same \/ file.prefix # prefix \/ file.month # MonthOf(pointer))
                 THEN {}
                 ELSE {[kind \in Kinds |-> ByDate(Held(file, s, kind))]}

Published(index, pointers, generation, s, asked, days) ==
    IF pointers = {} \/ \E a \in asked, p \in pointers : a > p
    THEN [status |-> "UNAVAILABLE"]
    ELSE LET pointer == CHOOSE p \in pointers : TRUE
             asOf == IF asked = {} THEN pointer ELSE CHOOSE a \in asked : TRUE
             start == asOf - Between(days, 30, 180)
             pinned == MonthOf(pointer)
             whole == GenerationState(generation, pointer, s)
             StateOf(m) == IF m = pinned THEN CHOOSE g \in whole : TRUE ELSE MonthState(index[m], s)
             months == MonthRange(start, asOf)
             Fails(m) == IF m = pinned /\ whole = {} THEN "UNAVAILABLE"
                         ELSE IF BundleBuilds(StateOf(m), m, s) THEN "no" ELSE "error"
             bad == {m \in months : Fails(m) # "no"}
         IN  IF bad # {} THEN [status |-> Fails(CHOOSE m \in bad : \A n \in bad : m <= n)]
             ELSE LET all == Joined(MonthOf(start), MonthOf(asOf), StateOf)
                      layers == [kind \in Kinds |-> Latest(Deduped(InOrder(all[kind], start, asOf)), 180)]
                  IN  [status |-> Overall(layers), layers |-> layers]

\* The fast gateway: the index as it is, and over it the snapshots of the layers
\* that are ready on the day asked about.
Fast(index, snapshots, s, asOf, days) ==
    LET start == asOf - Between(days, 30, 180)
        all == Joined(MonthOf(start), MonthOf(asOf), LAMBDA m : MonthState(index[m], s))
        Over(kind) == SelectSeq(snapshots[kind], LAMBDA r : r.symbol = s)
        layers == [kind \in Kinds |->
                     Latest(Deduped(InOrder(all[kind] \o Over(kind), start, asOf)), 120)]
    IN  [status |-> Overall(layers), layers |-> layers]

\* An estimate of how far a position is from being called, with the financed
\* share in hundredths.
Zone(percent) ==
    CASE percent < 130 -> "CRITICAL" [] percent < 140 -> "HIGH" [] percent < 160 -> "ELEVATED"
      [] percent < 180 -> "NORMAL" [] OTHER -> "LOW"
MaintenanceRisk(price, cost, financed) ==
    IF price <= 0 \/ cost <= 0 THEN "NEEDS_OHLC_JOIN"
    ELSE Zone((price * 10000) \div (cost * Between(financed, 10, 90)))

\* The reader with a provider behind: official rows replace those of the provider
\* on their dates, and one of them makes the whole ready.
Merged(official, fallback) ==
    ByDate(official \cup {r \in fallback : \A o \in official : o.date # r.date})
WithFallback(index, fallback, s, kind, asOf, days) ==
    LET start == asOf - Between(days, 30, 180)
        all == Joined(MonthOf(start), MonthOf(asOf), LAMBDA m : MonthState(index[m], s))
        official == ToSet(InOrder(all[kind], start, asOf))
        rows == Latest(Merged(official, IF kind \in {"institutional", "margin"} THEN fallback ELSE {}), 120)
    IN  [rows |-> rows,
         status |-> IF rows = <<>> THEN "UNAVAILABLE"
                    ELSE IF ToSet(rows) \cap official = {} THEN "DEGRADED" ELSE "READY"]
Bundle(index, fallbacks, s, asOf, days) ==
    LET layers == [kind \in Kinds |-> WithFallback(index, fallbacks[kind], s, kind, asOf, days)]
        short == {kind \in Kinds : layers[kind].status # "READY"}
    IN  IF short = {} THEN "READY" ELSE IF short = Kinds THEN "UNAVAILABLE" ELSE "DEGRADED"
=============================================================================
