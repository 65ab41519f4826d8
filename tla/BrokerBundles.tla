---------------------------- MODULE BrokerBundles ----------------------------
(***************************************************************************)
(* The branches that traded a stock most, over several windows of trading  *)
(* days: how a page is read and a matrix of branches is made of the        *)
(* windows (tw-broker-ranked-on-demand.ts), and how one of several         *)
(* providers is chosen (broker-provider-bundle-router.ts).                 *)
(*                                                                         *)
(* What may be missing is a set of at most one value.  The words of a page *)
(* are represented by what is found of them.  Averages per day are not     *)
(* rounded: Scaled multiplies them by a number every window divides.       *)
(***************************************************************************)
EXTENDS Integers, Sequences, SequencesExt

Windows == {1, 5, 10, 20, 40, 60, 120, 240}
Scaled(net, days) == (net * 240) \div days

Abs(n) == IF n < 0 THEN -n ELSE n
Sign(n) == IF n > 0 THEN 1 ELSE IF n < 0 THEN -1 ELSE 0
Usable(status) == status \in {"READY", "READY_EMPTY"}
-----------------------------------------------------------------------------
(* A page.                                                                 *)

PageTries == 2

\* Only an answer with a transient status is asked for again.
PageAfter(outcomes) == outcomes[IF outcomes[1] = "transient" THEN PageTries ELSE 1]

\* The charset of the header, of the page, or the one that reads more of a
\* broker's page, the first in a draw; one that cannot be read has no score.
Charset(header, meta, scores) ==
    IF header # {} THEN header
    ELSE IF meta # {} THEN meta
    ELSE LET readable == {c \in {"utf-8", "big5"} : scores[c] # {}}
             Score(c) == CHOOSE n \in scores[c] : TRUE
             best == {c \in readable : \A d \in readable : Score(c) >= Score(d)}
         IN  IF "utf-8" \in best THEN {"utf-8"} ELSE best

\* A date without a year is taken to be of the year asked for.
PageDate(shown, asOf) ==
    [year |-> IF shown.year = {} THEN asOf.year ELSE CHOOSE y \in shown.year : TRUE, day |-> shown.day]

\* Of a line of the table either half counts when its name and numbers are there;
\* the sign of the difference is that of the side.
Numbered(rows, side) ==
    [i \in DOMAIN rows |-> [side |-> side, rank |-> i, branch |-> rows[i].branch,
                            net |-> IF side = "BUY" THEN Abs(rows[i].net) ELSE -Abs(rows[i].net)]]
Parsed(lines) ==
    LET Halves(side) == [i \in DOMAIN lines |-> lines[i][side]]
        Rows(side) == SelectSeq(Halves(side), LAMBDA h : h # {})
        Given(side) == [i \in DOMAIN Rows(side) |-> CHOOSE r \in Rows(side)[i] : TRUE]
    IN  [buys |-> Numbered(Given("BUY"), "BUY"), sells |-> Numbered(Given("SELL"), "SELL")]

\* The window a page gives: nothing found, no date, another date, no rows.
RankedWindow(page, days, asOf) ==
    LET parsed == Parsed(page.lines)
        Is(status, date, rows) ==
            [provider |-> "none", days |-> days, status |-> status, asOf |-> asOf, rangeEnd |-> asOf,
             date |-> date, verified |-> date = {asOf}, rows |-> rows]
    IN  IF ~page.found \/ page.date = {} THEN Is("ERROR", {}, <<>>)
        ELSE IF page.date # {asOf} THEN Is("PENDING", page.date, <<>>)
        ELSE IF parsed.buys \o parsed.sells = <<>>
        THEN Is(IF page.saysNone THEN "READY_EMPTY" ELSE "ERROR", page.date, <<>>)
        ELSE Is("READY", page.date, parsed.buys \o parsed.sells)
-----------------------------------------------------------------------------
(* A branch over the windows: net[d] is what it is known to have bought on *)
(* balance in the window of d days.                                        *)

Structural == {5, 10, 20, 60}
Nets(net, days)    == UNION {net[d] : d \in days \cap DOMAIN net}
Agreement(net, days) ==
    LET signs == {Sign(n) : n \in Nets(net, days)} \ {0}
    IN  IF Cardinality(signs) = 1 THEN CHOOSE s \in signs : TRUE ELSE 0
Coverage(net) == {d \in Structural \cap DOMAIN net : net[d] \notin {{}, {0}}}

BranchPattern(net) ==
    LET short == Agreement(net, {5, 10})
        long == Agreement(net, {20, 60})
        Far(sign) == long = sign \/ \E n \in Nets(net, {60}) : Sign(n) = sign
        whole == IF Cardinality(Coverage(net)) >= 3 THEN Agreement(net, Structural) ELSE 0
    IN  IF whole = 1 THEN "PERSISTENT_ACCUMULATION"
        ELSE IF whole = -1 THEN "PERSISTENT_DISTRIBUTION"
        ELSE IF short = -1 /\ Far(1) THEN "SHORT_TERM_DISTRIBUTION_AGAINST_LONGER_ACCUMULATION"
        ELSE IF short = 1 /\ Far(-1) THEN "SHORT_TERM_ACCUMULATION_AGAINST_LONGER_DISTRIBUTION"
        ELSE IF Cardinality(Coverage(net)) < 2 THEN "INSUFFICIENT_RANKED_COVERAGE"
        ELSE "MIXED"

\* Every row of a window that is READY is an appearance of its branch; of two
\* rows of one branch the later, a sale, is kept.
BranchRow(windows, branch) ==
    LET Rows(d) == IF windows[d].status = "READY"
                   THEN SelectSeq(windows[d].rows, LAMBDA r : r.branch = branch) ELSE <<>>
        net == [d \in DOMAIN windows |-> IF Rows(d) = <<>> THEN {} ELSE {Rows(d)[Len(Rows(d))].net}]
        averages == UNION {{Abs(Scaled(r.net, d)) : r \in ToSet(Rows(d))} : d \in DOMAIN windows}
    IN  [branch |-> branch, net |-> net,
         appearances |-> FoldSet(LAMBDA d, sum : sum + Len(Rows(d)), 0, DOMAIN windows),
         largest |-> Max(averages \cup {0}),
         pattern |-> BranchPattern(net)]
BranchMatrix(windows) ==
    LET branches == UNION {{r.branch : r \in ToSet(windows[d].rows)} :
                            d \in {d \in DOMAIN windows : windows[d].status = "READY"}}
        Before(r, s) ==
            \/ r.appearances > s.appearances
            \/ r.appearances = s.appearances /\ r.largest > s.largest
            \/ r.appearances = s.appearances /\ r.largest = s.largest /\ r.branch < s.branch
    IN  SetToSortSeq({BranchRow(windows, b) : b \in branches}, Before)

UsableDays(windows) == {d \in DOMAIN windows : Usable(windows[d].status)}
BundleStatus(windows) ==
    IF UsableDays(windows) = DOMAIN windows THEN "READY"
    ELSE IF UsableDays(windows) # {} THEN "DEGRADED"
    ELSE IF \E d \in DOMAIN windows : windows[d].status = "PENDING" THEN "PENDING" ELSE "ERROR"
-----------------------------------------------------------------------------
(* Providers.                                                              *)

\* The bundle of the provider there is: it puts its name on what it is given.
MoneyDj(windows, asked, symbol, asOf) ==
    [provider |-> "MONEYDJ", symbol |-> symbol, asOf |-> asOf, asked |-> asked, same |-> TRUE,
     exact |-> TRUE, substitutes |-> FALSE, sums |-> FALSE, zeroes |-> FALSE,
     windows |-> [d \in ToSet(asked) |->
                    IF d \in DOMAIN windows THEN [windows[d] EXCEPT !.provider = "MONEYDJ"]
                    ELSE [provider |-> "MONEYDJ", days |-> 0, status |-> "none", asOf |-> 0,
                          rangeEnd |-> 0, date |-> {}, verified |-> FALSE, rows |-> <<>>]]]

WindowErrors(w, id, days, asOf) ==
    LET fails == [provider_mismatch |-> w.provider # id,
                  days_mismatch |-> w.days # days,
                  as_of_mismatch |-> w.asOf # asOf,
                  range_end_mismatch |-> w.rangeEnd # asOf,
                  source_date_mismatch |-> Usable(w.status) /\ w.date # {asOf},
                  unverified |-> Usable(w.status) /\ ~w.verified]
    IN  {e \in DOMAIN fails : fails[e]}
ContractErrors(b, id, symbol, asOf, asked) ==
    LET fails == [provider_mismatch |-> b.provider # id,
                  symbol_mismatch |-> b.symbol # symbol,
                  as_of_mismatch |-> b.asOf # asOf,
                  windows_mismatch |-> b.asked # asked,
                  same_provider_not_proven |-> ~b.same,
                  semantics_not_exact |-> ~b.exact,
                  substitution_forbidden |-> b.substitutes,
                  summing_forbidden |-> b.sums,
                  zero_forbidden |-> b.zeroes,
                  missing_window |-> ~ToSet(asked) \subseteq DOMAIN b.windows]
    IN  {e \in DOMAIN fails : fails[e]}
        \cup UNION {WindowErrors(b.windows[d], id, d, asOf) : d \in ToSet(asked) \cap DOMAIN b.windows}

Eligible(provider, asked) ==
    /\ provider.exactAsOf /\ provider.exactWindows
    /\ \A supported \in provider.supported : ToSet(asked) \subseteq supported

ReadyDays(b, asked) == {d \in ToSet(asked) \cap DOMAIN b.windows : Usable(b.windows[d].status)}

InOrder(providers) ==
    SetToSortSeq(providers, LAMBDA p, q : p.priority < q.priority \/ (p.priority = q.priority /\ p.id < q.id))

\* answers[id] is the bundle of a provider, or nothing when it throws.  The first
\* bundle that is whole is taken and nobody else is asked; without one, the first
\* of those with most windows.
Route(providers, answers, symbol, asOf, asked) ==
    LET order == InOrder(providers)
        Bundle(i) == CHOOSE b \in answers[order[i].id] : TRUE
        able == {i \in DOMAIN order : Eligible(order[i], asked)}
        valid == {i \in able : /\ answers[order[i].id] # {}
                               /\ ContractErrors(Bundle(i), order[i].id, symbol, asOf, asked) = {}}
        whole == {i \in valid : ReadyDays(Bundle(i), asked) = ToSet(asked)}
        most == {i \in valid : \A j \in valid :
                    Cardinality(ReadyDays(Bundle(i), asked)) >= Cardinality(ReadyDays(Bundle(j), asked))}
        chosen == IF whole # {} THEN {Min(whole)} ELSE IF most # {} THEN {Min(most)} ELSE {}
    IN  IF chosen = {}
        THEN [status |-> "ERROR", provider |-> {}, windows |-> <<>>, failover |-> FALSE, asks |-> able]
        ELSE LET b == Bundle(Min(chosen))
             IN  [status |-> IF ReadyDays(b, asked) = ToSet(asked) THEN "READY"
                             ELSE IF ReadyDays(b, asked) # {} THEN "DEGRADED"
                             ELSE IF \E d \in ToSet(asked) : b.windows[d].status = "PENDING"
                             THEN "PENDING" ELSE "ERROR",
                  provider |-> {order[Min(chosen)].id},
                  windows |-> b.windows,
                  failover |-> chosen # {Min(able)},
                  asks |-> IF whole # {} THEN {i \in able : i <= Min(whole)} ELSE able]
=============================================================================
