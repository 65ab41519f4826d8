------------------------- MODULE MCMarketPublisher -------------------------
(***************************************************************************)
(* Small instances of MarketPublisher: dates with two-digit prefixes, as   *)
(* those indexed before the compact indexer, and one of one-digit prefixes.*)
(* The readers of what is stored and published are checked on small inputs *)
(* beside it.                                                              *)
(***************************************************************************)
EXTENDS MarketPublisher, ReadChecks, TLC

CONSTANTS w1, w2

OneDay      == 1..1
TwoDays     == 1..2
MCCompact   == {3}
MCLegacy    == {30, 31}
LegacyDay   == <<MCLegacy>>
LegacyDays  == <<MCLegacy, MCLegacy>>
CompactDay  == <<MCCompact>>

OneToAnother == Permutations(Workers)
=============================================================================
