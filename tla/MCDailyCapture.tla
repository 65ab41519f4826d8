--------------------------- MODULE MCDailyCapture ---------------------------
(***************************************************************************)
(* Small instances of DailyCapture: an institutional layer that the first  *)
(* checkpoint allows, a late layer that only the later ones do; two        *)
(* compact prefixes.  Three two-digit prefixes are more than two           *)
(* invocations finish before the first compact slice, as the seventy or so *)
(* of the real market are.                                                 *)
(***************************************************************************)
EXTENDS DailyCapture, TLC

CONSTANTS w1, w2, d1, d2

MCLayers     == {1, 2}
MCCompact    == {1, 2}
MCLegacy     == {11, 12, 13}
MCAllowed    == [c \in 1..MaxCheckpoint |-> IF c = 1 THEN {1} ELSE {1, 2}]
OneIsolate   == [w \in Workers |-> "i"]
TwoIsolates  == (w1 :> "i") @@ (w2 :> "j")

OneToAnother == Permutations(Workers) \cup Permutations(Datasets)
=============================================================================
