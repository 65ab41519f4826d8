-------------------------- MODULE MCMarketReaders --------------------------
(***************************************************************************)
(* Instances of MarketReaders for TLC: two overlapping questions, a clock  *)
(* that outlives a promise.  The screens and the market tools, which ask   *)
(* such readers and compute, are checked on small inputs beside it.        *)
(***************************************************************************)
EXTENDS MarketReaders, ScreenChecks

CONSTANTS q1, q2

AllReaders == {"fast", "chip", "broker"}

\* Two questions to the fast path share the pages of lending, or one asks for
\* both layers; a snapshot asks for five pages at once, and one is enough.
Overlapping(r) ==
    LET Ask2(l1, l2) == [q \in {q1, q2} |-> IF q = q1 THEN l1 ELSE l2]
    IN  CASE r = "fast"   -> {Ask2({"margin", "sbl"}, {}), Ask2({"sbl"}, {"sbl"})}
          [] r = "chip"   -> {Ask2({"margin", "sbl"}, {})}
          [] r = "broker" -> {Ask2({"ranking"}, {"ranking"})}
=============================================================================
