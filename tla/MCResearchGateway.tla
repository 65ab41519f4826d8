------------------------- MODULE MCResearchGateway -------------------------
(***************************************************************************)
(* Instances of ResearchGateway for TLC: overlapping calls of all three    *)
(* tools.  With it TLC evaluates the assumptions of ResearchChecks, on the *)
(* algorithms behind the tools.                                            *)
(***************************************************************************)
EXTENDS ResearchGateway, ResearchChecks

Tools  == {"replay", "review", "swing"}
=============================================================================
