-------------------------- MODULE ResearchGateway --------------------------
(***************************************************************************)
(* Three research tools answered by the new deterministic engine with the  *)
(* old one behind it: the handlers of the cutover (compat-cutover.ts), the *)
(* gateway they call (research-gateway.ts) and the budget it asks of every *)
(* input (resource-policy.ts).                                             *)
(*                                                                         *)
(* The calls of a session share one promise of the gateway and one of the  *)
(* facade behind it, each made by the first call that needs it.  A call    *)
(* runs from one await to the next; a timer may give an operation up that  *)
(* goes on running.  Engines, tools and module loading are external.       *)
(***************************************************************************)
EXTENDS Naturals

CONSTANTS
    Calls,       \* calls of the three tools, in one session
    Lanes        \* the tools called

ASSUME GatewayAssumption == Lanes \subseteq {"replay", "review", "swing"}

Parts == 1 .. 2       \* a review asks twice: the stocks, then the futures

Loads  == {"none", "loading", "ready", "failed"}
\* What the engines come to, against what the old one has said.
Values == {"legacy", "agrees", "drifts"}

VARIABLES
    loaded,   \* loaded["gateway"], loaded["facade"]: the cached promises
    lane,     \* the tool of a call
    pc,       \* the await a call is at
    part,     \* the part of the answer it asks for
    taken,    \* taken[c][p]: what it has taken as part p, and of which part that was
    ops,      \* ops[c][p]: the operation of part p
    runs      \* how often the old tool has run for it

vars == <<loaded, lane, pc, part, taken, ops, runs>>

Last(c) == IF lane[c] = "review" THEN 2 ELSE 1
Go(c, where) == pc' = [pc EXCEPT ![c] = where]

NotTaken == [value |-> "none", of |-> 0]

Init ==
    /\ loaded = [m \in {"gateway", "facade"} |-> "none"]
    /\ lane \in [Calls -> Lanes]
    /\ pc = [c \in Calls |-> "idle"] /\ part = [c \in Calls |-> 1]
    /\ taken = [c \in Calls |-> [p \in Parts |-> NotTaken]]
    /\ ops = [c \in Calls |-> [p \in Parts |-> "none"]]
    /\ runs = [c \in Calls |-> 0]

(***************************************************************************)
(* The promises: made when first asked for, and kept whatever they come to.*)
(***************************************************************************)

Ask(m) == loaded' = [loaded EXCEPT ![m] = IF @ = "none" THEN "loading" ELSE @]

Settled(m) == loaded[m] \in {"ready", "failed"}

\* The loader, which is external, resolves or rejects.
LoaderSettles(m) ==
    /\ loaded[m] = "loading"
    /\ \E r \in {"ready", "failed"} : loaded' = [loaded EXCEPT ![m] = r]
    /\ UNCHANGED <<lane, pc, part, taken, ops, runs>>

(***************************************************************************)
(* Handlers of the cutover.                                                *)
(***************************************************************************)

\* A replay asks the new engine first; the others run the old tool first.
Receive(c) ==
    /\ pc[c] = "idle"
    /\ IF lane[c] = "replay"
       THEN Go(c, "gateway") /\ Ask("gateway") /\ UNCHANGED runs
       ELSE Go(c, "legacy") /\ runs' = [runs EXCEPT ![c] = @ + 1] /\ UNCHANGED loaded
    /\ UNCHANGED <<lane, part, taken, ops>>

\* The old tool throws, answers what the handler passes on as it is (an error,
\* or no summary), or answers what the new engine is asked about.
LegacyAnswers(c) ==
    /\ pc[c] = "legacy"
    /\ \/ Go(c, "threw") /\ UNCHANGED loaded
       \/ Go(c, "answered") /\ UNCHANGED loaded
       \/ lane[c] # "replay" /\ Go(c, "gateway") /\ Ask("gateway")
    /\ UNCHANGED <<lane, part, taken, ops, runs>>

\* A part is there: the next is asked for, or all are compared.
Took(c, p, value) ==
    /\ taken' = [taken EXCEPT ![c][part[c]] = [value |-> value, of |-> p]]
    /\ IF part[c] < Last(c)
       THEN Go(c, "gateway") /\ part' = [part EXCEPT ![c] = @ + 1]
       ELSE Go(c, "compare") /\ UNCHANGED part

\* Mutant of FallsBack: a review falls back to another run of the old tool.
FallsBackToRun(c) ==
    /\ runs' = [runs EXCEPT ![c] = @ + 1]
    /\ IF lane[c] = "replay"
       THEN Go(c, "legacy") /\ UNCHANGED <<part, taken>>
       ELSE Took(c, part[c], "legacy")

\* The fallback of a replay runs the old tool; that of the others has what it
\* has answered.
FallsBack(c) ==
    IF lane[c] = "replay"
    THEN /\ Go(c, "legacy")
         /\ runs' = [runs EXCEPT ![c] = @ + 1]
         /\ UNCHANGED <<part, taken>>
    ELSE Took(c, part[c], "legacy") /\ UNCHANGED runs

\* The gateway is there, or its promise has rejected.  An input over the budget
\* is refused before an operation is begun.
Invoke(c) ==
    /\ pc[c] = "gateway" /\ Settled("gateway")
    /\ \/ loaded["gateway"] = "failed" /\ FallsBack(c) /\ UNCHANGED <<loaded, ops>>
       \/ loaded["gateway"] = "ready" /\ FallsBack(c) /\ UNCHANGED <<loaded, ops>>
       \/ /\ loaded["gateway"] = "ready"
          /\ Go(c, "invoked") /\ Ask("facade")
          /\ ops' = [ops EXCEPT ![c][part[c]] = "facade"]
          /\ UNCHANGED <<part, taken, runs>>
    /\ UNCHANGED lane

\* Mutant of Awaits: whatever the call waits for, an operation of it will do.
AwaitsAny(c, p) == pc[c] = "invoked"

\* The call still waits for operation p: its timer has not fired.
Awaits(c, p) == pc[c] = "invoked" /\ part[c] = p

\* The operation of part p ends, with a value or not.
Ends(c, p, value) ==
    /\ ops' = [ops EXCEPT ![c][p] = "ended"]
    /\ \/ ~Awaits(c, p) /\ UNCHANGED <<pc, part, taken, runs>>
       \/ Awaits(c, p) /\ value = "none" /\ FallsBack(c)
       \/ Awaits(c, p) /\ value # "none" /\ Took(c, p, value) /\ UNCHANGED runs

\* The facade is there.  The metrics and the ranking are computed at once,
\* a replay may take its time.
Dispatch(c, p) ==
    /\ ops[c][p] = "facade" /\ Settled("facade")
    /\ \/ loaded["facade"] = "failed" /\ Ends(c, p, "none")
       \/ /\ loaded["facade"] = "ready" /\ lane[c] # "replay"
          /\ \E v \in {"none", "agrees", "drifts"} : Ends(c, p, v)
       \/ /\ loaded["facade"] = "ready" /\ lane[c] = "replay"
          /\ ops' = [ops EXCEPT ![c][p] = "computing"]
          /\ UNCHANGED <<pc, part, taken, runs>>
    /\ UNCHANGED <<lane, loaded>>

\* The engine, which is external, has replayed, or has failed.  Nothing
\* compares a replay with the old tool's.
Compute(c, p) ==
    /\ ops[c][p] = "computing"
    /\ \E v \in {"none", "agrees", "drifts"} : Ends(c, p, v)
    /\ UNCHANGED <<lane, loaded>>

\* Mutant of TimesOut: the timer is set when the facade is there.
TimesOutLoaded(c) ==
    /\ pc[c] = "invoked"
    /\ ops[c][part[c]] = "computing"
    /\ FallsBack(c)
    /\ UNCHANGED <<lane, loaded, ops>>

\* withTimeout: an operation that waits is given up, and goes on.
TimesOut(c) ==
    /\ pc[c] = "invoked"
    /\ ops[c][part[c]] = "computing" \/ loaded["facade"] = "loading"
    /\ FallsBack(c)
    /\ UNCHANGED <<lane, loaded, ops>>

\* Some part is not what the old tool says.
Drifted(c) == \E p \in Parts : taken[c][p].value = "drifts"

\* The answer is the new engine's, but the old tool's when a part of it drifts.
Compare(c) ==
    /\ pc[c] = "compare"
    /\ Go(c, IF lane[c] # "replay" /\ Drifted(c) THEN "answered" ELSE "renewed")
    /\ UNCHANGED <<lane, loaded, part, taken, ops, runs>>

Step(c) == Invoke(c) \/ Compare(c)

Next ==
    \/ \E m \in DOMAIN loaded : LoaderSettles(m)
    \/ \E c \in Calls : Receive(c) \/ LegacyAnswers(c) \/ Step(c) \/ TimesOut(c)
    \/ \E c \in Calls, p \in Parts : Dispatch(c, p) \/ Compute(c, p)
    \/ (\A c \in Calls : pc[c] \in {"answered", "renewed", "threw"}) /\ UNCHANGED vars

Spec == Init /\ [][Next]_vars

\* The runtime goes on, timers fire, the gateway's module is loaded or refused
\* and the old tool answers or throws.  Nothing is asked of the facade's loader
\* or of the engine.
Fairness ==
    /\ WF_vars(LoaderSettles("gateway"))
    /\ \A c \in Calls : /\ WF_vars(LegacyAnswers(c)) /\ WF_vars(Step(c))
                        /\ WF_vars(TimesOut(c))
                        /\ \A p \in Parts : WF_vars(Dispatch(c, p))

FairSpec == Spec /\ Fairness
-----------------------------------------------------------------------------
\* The variables stay in their types.
TypeOK ==
    /\ loaded \in [{"gateway", "facade"} -> Loads]
    /\ lane \in [Calls -> Lanes]
    /\ pc \in [Calls -> {"idle", "legacy", "gateway", "invoked", "compare",
                         "answered", "renewed", "threw"}]
    /\ part \in [Calls -> Parts]
    /\ taken \in [Calls -> [Parts -> [value : Values \cup {"none"}, of : Parts \cup {0}]]]
    /\ ops \in [Calls -> [Parts -> {"none", "facade", "computing", "ended"}]]
    /\ runs \in [Calls -> Nat]

\* The old tool, which records what it reviews, runs once for a review or a
\* selection that is answered, however often the new engine fails or is given
\* up, and for a replay not at all unless its answer is passed on
\* (invokeWithFallback and the handlers of the cutover).
LegacyRunsOnce ==
    \A c \in Calls :
        /\ runs[c] <= 1
        /\ pc[c] \in {"answered", "threw"} => runs[c] = 1
        /\ pc[c] = "renewed" => runs[c] = IF lane[c] = "replay" THEN 0 ELSE 1

\* A replay that is not answered by the old tool has not run it.
ReplayRunsLate ==
    \A c \in Calls : lane[c] = "replay" =>
        runs[c] = IF pc[c] \in {"legacy", "answered", "threw"} THEN 1 ELSE 0

\* A review or a selection has run it once from the start.
OthersRunFirst ==
    \A c \in Calls : lane[c] # "replay" => runs[c] = IF pc[c] = "idle" THEN 0 ELSE 1

\* The parts before the one that is asked for are taken, each of its own
\* operation; when they are compared all are.
PartsAreTheirOwn ==
    \A c \in Calls :
        /\ part[c] <= Last(c)
        /\ pc[c] \in {"idle", "legacy"} => part[c] = 1
        /\ \A p \in 1 .. Last(c) :
            p < part[c] \/ pc[c] \in {"compare", "renewed"} =>
                /\ taken[c][p].of = p
                /\ taken[c][p].value # "none"

\* The calls are well formed, none has run a proven handler twice, and none
\* takes what an operation it has given up comes to (runContained).
GatewayInv ==
    /\ TypeOK /\ LegacyRunsOnce
    /\ ReplayRunsLate /\ OthersRunFirst /\ PartsAreTheirOwn

\* A review or a selection whose summary is replaced says what the old tool
\* has said in every part, and each part comes from an operation that was
\* asked for that part: an operation given up is never mistaken for the next
\* one (withTimeout, the drift checks of the handlers).
MeaningIsKept ==
    \A c \in Calls : pc[c] = "renewed" =>
        \A p \in 1 .. Last(c) :
            /\ taken[c][p].of = p
            /\ lane[c] # "replay" => taken[c][p].value \in {"legacy", "agrees"}

\* A call is answered, or throws with the old tool, even if the facade never
\* loads or the engine never returns (the timeout of invoke).
EveryCallIsAnswered ==
    \A c \in Calls :
        pc[c] # "idle" ~> pc[c] \in {"answered", "renewed", "threw"}
=============================================================================
