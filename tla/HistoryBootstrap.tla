-------------------------- MODULE HistoryBootstrap --------------------------
(***************************************************************************)
(* The one-shot history bootstrap: runMarketData360dBackfillStep, staging  *)
(* and month builder of History Builder V2.  A cursor walks from the day   *)
(* before the anchor date down to the retention target.  A date that is    *)
(* complete but not indexed is staged, a few symbol prefixes per unit.     *)
(* When the cursor has passed the target, months are built: the staged     *)
(* rows go into the month's shards, prefix by prefix, and the manifests of *)
(* the staged dates become READY.                                          *)
(*                                                                         *)
(* Wakes overlap.  Every unit decides on the backfill state it read, and   *)
(* writes a whole state made from it.  A store call is one step, and a     *)
(* multi-file commit has one attempt: it succeeds or the unit ends.        *)
(***************************************************************************)
EXTENDS Naturals, FiniteSets

CONSTANTS
    Workers,     \* invocations that may overlap
    Anchor,      \* the date of the first wake; the daily lane captures it
    Target,      \* the first date of the retention window
    Month,       \* Month[d]: the month of date d
    Trading,     \* the dates on which the market is open
    Prefixes,    \* symbol prefixes (ten digits in the code)
    MaxPrefixes, \* prefixes staged in one unit (3 in the code)
    MaxFinalize, \* manifests finalized in one unit (4 in the code)
    Starts,      \* what a deployment may find: a state and manifests
    NoState,
    MaxFaults    \* bound: units that yield, fail or are evicted

Days     == 0..Anchor
Window   == Target..(Anchor - 1)
Statuses == {"partial", "legacy", "complete", "ready", "closed"}
States   == [status : {"RUNNING", "COMPLETE"}, phase : {"none", "CAPTURE", "BUILD"},
             cursor : Days, target : 0..Target]

ASSUME BootstrapAssumption ==
    /\ Anchor \in Nat /\ Target \in 1..(Anchor - 1)
    /\ Month \in [Days -> Nat]
    /\ \A d, e \in Days : d <= e => Month[d] <= Month[e]
    /\ Trading \subseteq Days /\ Anchor \in Trading
    /\ Prefixes \subseteq Nat /\ Prefixes # {} /\ IsFiniteSet(Prefixes)
    /\ MaxPrefixes \in Nat \ {0} /\ MaxFinalize \in Nat \ {0} /\ MaxFaults \in Nat
    /\ NoState \notin States
    /\ \A s \in Starts :
         /\ s.state \in States \cup {NoState}
         /\ s.manifest \in [Days -> Statuses]
         /\ \A d \in Window :
              /\ s.manifest[d] = "closed" => d \notin Trading
              /\ s.manifest[d] \in {"legacy", "complete", "ready"} => d \in Trading
         /\ s.state # NoState =>
              /\ s.state.status = "RUNNING" /\ s.state.cursor < Anchor
              /\ s.state.phase = "BUILD" => s.state.cursor < s.state.target
              /\ \A d \in Window : d > s.state.cursor => s.manifest[d] \in {"closed", "ready"}

VARIABLES
    state,      \* data/market-data/backfill/360d-state.json
    manifest,   \* manifest[d]: partial, legacy (eight READY layers that no one
                \* has called complete), complete, ready (complete and indexed),
                \* closed (no trading day)
    files,      \* <<d, p>>: the staged prefix files
    progress,   \* progress[d]: completed_prefixes of d's stage.json
    catalogue,  \* staged_trade_dates of all months
    build,      \* build[m]: the month's build.json
    shard,      \* shard[p][d]: how often d's rows are in the shard of its month
    pc,         \* where each invocation is in its unit
    mine,       \* the state it works on, or will write
    found,      \* completed prefixes it read
    chosen,     \* prefixes it is about to stage
    month,      \* the month it builds
    dates,      \* the staged dates it saw of that month
    batch,      \* the dates whose manifests it finalizes
    faults

stored == <<manifest, files, progress, catalogue, build, shard>>
plan   == <<found, chosen, month, dates, batch>>
vars   == <<state, manifest, files, progress, catalogue, build, shard, pc, mine,
            found, chosen, month, dates, batch, faults>>

Max2(a, b) == IF a < b THEN b ELSE a
First(S, n) == {x \in S : Cardinality({y \in S : y < x}) < n}
Least(S) == CHOOSE x \in S : \A y \in S : x <= y

Go(w, where) == pc' = [pc EXCEPT ![w] = where]

\* The unit is over.
Leave(w) ==
    /\ Go(w, "idle")
    /\ mine' = [mine EXCEPT ![w] = NoState]
    /\ found' = [found EXCEPT ![w] = {}]
    /\ chosen' = [chosen EXCEPT ![w] = {}]
    /\ month' = [month EXCEPT ![w] = 0]
    /\ dates' = [dates EXCEPT ![w] = {}]
    /\ batch' = [batch EXCEPT ![w] = {}]

\* The unit goes on to write s.
Write(w, s) ==
    /\ Go(w, "persist")
    /\ mine' = [mine EXCEPT ![w] = s]
    /\ UNCHANGED plan

(***************************************************************************)
(* The state and the cursor.                                               *)
(***************************************************************************)

\* initialMarketDataBackfillState
Initial == [status |-> "RUNNING", phase |-> "CAPTURE", cursor |-> Anchor - 1,
            target |-> Target]

\* refreshBackfillAnchor: a state of the longer retention shrinks, a state
\* without a phase gets one.  The cursor stays.
Refreshed(s) ==
    [s EXCEPT !.phase = IF @ # "none" THEN @
                        ELSE IF s.cursor < s.target THEN "BUILD" ELSE "CAPTURE",
              !.target = Max2(@, Target)]

\* The state after the date of the cursor is done.
Advanced(s) ==
    [s EXCEPT !.cursor = @ - 1,
              !.phase = IF s.cursor - 1 < s.target THEN "BUILD" ELSE "CAPTURE"]

\* Reads the state.  A state that must be created, migrated or turned to BUILD
\* is written, and nothing else is done in the unit.
Begin(w) ==
    /\ pc[w] = "idle"
    /\ IF state = NoState THEN Write(w, Initial)
       ELSE LET s == Refreshed(state) IN
            IF state.status = "COMPLETE" THEN UNCHANGED <<pc, mine, plan>>
            ELSE IF s # state THEN Write(w, s)
            ELSE IF s.phase = "BUILD" \/ s.cursor >= s.target
                 THEN /\ Go(w, IF s.phase = "BUILD" THEN "scan" ELSE "prepare")
                      /\ mine' = [mine EXCEPT ![w] = s]
                      /\ UNCHANGED plan
            ELSE Write(w, [s EXCEPT !.phase = "BUILD"])
    /\ UNCHANGED <<state, stored, faults>>

\* persistState: only COMPLETE is not replaced.
Persist(w) ==
    /\ pc[w] = "persist"
    /\ state' = IF state # NoState /\ state.status = "COMPLETE" THEN state ELSE mine[w]
    /\ Leave(w)
    /\ UNCHANGED <<stored, faults>>

(***************************************************************************)
(* CAPTURE: the date of the cursor.                                        *)
(***************************************************************************)

\* Mutant of Prepare: a complete date needs nothing more.
PrepareComplete(w) ==
    /\ pc[w] = "prepare"
    /\ \/ /\ manifest[mine[w].cursor] \in {"ready", "complete"}
          /\ Write(w, Advanced(mine[w]))
       \/ /\ manifest[mine[w].cursor] \notin {"ready", "complete"}
          /\ Go(w, IF manifest[mine[w].cursor] = "legacy" THEN "promote" ELSE "capture")
          /\ UNCHANGED <<mine, plan>>
    /\ UNCHANGED <<state, stored, faults>>

\* Reads the manifest.  An indexed date needs nothing, a complete one is
\* staged, one with all layers is promoted first, any other is captured.
Prepare(w) ==
    /\ pc[w] = "prepare"
    /\ LET now == manifest[mine[w].cursor] IN
       \/ now = "ready" /\ Write(w, Advanced(mine[w]))
       \/ now = "complete" /\ Go(w, "catalogue") /\ UNCHANGED <<mine, plan>>
       \/ now = "legacy" /\ Go(w, "promote") /\ UNCHANGED <<mine, plan>>
       \/ /\ now \in {"partial", "closed"}
          /\ Go(w, "capture") /\ UNCHANGED <<mine, plan>>
    /\ UNCHANGED <<state, stored, faults>>

\* prepareHistoryManifest: promotes what is still to promote.
Promote(w) ==
    /\ pc[w] = "promote"
    /\ manifest' = [manifest EXCEPT ![mine[w].cursor] = IF @ = "legacy" THEN "complete" ELSE @]
    /\ Go(w, "catalogue")
    /\ UNCHANGED <<state, files, progress, catalogue, build, shard, mine, plan, faults>>

\* runSubrequestSafeMarketDataCapture reads the manifest again.  Units that
\* close the date, or find it closed or indexed, advance; the one that captures
\* the last layer does not, nor does one that finds another has done so.
Capture(w) ==
    /\ pc[w] = "capture"
    /\ LET d == mine[w].cursor IN
       \/ /\ manifest[d] \in {"closed", "ready"}
          /\ Write(w, Advanced(mine[w]))
          /\ UNCHANGED manifest
       \/ /\ manifest[d] = "complete"
          /\ Leave(w)
          /\ UNCHANGED manifest
       \/ /\ manifest[d] = "partial" /\ d \notin Trading
          /\ manifest' = [manifest EXCEPT ![d] = "closed"]
          /\ Write(w, Advanced(mine[w]))
       \/ /\ manifest[d] = "partial" /\ d \in Trading
          /\ manifest' = [manifest EXCEPT ![d] = "complete"]
          /\ Leave(w)
    /\ UNCHANGED <<state, files, progress, catalogue, build, shard, faults>>

\* Mutant of ReadCatalogue: a date found staged does not count as captured.
ReadCatalogueStays(w) ==
    /\ pc[w] = "catalogue"
    /\ IF mine[w].cursor \in catalogue
       THEN Leave(w)
       ELSE Go(w, "progress") /\ UNCHANGED <<mine, plan>>
    /\ UNCHANGED <<state, stored, faults>>

\* stageHistoryDayV2: a catalogued date has been staged.
ReadCatalogue(w) ==
    /\ pc[w] = "catalogue"
    /\ IF mine[w].cursor \in catalogue
       THEN Write(w, Advanced(mine[w]))
       ELSE Go(w, "progress") /\ UNCHANGED <<mine, plan>>
    /\ UNCHANGED <<state, stored, faults>>

\* Reads the progress and takes on the first missing prefixes, as many as the
\* budget admits.
ReadProgress(w) ==
    /\ pc[w] = "progress"
    /\ LET done == progress[mine[w].cursor] IN
       \E n \in 1..MaxPrefixes :
         /\ found' = [found EXCEPT ![w] = done]
         /\ chosen' = [chosen EXCEPT ![w] = First(Prefixes \ done, n)]
    /\ Go(w, "stage")
    /\ UNCHANGED <<state, stored, mine, month, dates, batch, faults>>

\* Decided on the progress the unit read, not on what it is now.
CompletesDay(w) == found[w] \cup chosen[w] = Prefixes

\* One commit: the prefix files, which never differ because a complete date
\* keeps its layers; the progress; and with the last prefix the catalogue.
Stage(w) ==
    /\ pc[w] = "stage"
    /\ LET d == mine[w].cursor IN
       /\ files' = files \cup ({d} \X chosen[w])
       /\ progress' = [progress EXCEPT ![d] =
                         IF chosen[w] = {} THEN Prefixes ELSE @ \cup chosen[w]]
       /\ IF CompletesDay(w)
          THEN catalogue' = catalogue \cup {d} /\ Write(w, Advanced(mine[w]))
          ELSE UNCHANGED catalogue /\ Leave(w)
    /\ UNCHANGED <<state, manifest, build, shard, faults>>

(***************************************************************************)
(* BUILD: runHistoryMonthBuildV2.                                          *)
(***************************************************************************)

Required(s) == {Month[d] : d \in s.target..Anchor}

StagedOf(m) == {d \in catalogue : Month[d] = m}

\* filteredStagedDates
StagedInRange(s, m) == {d \in StagedOf(m) : s.target <= d /\ d <= Anchor}

NoBuild == [status |-> "none", completed |-> {}, finalized |-> {}]

\* Months from the latest down: the first that is not READY gets the next
\* prefix, or the next batch of manifests.  The catalogue is complete by then,
\* and a READY that a late prefix takes back is given again: what READY says of
\* the manifests stays, so the reads of all months are one step.
Scan(w) ==
    /\ pc[w] = "scan"
    /\ LET todo == {m \in Required(mine[w]) : StagedOf(m) = {} \/ build[m].status # "READY"}
           m    == CHOOSE x \in todo : \A y \in todo : y <= x
           ours == StagedInRange(mine[w], m)
       IN  IF todo = {}
           THEN Write(w, [mine[w] EXCEPT !.status = "COMPLETE"])
           ELSE IF StagedOf(m) = {} THEN Leave(w)
           ELSE /\ month' = [month EXCEPT ![w] = m]
                /\ dates' = [dates EXCEPT ![w] = ours]
                /\ found' = [found EXCEPT ![w] = build[m].completed]
                /\ batch' = [batch EXCEPT ![w] = First(ours \ build[m].finalized, MaxFinalize)]
                /\ Go(w, IF build[m].completed = Prefixes THEN "finalize" ELSE "shard")
                /\ UNCHANGED <<mine, chosen>>
    /\ UNCHANGED <<state, stored, faults>>

\* Mutant of Merged: the shard is written from the staged dates alone.
MergedAlone(rows, staged) == [d \in Days |-> IF d \in staged THEN 1 ELSE 0]

\* mergeDailyPrefixIntoMonth: removeStagedDates, then the staged rows.
Merged(rows, staged) == [d \in Days |-> IF d \in staged THEN 1 ELSE rows[d]]

\* buildOnePrefix: one commit of the shard and of the month's build.  A
\* catalogued date without its file makes the unit throw.
BuildPrefix(w) ==
    /\ pc[w] = "shard"
    /\ LET p == Least(Prefixes \ found[w])
           m == month[w]
           completed == build[m].completed \cup {p}
       IN  IF \E d \in dates[w] : <<d, p>> \notin files
           THEN UNCHANGED <<shard, build>>
           ELSE /\ shard' = [shard EXCEPT ![p] = Merged(@, dates[w])]
                /\ build' = [build EXCEPT ![m].completed = completed,
                                          ![m].status = IF completed = Prefixes
                                                        THEN "FINALIZING" ELSE "BUILDING"]
    /\ Leave(w)
    /\ UNCHANGED <<state, manifest, files, progress, catalogue, faults>>

\* Mutant of Sealed: the batch a unit finalizes is taken for the rest.
SealedByBatch(staged, finalized) == TRUE

\* The month is READY when all its staged dates are finalized.
Sealed(staged, finalized) == staged \subseteq finalized

\* finalizeManifestBatch: one commit of the manifests and of the build.
Finalize(w) ==
    /\ pc[w] = "finalize"
    /\ LET m == month[w]
           finalized == build[m].finalized \cup batch[w]
       IN  /\ manifest' = [d \in Days |-> IF d \in batch[w] THEN "ready" ELSE manifest[d]]
           /\ build' = [build EXCEPT ![m].finalized = finalized,
                                     ![m].status = IF Sealed(dates[w], finalized)
                                                   THEN "READY" ELSE "FINALIZING"]
    /\ Leave(w)
    /\ UNCHANGED <<state, files, progress, catalogue, shard, faults>>

\* A yield for time, budget or a lost race for the branch; a provider or
\* calendar without an answer; an exception or an eviction.
Fail(w) ==
    /\ pc[w] # "idle"
    /\ faults < MaxFaults
    /\ faults' = faults + 1
    /\ Leave(w)
    /\ UNCHANGED <<state, stored>>

(***************************************************************************)
(* The daily lane indexes the anchor date: one slice is one commit, the    *)
(* last one with the manifest (DailyCapture, SliceCommit).                 *)
(***************************************************************************)

DailyIndex(p) ==
    /\ manifest[Anchor] = "complete"
    /\ shard[p][Anchor] = 0
    /\ shard' = [shard EXCEPT ![p] = Merged(@, {Anchor})]
    /\ manifest' = [manifest EXCEPT ![Anchor] =
                      IF \A q \in Prefixes \ {p} : shard[q][Anchor] = 1 THEN "ready" ELSE @]
    /\ UNCHANGED <<state, files, progress, catalogue, build, pc, mine, plan, faults>>

(***************************************************************************)
(* Specification.                                                          *)
(***************************************************************************)

Init ==
    /\ \E s \in Starts : state = s.state /\ manifest = s.manifest
    /\ files = {} /\ catalogue = {}
    /\ progress = [d \in Days |-> {}]
    /\ build = [m \in {Month[d] : d \in Days} |-> NoBuild]
    /\ shard = [p \in Prefixes |-> [d \in Days |-> IF manifest[d] = "ready" THEN 1 ELSE 0]]
    /\ pc = [w \in Workers |-> "idle"]
    /\ mine = [w \in Workers |-> NoState]
    /\ found = [w \in Workers |-> {}]
    /\ chosen = [w \in Workers |-> {}]
    /\ month = [w \in Workers |-> 0]
    /\ dates = [w \in Workers |-> {}]
    /\ batch = [w \in Workers |-> {}]
    /\ faults = 0

Step(w) ==
    \/ Begin(w) \/ Persist(w) \/ Prepare(w) \/ Promote(w) \/ Capture(w)
    \/ ReadCatalogue(w) \/ ReadProgress(w) \/ Stage(w)
    \/ Scan(w) \/ BuildPrefix(w) \/ Finalize(w)

Next ==
    \/ \E w \in Workers : Step(w) \/ Fail(w)
    \/ \E p \in Prefixes : DailyIndex(p)

Spec == Init /\ [][Next]_vars

\* Wakes come again and a unit that is not cut off goes on.
FairSpec == Spec /\ \A w \in Workers : WF_vars(Step(w))

(***************************************************************************)
(* Properties.                                                             *)
(***************************************************************************)

TypeOK ==
    /\ state \in States \cup {NoState}
    /\ manifest \in [Days -> Statuses]
    /\ files \subseteq Days \X Prefixes
    /\ progress \in [Days -> SUBSET Prefixes]
    /\ catalogue \subseteq Days
    /\ build \in [{Month[d] : d \in Days} ->
                    [status : {"none", "BUILDING", "FINALIZING", "READY"},
                     completed : SUBSET Prefixes, finalized : SUBSET Days]]
    /\ shard \in [Prefixes -> [Days -> Nat]]
    /\ pc \in [Workers -> {"idle", "persist", "prepare", "promote", "capture", "catalogue",
                           "progress", "stage", "scan", "shard", "finalize"}]
    /\ mine \in [Workers -> States \cup {NoState}]
    /\ found \in [Workers -> SUBSET Prefixes]
    /\ chosen \in [Workers -> SUBSET Prefixes]
    /\ month \in [Workers -> {0} \cup {Month[d] : d \in Days}]
    /\ dates \in [Workers -> SUBSET Days]
    /\ batch \in [Workers -> SUBSET Days]
    /\ faults \in 0..MaxFaults

\* A date is dealt with: closed, indexed, or staged for the builder.
Handled(d) == manifest[d] \in {"closed", "ready"} \/ d \in catalogue

\* The cursor never passes a date that is not dealt with, although overlapping
\* units write back states they made from old ones (persistState).
HandledAboveCursor ==
    state # NoState => \A d \in Window : d > state.cursor => Handled(d)

\* A catalogued date has the files of all prefixes, although the unit that
\* catalogues it has only its own read of the progress to go by.
StagedIsWhole == \A d \in catalogue : {d} \X Prefixes \subseteq files

\* No shard has the rows of a date twice: a prefix may be built by two units,
\* and the daily lane writes to the same shards (mergeDailyPrefixIntoMonth).
RowsAreOnce == \A p \in Prefixes, d \in Days : shard[p][d] <= 1

\* A manifest that says READY has its rows in the shard of every prefix.
ReadyMeansRows ==
    \A d \in Days : manifest[d] = "ready" => \A p \in Prefixes : shard[p][d] >= 1

\* No date of the window is left out of the index.
Whole == \A d \in Window : manifest[d] = (IF d \in Trading THEN "ready" ELSE "closed")

\* The terminal audit: a bootstrap that is COMPLETE has left no date of the
\* window out of the index.
CompleteIsWhole == state # NoState /\ state.status = "COMPLETE" => Whole

\* The staging of the window is over, and stays so.
AllHandled == \A d \in Window : Handled(d)

\* A state, stored or in the hands of a unit, never claims more than is done.
Sound(s) ==
    /\ s.cursor < Anchor
    /\ \A d \in Window : d > s.cursor => Handled(d)
    /\ s.phase = "BUILD" => s.cursor < Target
    /\ s.status = "COMPLETE" => Whole

StatesAreSound ==
    /\ state # NoState => Sound(state)
    /\ \A w \in Workers : pc[w] # "idle" => mine[w] \in States /\ Sound(mine[w])

\* A manifest, a catalogue and a progress agree with the calendar and the files.
DatesAreSound ==
    /\ \A d \in Window :
         /\ manifest[d] = "closed" => d \notin Trading
         /\ manifest[d] \in {"legacy", "complete", "ready"} => d \in Trading
    /\ \A d \in catalogue : d \in Window /\ manifest[d] \in {"complete", "ready"}
    /\ \A d \in Days : {d} \X progress[d] \subseteq files

\* A unit that stages has a date of the window, whole or catalogued before, and
\* the files of the progress it read.
StagingIsSound ==
    \A w \in Workers :
      LET d == mine[w].cursor IN
      /\ pc[w] \in {"prepare", "promote", "capture", "catalogue", "progress", "stage"} =>
           Target <= d /\ mine[w].target = Target
      /\ pc[w] = "promote" => manifest[d] \in {"legacy", "complete"} \/ d \in catalogue
      /\ pc[w] \in {"catalogue", "progress", "stage"} =>
           manifest[d] = "complete" \/ d \in catalogue
      /\ pc[w] = "stage" => /\ {d} \X found[w] \subseteq files
                            /\ chosen[w] = {} => found[w] = Prefixes

\* A unit that builds comes after the staging, so the dates it saw of its month
\* are still all of them.
BuildingIsSound ==
    \A w \in Workers :
      /\ pc[w] \in {"scan", "shard", "finalize"} =>
           mine[w].cursor < Target /\ mine[w].target = Target
      /\ pc[w] \in {"shard", "finalize"} =>
           month[w] \in {Month[d] : d \in Days} /\ dates[w] = StagedOf(month[w])
      /\ pc[w] = "shard" => found[w] # Prefixes
      /\ pc[w] = "finalize" => /\ build[month[w]].completed = Prefixes
                               /\ batch[w] \subseteq dates[w]

\* What a month's build says is done is done, and none was begun before the
\* staging was over.
BuildsAreSound ==
    \A m \in {Month[d] : d \in Days} :
      /\ build[m] # NoBuild => AllHandled
      /\ \A p \in build[m].completed, d \in StagedOf(m) : shard[p][d] >= 1
      /\ \A d \in build[m].finalized : manifest[d] = "ready"
      /\ build[m].status = "READY" => StagedOf(m) \subseteq build[m].finalized

\* Whatever wakes overlap, what a catalogue or a manifest promises is there,
\* once, and every unit still holds what it relies on (stageHistoryUnit,
\* buildHistoryMonth, persistState).
HistoryInv ==
    /\ TypeOK /\ StagedIsWhole /\ RowsAreOnce /\ ReadyMeansRows
    /\ StatesAreSound /\ DatesAreSound /\ StagingIsSound /\ BuildingIsSound
    /\ BuildsAreSound

\* Every required month has a date that the bootstrap will stage.
EveryMonthHasHistory ==
    LET cursor == IF state = NoState THEN Anchor - 1 ELSE state.cursor IN
    \A m \in {Month[d] : d \in Target..Anchor} :
        \E d \in Window \cap Trading :
            Month[d] = m /\ d <= cursor /\ manifest[d] # "ready"

Complete == state # NoState /\ state.status = "COMPLETE"

\* The bootstrap ends, provided every month has something to stage.
BootstrapCompletes == EveryMonthHasHistory => <>Complete
=============================================================================
