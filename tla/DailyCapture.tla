---------------------------- MODULE DailyCapture ----------------------------
(***************************************************************************)
(* The DAILY lane of the market data scheduler for one trade date: cron    *)
(* wakes run units of work (runDailyLane), each unit looks at the date's   *)
(* manifest and goes on from there.  A unit captures one official layer    *)
(* (runSubrequestSafeMarketDataCapture), closes the date, or, once all     *)
(* layers are there, indexes the date's rows into symbol prefix shards,    *)
(* several in one commit (runAdaptiveHistoryIndexSlice) or one by one (the *)
(* older processIndexBatch).                                               *)
(*                                                                         *)
(* A unit reads the manifest, awaits calendars and providers, and merges   *)
(* into the manifest as it is by then.  Wakes overlap, and those that share *)
(* a Worker isolate share the module variables of market-data-capture-     *)
(* context.ts.  One store call is one step here: GitHubStore shows that it *)
(* may be seen so.                                                         *)
(***************************************************************************)
EXTENDS Naturals, FiniteSets

CONSTANTS
    Workers,        \* invocations that may overlap
    Isolate,        \* Isolate[w]: the isolate invocation w runs in
    Layers,         \* the expected layers, in the order of the code's list
    Allowed,        \* Allowed[c]: the layers checkpoint c lets be captured
    MaxAttempts,    \* MAX_AUTOMATIC_RETRY_ATTEMPTS, 6 in the code
    Datasets,       \* contents a provider may publish for a layer
    Compact,        \* one-digit symbol prefixes of the rows
    Legacy,         \* two-digit ones
    NoManifest,
    NoRows,
    MaxCheckpoint,  \* bound: retry checkpoints of the date
    MaxUnits,       \* bound: units a wake's budget admits
    MaxOverrides,   \* bound: edits of the calendar override
    MaxFaults       \* bound: exceptions and evictions

Prefixes == Compact \cup Legacy

\* A layer's entry: its dataset when READY, its attempts, and the checkpoint
\* of the last.  A placeholder has none of them.
Layer       == [data : Datasets \cup {0}, attempts : Nat, last : Nat]
Placeholder == [data |-> 0, attempts |-> 0, last |-> 0]

Days == {"NONE", "PARTIAL", "COMPLETE", "NO_TRADING_DAY"}

Manifest ==
    [day : Days, layers : [Layers -> Layer],
     status : {"PENDING", "READY"}, completed : SUBSET Prefixes]

ASSUME DailyAssumption ==
    /\ IsFiniteSet(Workers) /\ IsFiniteSet(Prefixes) /\ IsFiniteSet(Layers)
    /\ Layers \subseteq Nat \ {0} /\ Layers # {}
    /\ Allowed \in [1..MaxCheckpoint -> SUBSET Layers]
    /\ 0 \notin Datasets
    /\ Compact \cup Legacy \subseteq Nat /\ Compact \cap Legacy = {}
    /\ NoManifest \notin Manifest
    /\ NoRows \notin [Layers -> Datasets \cup {0}]
    /\ {MaxAttempts, MaxUnits} \subseteq Nat \ {0}
    /\ {MaxCheckpoint, MaxOverrides, MaxFaults} \subseteq Nat

VARIABLES
    manifest,   \* the date's manifest.json
    shard,      \* shard[p]: the date's rows in the shard of prefix p
    override,   \* the calendar override file of the date
    checkpoint, \* the retry checkpoint begun last
    policy,     \* policy[i]: checkpointStartedAt in isolate i, 0 for null
    pc,         \* where each invocation is
    units,      \* units its wake has begun
    view,       \* the manifest its unit read
    at,         \* the checkpoint its unit began in (capturedAt)
    batch,      \* the layer its unit captures
    got,        \* what the provider gave, 0 for a failure
    overrides, faults

files == <<manifest, shard>>
unit  == <<view, at, batch, got>>
world == <<override, checkpoint, overrides>>
vars  == <<manifest, shard, override, checkpoint, policy, pc, units, view, at,
           batch, got, overrides, faults>>

Isolates == {Isolate[w] : w \in Workers}

\* No manifest file is the same as one that says nothing.
Absent ==
    [day |-> "NONE", layers |-> [l \in Layers |-> Placeholder],
     status |-> "PENDING", completed |-> {}]

Ready(m, l) == m.layers[l].data # 0

Rows(m) == [l \in Layers |-> m.layers[l].data]

\* The first n of a set in sorted order.
First(S, n) == {p \in S : Cardinality({q \in S : q < p}) < n}

Go(w, where) == pc' = [pc EXCEPT ![w] = where]

ForgetUnit(w) ==
    /\ view' = [view EXCEPT ![w] = NoManifest]
    /\ at' = [at EXCEPT ![w] = 0]
    /\ batch' = [batch EXCEPT ![w] = 0]
    /\ got' = [got EXCEPT ![w] = 0]

(***************************************************************************)
(* The wake: runDailyLane.                                                 *)
(***************************************************************************)

Wake(w) ==
    /\ pc[w] = "idle"
    /\ checkpoint > 0
    /\ policy' = [policy EXCEPT ![Isolate[w]] = checkpoint]
    /\ units' = [units EXCEPT ![w] = 0]
    /\ Go(w, "loop")
    /\ UNCHANGED <<files, world, unit, faults>>

\* A unit ended with a status the loop goes on from.
Continue(w) ==
    /\ Go(w, "loop")
    /\ ForgetUnit(w)
    /\ UNCHANGED policy

\* A unit ended with a status the loop stops at; finally resets the policy.
Leave(w) ==
    /\ Go(w, "idle")
    /\ policy' = [policy EXCEPT ![Isolate[w]] = 0]
    /\ ForgetUnit(w)

\* The budget or the deadline admits no further unit; it admits a first one.
OutOfBudget(w) ==
    /\ pc[w] = "loop"
    /\ units[w] > 0
    /\ Leave(w)
    /\ UNCHANGED <<files, world, units, faults>>

\* Mutant of Facade: any complete day counts as done.
FacadeDone(w) ==
    /\ pc[w] = "loop"
    /\ units[w] < MaxUnits
    /\ units' = [units EXCEPT ![w] = @ + 1]
    /\ at' = [at EXCEPT ![w] = IF manifest.day = "COMPLETE" THEN 0 ELSE checkpoint]
    /\ Go(w, IF manifest.day = "COMPLETE" THEN "idle" ELSE "read")
    /\ UNCHANGED <<files, world, policy, view, batch, got, faults>>

\* runAdaptiveDailyMarketDataCapture: one read decides who does the unit.
Facade(w) ==
    /\ pc[w] = "loop"
    /\ units[w] < MaxUnits
    /\ units' = [units EXCEPT ![w] = @ + 1]
    /\ at' = [at EXCEPT ![w] = checkpoint]
    /\ \/ /\ manifest.day = "COMPLETE" /\ manifest.status # "READY"
          /\ view' = [view EXCEPT ![w] = manifest]
          /\ Go(w, "slice")
       \/ /\ ~(manifest.day = "COMPLETE" /\ manifest.status # "READY")
          /\ Go(w, "read")
          /\ UNCHANGED view
    /\ UNCHANGED <<files, world, policy, batch, got, faults>>

(***************************************************************************)
(* A capture unit: runSubrequestSafeMarketDataCapture.                     *)
(***************************************************************************)

\* It reads the manifest again and decides again.
ReadManifest(w) ==
    /\ pc[w] = "read"
    /\ \/ /\ \/ manifest.day = "NO_TRADING_DAY"
             \/ manifest.day = "COMPLETE" /\ manifest.status = "READY"
          /\ Leave(w)
       \/ /\ \/ manifest.day = "COMPLETE" /\ manifest.status # "READY"
                  /\ Go(w, "legacyShard")
             \/ manifest.day \in {"NONE", "PARTIAL"} /\ Go(w, "calendar")
          /\ view' = [view EXCEPT ![w] = manifest]
          /\ UNCHANGED <<policy, at, batch, got>>
    /\ UNCHANGED <<files, world, units, faults>>

\* classifyTradingDay: an override file decides; without one the calendar does,
\* when it could be loaded.  The date is a weekday.
Gate == IF override = "none" THEN {"OPEN", "UNKNOWN"} ELSE {override}

\* Mutant of Eligible: attempts are not limited.
EligibleForever(w, l) ==
    LET p == policy[Isolate[w]]
        e == view[w].layers[l]
    IN  /\ p # 0 => l \in Allowed[p]
        /\ e.data = 0
        /\ p # 0 /\ e.last # 0 => e.last < p
        /\ e.last <= at[w]

\* dueLayerKeys, up to the ten minutes between two attempts: under the policy
\* of this moment, and by the manifest the unit has read.
Eligible(w, l) ==
    LET p == policy[Isolate[w]]
        e == view[w].layers[l]
    IN  /\ p # 0 => l \in Allowed[p]
        /\ e.data = 0
        /\ e.attempts < MaxAttempts
        /\ p # 0 /\ e.last # 0 => e.last < p
        /\ e.last <= at[w]

\* The ten minutes may or may not be over only within one checkpoint: the
\* checkpoints are further apart.
CertainlyDue(w, l) ==
    Eligible(w, l) /\ (view[w].layers[l].attempts = 0 \/ view[w].layers[l].last < at[w])

Calendar(w) ==
    /\ pc[w] = "calendar"
    /\ \E gate \in Gate :
         \/ gate = "UNKNOWN" /\ Continue(w)
         \/ gate = "CLOSED" /\ Go(w, "close") /\ UNCHANGED <<unit, policy>>
         \/ /\ gate = "OPEN"
            /\ \A l \in Layers : ~CertainlyDue(w, l)
            /\ Leave(w)
         \/ /\ gate = "OPEN"
            /\ \E l \in Layers :
                 /\ Eligible(w, l)
                 /\ \A k \in Layers : k < l => ~CertainlyDue(w, k)
                 /\ batch' = [batch EXCEPT ![w] = l]
            /\ Go(w, "fetch")
            /\ UNCHANGED <<policy, view, at, got>>
    /\ UNCHANGED <<files, world, units, faults>>

\* captureOfficialLayers and persistObservedLayers: the provider answers or
\* fails; raw bodies and the snapshot go to files named by their content.
Fetch(w) ==
    /\ pc[w] = "fetch"
    /\ \E d \in Datasets \cup {0} : got' = [got EXCEPT ![w] = d]
    /\ Go(w, "reconcile")
    /\ UNCHANGED <<files, world, policy, units, view, at, batch, faults>>

\* The entry of the captured layer after the merge: a READY one stays.
Captured(w, previous) ==
    IF previous.data # 0 THEN previous
    ELSE IF got[w] # 0
         THEN [data |-> got[w], attempts |-> view[w].layers[batch[w]].attempts + 1,
               last |-> at[w]]
         ELSE [data |-> 0, attempts |-> previous.attempts + 1, last |-> at[w]]

\* Mutant of Reconciled: the merge starts from the manifest the unit read.
ReconciledStale(w) ==
    LET layers == [view[w].layers EXCEPT ![batch[w]] = Captured(w, @)]
    IN  IF manifest.day = "COMPLETE" THEN manifest
        ELSE [manifest EXCEPT
                !.layers = layers,
                !.day = IF \A l \in Layers : layers[l].data # 0
                        THEN "COMPLETE" ELSE "PARTIAL"]

\* The manifest after the merge into the current one.
Reconciled(w) ==
    LET layers == [manifest.layers EXCEPT ![batch[w]] = Captured(w, @)]
    IN  IF manifest.day = "COMPLETE" THEN manifest
        ELSE [manifest EXCEPT
                !.layers = layers,
                !.day = IF \A l \in Layers : layers[l].data # 0
                        THEN "COMPLETE" ELSE "PARTIAL"]

Reconcile(w) ==
    /\ pc[w] = "reconcile"
    /\ manifest' = Reconciled(w)
    /\ Continue(w)
    /\ UNCHANGED <<shard, world, units, faults>>

\* Mutant of Close: the manifest the unit read decides.
CloseByView(w) ==
    /\ pc[w] = "close"
    /\ manifest' = IF \E l \in Layers : Ready(view[w], l) THEN manifest
                   ELSE [Absent EXCEPT !.day = "NO_TRADING_DAY",
                                       !.status = "READY"]
    /\ Leave(w)
    /\ UNCHANGED <<shard, world, units, faults>>

\* The date is closed, unless the current manifest has data.
Close(w) ==
    /\ pc[w] = "close"
    /\ manifest' = IF \E l \in Layers : Ready(manifest, l) THEN manifest
                   ELSE [Absent EXCEPT !.day = "NO_TRADING_DAY",
                                       !.status = "READY"]
    /\ Leave(w)
    /\ UNCHANGED <<shard, world, units, faults>>

(***************************************************************************)
(* Indexing.                                                               *)
(***************************************************************************)

\* Mutant of SliceCommit: progress is written from the manifest the unit read.
SliceCommitStale(w) ==
    /\ pc[w] = "slice"
    /\ LET pending == Compact \ view[w].completed IN
       \E n \in 0..Cardinality(pending) :
         /\ pending # {} => n > 0
         /\ LET chosen    == First(pending, n)
                completed == (view[w].completed \cap Compact) \cup chosen
            IN  /\ shard' = [p \in Prefixes |->
                     IF p \in chosen THEN Rows(view[w]) ELSE shard[p]]
                /\ manifest' = [manifest EXCEPT !.completed = completed,
                     !.status = IF completed = Compact THEN "READY" ELSE "PENDING"]
                /\ IF completed = Compact THEN Leave(w) ELSE Continue(w)
    /\ UNCHANGED <<world, units, faults>>

\* Mutant of SliceCommit: the slice marks one prefix more than it writes.
SliceCommitOneMore(w) ==
    /\ pc[w] = "slice"
    /\ LET pending == Compact \ view[w].completed IN
       \E n \in 0..Cardinality(pending) :
         /\ pending # {} => n > 0
         /\ LET chosen    == First(pending, n)
                completed == (manifest.completed \cap Compact) \cup First(pending, n + 1)
            IN  /\ shard' = [p \in Prefixes |->
                     IF p \in chosen THEN Rows(view[w]) ELSE shard[p]]
                /\ manifest' = [manifest EXCEPT !.completed = completed,
                     !.status = IF completed = Compact THEN "READY" ELSE "PENDING"]
                /\ Leave(w)
    /\ UNCHANGED <<world, units, faults>>

\* Mutant of SliceCommit: the prefixes beyond this slice are not counted as
\* remaining.
SliceCommitReady(w) ==
    /\ pc[w] = "slice"
    /\ LET pending == Compact \ view[w].completed IN
       \E n \in 0..Cardinality(pending) :
         /\ pending # {} => n > 0
         /\ LET chosen    == First(pending, n)
                completed == (manifest.completed \cap Compact) \cup chosen
            IN  /\ shard' = [p \in Prefixes |->
                     IF p \in chosen THEN Rows(view[w]) ELSE shard[p]]
                /\ manifest' = [manifest EXCEPT !.completed = completed,
                                                !.status = "READY"]
                /\ Leave(w)
    /\ UNCHANGED <<world, units, faults>>

\* One commit: the shards of the first n pending prefixes and the manifest,
\* whose progress is merged with what it holds now.  What the unit returns is
\* the progress it planned.
SliceCommit(w) ==
    /\ pc[w] = "slice"
    /\ LET pending == Compact \ view[w].completed IN
       \E n \in 0..Cardinality(pending) :
         /\ pending # {} => n > 0
         /\ LET chosen    == First(pending, n)
                completed == (manifest.completed \cap Compact) \cup chosen
                planned   == (view[w].completed \cap Compact) \cup chosen
            IN  /\ shard' = [p \in Prefixes |->
                     IF p \in chosen THEN Rows(view[w]) ELSE shard[p]]
                /\ manifest' = [manifest EXCEPT !.completed = completed,
                     !.status = IF completed = Compact THEN "READY" ELSE "PENDING"]
                /\ IF planned = Compact THEN Leave(w) ELSE Continue(w)
    /\ UNCHANGED <<world, units, faults>>

\* INDEX_YIELD: no capacity left, or the branch moved under the commit.
SliceYield(w) ==
    /\ pc[w] = "slice"
    /\ Leave(w)
    /\ UNCHANGED <<files, world, units, faults>>

\* processIndexBatch: the shard of the first pending two-digit prefix ...
LegacyShard(w) ==
    /\ pc[w] = "legacyShard"
    /\ LET chosen == First(Legacy \ view[w].completed, 1) IN
       /\ shard' = [p \in Prefixes |->
            IF p \in chosen THEN Rows(view[w]) ELSE shard[p]]
       /\ view' = [view EXCEPT ![w].completed = @ \cup chosen]
    /\ Go(w, "legacyManifest")
    /\ UNCHANGED <<manifest, world, policy, units, at, batch, got, faults>>

\* ... then the progress, as the unit read it and with that prefix.
LegacyManifest(w) ==
    /\ pc[w] = "legacyManifest"
    /\ LET done == Legacy \subseteq view[w].completed IN
       /\ manifest' = [manifest EXCEPT
            !.completed = view[w].completed,
            !.status = IF done THEN "READY" ELSE "PENDING"]
       /\ IF done THEN Leave(w) ELSE Continue(w)
    /\ UNCHANGED <<shard, world, units, faults>>

(***************************************************************************)
(* The world.                                                              *)
(***************************************************************************)

\* The clock reaches the date's next checkpoint.
Tick ==
    /\ checkpoint < MaxCheckpoint
    /\ checkpoint' = checkpoint + 1
    /\ UNCHANGED <<files, override, overrides, policy, pc, units, unit, faults>>

\* An operator edits the override file.
ChangeOverride ==
    /\ overrides < MaxOverrides
    /\ overrides' = overrides + 1
    /\ override' \in {"none", "CLOSED", "OPEN"} \ {override}
    /\ UNCHANGED <<files, checkpoint, policy, pc, units, unit, faults>>

\* A store call or a snapshot write throws; finally resets the policy.
Throw(w) ==
    /\ pc[w] # "idle"
    /\ faults < MaxFaults
    /\ faults' = faults + 1
    /\ Leave(w)
    /\ UNCHANGED <<files, world, units>>

\* The platform drops an isolate with all it runs.
Evict(i) ==
    /\ faults < MaxFaults
    /\ faults' = faults + 1
    /\ LET lost == {w \in Workers : Isolate[w] = i} IN
       /\ \E w \in lost : pc[w] # "idle"
       /\ pc' = [w \in Workers |-> IF w \in lost THEN "idle" ELSE pc[w]]
       /\ view' = [w \in Workers |-> IF w \in lost THEN NoManifest ELSE view[w]]
       /\ at' = [w \in Workers |-> IF w \in lost THEN 0 ELSE at[w]]
       /\ batch' = [w \in Workers |-> IF w \in lost THEN 0 ELSE batch[w]]
       /\ got' = [w \in Workers |-> IF w \in lost THEN 0 ELSE got[w]]
    /\ policy' = [policy EXCEPT ![i] = 0]
    /\ UNCHANGED <<files, world, units>>

Init ==
    /\ manifest = Absent
    /\ shard = [p \in Prefixes |-> NoRows]
    /\ override = "none"
    /\ checkpoint = 0
    /\ policy = [i \in Isolates |-> 0]
    /\ pc = [w \in Workers |-> "idle"]
    /\ units = [w \in Workers |-> 0]
    /\ view = [w \in Workers |-> NoManifest]
    /\ at = [w \in Workers |-> 0]
    /\ batch = [w \in Workers |-> 0]
    /\ got = [w \in Workers |-> 0]
    /\ overrides = 0
    /\ faults = 0

Step(w) ==
    \/ Facade(w) \/ OutOfBudget(w) \/ ReadManifest(w) \/ Calendar(w)
    \/ Fetch(w) \/ Reconcile(w) \/ Close(w)
    \/ SliceCommit(w) \/ SliceYield(w) \/ LegacyShard(w) \/ LegacyManifest(w)

Next ==
    \/ \E w \in Workers : Wake(w) \/ Step(w) \/ Throw(w)
    \/ \E i \in Isolates : Evict(i)
    \/ Tick \/ ChangeOverride

Spec == Init /\ [][Next]_vars

\* Cron keeps waking the lane, an invocation runs on, and the index commit does
\* not lose the race for the branch every time.
Fairness ==
    \A w \in Workers :
      WF_vars(Wake(w)) /\ WF_vars(Step(w)) /\ SF_vars(SliceCommit(w))

FairSpec == Spec /\ Fairness

(***************************************************************************)
(* Properties.                                                             *)
(***************************************************************************)

\* Every variable stays in its set, and a unit has a layer exactly while it
\* captures one.
TypeOK ==
    /\ manifest \in Manifest
    /\ shard \in [Prefixes -> {NoRows} \cup [Layers -> Datasets \cup {0}]]
    /\ override \in {"none", "CLOSED", "OPEN"}
    /\ checkpoint \in 0..MaxCheckpoint
    /\ policy \in [Isolates -> 0..MaxCheckpoint]
    /\ pc \in [Workers -> {"idle", "loop", "read", "calendar", "fetch",
                           "reconcile", "close", "slice", "legacyShard",
                           "legacyManifest"}]
    /\ units \in [Workers -> 0..MaxUnits]
    /\ view \in [Workers -> Manifest \cup {NoManifest}]
    /\ batch \in [Workers -> Layers \cup {0}]
    /\ \A w \in Workers :
         /\ view[w] # NoManifest <=> pc[w] \notin {"idle", "loop", "read"}
         /\ batch[w] # 0 <=> pc[w] \in {"fetch", "reconcile"}
    /\ at \in [Workers -> 0..MaxCheckpoint]
    /\ got \in [Workers -> Datasets \cup {0}]
    /\ overrides \in 0..MaxOverrides
    /\ faults \in 0..MaxFaults

\* A prefix the manifest counts as indexed has its shard, with the rows of the
\* very datasets the manifest names: a reader of the shard and a reader of the
\* snapshots see the same day (runAdaptiveHistoryIndexSlice, processIndexBatch).
IndexedMeansStored ==
    \A p \in manifest.completed : shard[p] = Rows(manifest)

\* A complete day has all its layers, and only a complete day is indexed.
CompleteIsReady ==
    /\ manifest.day = "COMPLETE" => \A l \in Layers : Ready(manifest, l)
    /\ manifest.completed # {} => manifest.day = "COMPLETE"

\* An indexing unit has read the layers the day has ever since, and what it
\* counts as indexed is: neither late captures nor closures change a complete day.
Indexing(w) == pc[w] \in {"slice", "legacyShard", "legacyManifest"}

IndexersSeeTheDay ==
    \A w \in Workers : Indexing(w) =>
      /\ manifest.day = "COMPLETE"
      /\ view[w].layers = manifest.layers
      /\ \A p \in view[w].completed : shard[p] = Rows(manifest)

\* The units that may still count an attempt at a layer: those that have read
\* the manifest when the limit was not yet reached.
MayAttempt(l) ==
    {w \in Workers :
       /\ pc[w] = "calendar" \/ batch[w] = l
       /\ view[w].layers[l].attempts < MaxAttempts}

\* Each of them has room for its attempt (dueLayerKeys).
AttemptsHaveRoom ==
    /\ \A l \in Layers :
         manifest.layers[l].attempts + Cardinality(MayAttempt(l))
           < MaxAttempts + Cardinality(Workers)
    /\ \A w \in Workers :
         batch[w] # 0 => view[w].layers[batch[w]].attempts < MaxAttempts

\* The manifest is well formed and its index true, and units that overlap rely
\* on nothing that another one may change (runAdaptiveHistoryIndexSlice).
CaptureInv ==
    /\ TypeOK /\ IndexedMeansStored
    /\ CompleteIsReady /\ IndexersSeeTheDay /\ AttemptsHaveRoom

\* mergeReadyMonotonic across overlapping units: no unit, closure or late merge
\* takes back a layer's data or a complete day.
DataIsKept ==
    [][/\ \A l \in Layers :
            Ready(manifest, l) => manifest'.layers[l] = manifest.layers[l]
       /\ manifest.day = "COMPLETE" => manifest'.day = "COMPLETE"]_vars

\* The comment at history-index-v2 line 223, "merge progress monotonically":
\* only an invocation that went to the older indexer takes progress back.
IndexProgressKept ==
    [][\/ manifest.completed \cap Compact \subseteq manifest'.completed
       \/ \E w \in Workers : pc[w] = "legacyManifest" /\ pc'[w] # pc[w]]_vars

\* The attempts of a layer end: overlapping units may each add one beyond the
\* limit that all of them saw not yet reached.
AttemptsAreBounded ==
    \A l \in Layers :
      manifest.layers[l].attempts < MaxAttempts + Cardinality(Workers)

\* The facade's comment, "Once canonical 8/8 is terminal COMPLETE, indexing is
\* handed to the [...] compact indexer": a complete day whose index says READY
\* has its rows in every compact shard.
CompleteDayIsIndexed ==
    manifest.day = "COMPLETE" /\ manifest.status = "READY"
      => \A p \in Compact : shard[p] = Rows(manifest)

\* A complete day gets its index, whatever units were cut off before, and in
\* spite of older-indexer units that overwrite its progress.
CompleteGetsIndexed ==
    manifest.day = "COMPLETE" ~>
      /\ manifest.status = "READY"
      /\ \A p \in Compact : shard[p] = Rows(manifest)
=============================================================================
