------------------------- MODULE DailyCaptureProofs -------------------------
(***************************************************************************)
(* Proofs about DailyCapture for any invocations, isolates, layers,        *)
(* prefixes and bounds.  What carries them: a complete day keeps its       *)
(* layers, so a unit that indexes one writes the rows of the manifest as   *)
(* it is by then, however old the manifest it has read.                    *)
(***************************************************************************)
EXTENDS DailyCapture, FiniteSetTheorems, TLAPS

(***************************************************************************)
(* Types.                                                                  *)
(***************************************************************************)

\* What is assumed of the constants, without the sets of the types.
LEMMA Constants ==
    /\ IsFiniteSet(Workers) /\ IsFiniteSet(Prefixes) /\ IsFiniteSet(Layers)
    /\ Layers \subseteq Nat \ {0} /\ Layers # {}
    /\ 0 \notin Datasets
    /\ Prefixes \subseteq Nat /\ Compact \cap Legacy = {}
    /\ MaxAttempts \in Nat \ {0} /\ MaxUnits \in Nat \ {0}
    /\ MaxCheckpoint \in Nat /\ MaxOverrides \in Nat /\ MaxFaults \in Nat
    /\ NoManifest \notin Manifest
BY DailyAssumption DEF Prefixes

\* A day nothing is known of.
LEMMA AbsentIsManifest ==
    /\ Absent \in Manifest
    /\ [Absent EXCEPT !.day = "NO_TRADING_DAY", !.status = "READY"] \in Manifest
<1>1. Placeholder \in Layer
    BY DEF Placeholder, Layer
<1> QED BY <1>1 DEF Absent, Manifest, Days

\* The empty lane is well typed.
LEMMA InitTypeOK == Init => TypeOK
<1> SUFFICES ASSUME Init PROVE TypeOK
    OBVIOUS
<1>1. manifest \in Manifest
    BY AbsentIsManifest DEF Init
<1> QED BY <1>1, Constants DEF Init, TypeOK

\* The rows of a manifest are what a shard may hold.
LEMMA RowsAreRows ==
    ASSUME NEW m \in Manifest
    PROVE  Rows(m) \in [Layers -> Datasets \cup {0}]
BY DEF Manifest, Layer, Rows

\* A merge of a captured layer gives a manifest.
LEMMA ReconciledType ==
    ASSUME TypeOK, NEW w \in Workers, pc[w] = "reconcile"
    PROVE  /\ Captured(w, manifest.layers[batch[w]]) \in Layer
           /\ Reconciled(w) \in Manifest
<1>1. manifest \in Manifest /\ view[w] \in Manifest /\ batch[w] \in Layers
    BY DEF TypeOK
<1>2. manifest.layers[batch[w]] \in Layer /\ view[w].layers[batch[w]] \in Layer
    BY <1>1 DEF Manifest
<1>3. at[w] \in Nat /\ got[w] \in Datasets \cup {0}
    BY Constants DEF TypeOK
<1>4. Captured(w, manifest.layers[batch[w]]) \in Layer
    BY <1>2, <1>3 DEF Captured, Layer
<1>5. ASSUME NEW layers \in [Layers -> Layer], NEW day \in Days
      PROVE  [manifest EXCEPT !.layers = layers, !.day = day] \in Manifest
    BY <1>1 DEF Manifest
<1>6. [manifest.layers EXCEPT ![batch[w]] = Captured(w, @)] \in [Layers -> Layer]
    BY <1>1, <1>4 DEF Manifest
<1>7. "COMPLETE" \in Days /\ "PARTIAL" \in Days
    BY DEF Days
<1> QED BY <1>1, <1>4, <1>5, <1>6, <1>7 DEF Reconciled

\* The first of a set are of the set.
LEMMA FirstAreOfIt == ASSUME NEW S, NEW n PROVE First(S, n) \subseteq S
BY DEF First

\* Every step keeps the variables in their sets.
LEMMA NextTypeOK == TypeOK /\ [Next]_vars => TypeOK'
<1> SUFFICES ASSUME TypeOK, [Next]_vars PROVE TypeOK'
    OBVIOUS
<1> USE Constants
<1> USE DEF TypeOK, files, world, unit, Go, Continue, Leave, ForgetUnit, Isolates
<1>1. ASSUME NEW w \in Workers, Wake(w) PROVE TypeOK'
    BY <1>1 DEF Wake
<1>2. ASSUME NEW w \in Workers, Facade(w) PROVE TypeOK'
    BY <1>2 DEF Facade
<1>3. ASSUME NEW w \in Workers, OutOfBudget(w) PROVE TypeOK'
    BY <1>3 DEF OutOfBudget
<1>4. ASSUME NEW w \in Workers, ReadManifest(w) PROVE TypeOK'
    BY <1>4 DEF ReadManifest
<1>5. ASSUME NEW w \in Workers, Calendar(w) PROVE TypeOK'
    <2>1. UNCHANGED <<files, world, units, faults>>
        BY <1>5 DEF Calendar
    <2>2. pc[w] = "calendar"
        BY <1>5 DEF Calendar
    <2>3. CASE Continue(w)
        BY <2>1, <2>2, <2>3
    <2>4. CASE Leave(w)
        BY <2>1, <2>2, <2>4
    <2>5. CASE Go(w, "close") /\ UNCHANGED <<unit, policy>>
        BY <2>1, <2>2, <2>5
    <2>6. CASE /\ \E l \in Layers : batch' = [batch EXCEPT ![w] = l]
               /\ Go(w, "fetch")
               /\ UNCHANGED <<policy, view, at, got>>
        BY <2>1, <2>2, <2>6
    <2> QED BY <1>5, <2>3, <2>4, <2>5, <2>6 DEF Calendar
<1>6. ASSUME NEW w \in Workers, Fetch(w) PROVE TypeOK'
    BY <1>6 DEF Fetch
<1>7. ASSUME NEW w \in Workers, Reconcile(w) PROVE TypeOK'
    BY <1>7, ReconciledType DEF Reconcile
<1>8. ASSUME NEW w \in Workers, Close(w) PROVE TypeOK'
    <2>1. manifest' \in Manifest
        BY <1>8, AbsentIsManifest DEF Close
    <2> QED BY <1>8, <2>1 DEF Close
<1>9. ASSUME NEW w \in Workers, SliceCommit(w) PROVE TypeOK'
    <2>1. view[w] \in Manifest
        BY <1>9 DEF SliceCommit
    <2>2. PICK n : LET chosen == First(Compact \ view[w].completed, n)
                       completed == (manifest.completed \cap Compact) \cup chosen
                   IN  /\ shard' = [p \in Prefixes |->
                             IF p \in chosen THEN Rows(view[w]) ELSE shard[p]]
                       /\ manifest' = [manifest EXCEPT !.completed = completed,
                             !.status = IF completed = Compact THEN "READY" ELSE "PENDING"]
        BY <1>9 DEF SliceCommit
    <2>3. First(Compact \ view[w].completed, n) \subseteq Prefixes
        BY FirstAreOfIt DEF Prefixes
    <2>4. manifest' \in Manifest
        BY <2>2, <2>3 DEF Manifest, Prefixes
    <2>5. shard' \in [Prefixes -> {NoRows} \cup [Layers -> Datasets \cup {0}]]
        BY <2>1, <2>2, RowsAreRows
    <2>6. Leave(w) \/ Continue(w)
        BY <1>9 DEF SliceCommit
    <2>7. UNCHANGED <<world, units, faults>>
        BY <1>9 DEF SliceCommit
    <2> HIDE DEF TypeOK
    <2>8. UNCHANGED policy \/ policy' = [policy EXCEPT ![Isolate[w]] = 0]
        BY <2>6
    <2>9. policy' \in [Isolates -> 0..MaxCheckpoint]
        BY <2>8 DEF TypeOK
    <2>10. pc' = [pc EXCEPT ![w] = "idle"] \/ pc' = [pc EXCEPT ![w] = "loop"]
        BY <2>6
    <2>11. /\ view' = [view EXCEPT ![w] = NoManifest]
           /\ at' = [at EXCEPT ![w] = 0]
           /\ batch' = [batch EXCEPT ![w] = 0]
           /\ got' = [got EXCEPT ![w] = 0]
        BY <2>6
    <2> QED BY <2>4, <2>5, <2>7, <2>9, <2>10, <2>11 DEF TypeOK
<1>10. ASSUME NEW w \in Workers, SliceYield(w) PROVE TypeOK'
    BY <1>10 DEF SliceYield
<1>11. ASSUME NEW w \in Workers, LegacyShard(w) PROVE TypeOK'
    <2>1. view[w] \in Manifest
        BY <1>11 DEF LegacyShard
    <2>2. First(Legacy \ view[w].completed, 1) \subseteq Prefixes
        BY FirstAreOfIt DEF Prefixes
    <2>3. [view[w] EXCEPT !.completed = @ \cup First(Legacy \ view[w].completed, 1)]
            \in Manifest
        BY <2>1, <2>2 DEF Manifest
    <2>4. shard' \in [Prefixes -> {NoRows} \cup [Layers -> Datasets \cup {0}]]
        BY <1>11, <2>1, RowsAreRows DEF LegacyShard
    <2>5. view' = [view EXCEPT ![w] =
             [view[w] EXCEPT !.completed = @ \cup First(Legacy \ view[w].completed, 1)]]
        BY <1>11 DEF LegacyShard
    <2>6. /\ pc' = [pc EXCEPT ![w] = "legacyManifest"] /\ pc[w] = "legacyShard"
          /\ UNCHANGED <<manifest, world, policy, units, at, batch, got, faults>>
        BY <1>11 DEF LegacyShard
    <2>7. view' \in [Workers -> Manifest \cup {NoManifest}]
        BY <2>3, <2>5
    <2>8. \A v \in Workers :
            /\ view'[v] # NoManifest <=> pc'[v] \notin {"idle", "loop", "read"}
            /\ batch'[v] # 0 <=> pc'[v] \in {"fetch", "reconcile"}
        BY <2>3, <2>5, <2>6
    <2> QED BY <2>4, <2>6, <2>7, <2>8
<1>12. ASSUME NEW w \in Workers, LegacyManifest(w) PROVE TypeOK'
    <2>1. view[w] \in Manifest
        BY <1>12 DEF LegacyManifest
    <2>2. manifest' \in Manifest
        BY <1>12, <2>1 DEF LegacyManifest, Manifest
    <2>3. pc[w] = "legacyManifest" /\ UNCHANGED <<shard, world, units, faults>>
        BY <1>12 DEF LegacyManifest
    <2>4. Leave(w) \/ Continue(w)
        BY <1>12 DEF LegacyManifest
    <2> QED BY <2>2, <2>3, <2>4
<1>13. ASSUME NEW w \in Workers, Throw(w) PROVE TypeOK'
    BY <1>13 DEF Throw
<1>14. ASSUME NEW i \in Isolates, Evict(i) PROVE TypeOK'
    BY <1>14 DEF Evict
<1>15. CASE Tick
    BY <1>15 DEF Tick
<1>16. CASE ChangeOverride
    BY <1>16 DEF ChangeOverride
<1>17. CASE UNCHANGED vars
    BY <1>17 DEF vars
<1> QED BY <1>1, <1>2, <1>3, <1>4, <1>5, <1>6, <1>7, <1>8, <1>9, <1>10, <1>11,
           <1>12, <1>13, <1>14, <1>15, <1>16, <1>17 DEF Next, Step

\* The lane's variables stay in their sets.
THEOREM TypeCorrect == Spec => []TypeOK
BY InitTypeOK, NextTypeOK, PTL DEF Spec

(***************************************************************************)
(* Steps.                                                                  *)
(***************************************************************************)

\* What a unit that indexes writes: its rows, and the progress it knows of.
Indexed(w) ==
    \E done, status :
      /\ Indexing(w) /\ pc'[w] # pc[w]
      /\ manifest' = [manifest EXCEPT !.completed = done, !.status = status]
      /\ \/ /\ pc[w] = "slice"
            /\ manifest.completed \cap Compact \subseteq done /\ done \subseteq Compact
            /\ status = "READY" => done = Compact
         \/ /\ pc[w] = "legacyManifest" /\ done = view[w].completed
            /\ status = "READY" => Legacy \subseteq done
      /\ \A p \in done :
           p \in manifest.completed \cup view[w].completed
           \/ (p \in Prefixes /\ shard'[p] = Rows(view[w]))

\* A closure replaces a day without data.
Closed ==
    /\ \E w \in Workers : pc[w] = "close"
    /\ \A l \in Layers : ~Ready(manifest, l)
    /\ manifest' = [Absent EXCEPT !.day = "NO_TRADING_DAY", !.status = "READY"]

\* A merge adds a layer to the manifest.
Merged(w) ==
    pc[w] = "reconcile" /\ manifest' = Reconciled(w) /\ Continue(w) /\ UNCHANGED shard

\* The manifest changes in three ways only.
LEMMA ManifestSteps ==
    ASSUME TypeOK, [Next]_vars
    PROVE  \/ UNCHANGED manifest
           \/ Closed
           \/ \E w \in Workers : Merged(w) \/ Indexed(w)
<1> USE DEF files, world, unit
<1>1. ASSUME NEW w \in Workers, SliceCommit(w) PROVE Indexed(w)
    <2>1. PICK n : LET chosen == First(Compact \ view[w].completed, n)
                       completed == (manifest.completed \cap Compact) \cup chosen
                   IN  /\ shard' = [p \in Prefixes |->
                             IF p \in chosen THEN Rows(view[w]) ELSE shard[p]]
                       /\ manifest' = [manifest EXCEPT !.completed = completed,
                             !.status = IF completed = Compact THEN "READY" ELSE "PENDING"]
        BY <1>1 DEF SliceCommit
    <2>2. First(Compact \ view[w].completed, n) \subseteq Prefixes
        BY FirstAreOfIt DEF Prefixes
    <2> DEFINE chosen    == First(Compact \ view[w].completed, n)
               completed == (manifest.completed \cap Compact) \cup chosen
               status    == IF completed = Compact THEN "READY" ELSE "PENDING"
    <2>3. /\ shard' = [p \in Prefixes |->
                IF p \in chosen THEN Rows(view[w]) ELSE shard[p]]
          /\ manifest' = [manifest EXCEPT !.completed = completed, !.status = status]
        BY <2>1
    <2>4. chosen \subseteq Prefixes /\ chosen \subseteq Compact
        BY <2>2, FirstAreOfIt
    <2>5. status = "READY" => completed = Compact
        OBVIOUS
    <2> HIDE DEF chosen, status
    <2>6. manifest.completed \cap Compact \subseteq completed /\ completed \subseteq Compact
        BY <2>4
    <2>7. \A p \in completed :
           p \in manifest.completed \cup view[w].completed
           \/ (p \in Prefixes /\ shard'[p] = Rows(view[w]))
        BY <2>3, <2>4
    <2>8. Indexing(w) /\ pc[w] = "slice"
        BY <1>1 DEF SliceCommit, Indexing
    <2>9. Leave(w) \/ Continue(w)
        BY <1>1 DEF SliceCommit
    <2>10. pc'[w] # pc[w]
        BY <2>8, <2>9 DEF Leave, Continue, Go, TypeOK
    <2> HIDE DEF completed
    <2> QED BY <2>3, <2>5, <2>6, <2>7, <2>8, <2>10 DEF Indexed
<1>2. ASSUME NEW w \in Workers, LegacyManifest(w) PROVE Indexed(w)
    <2> DEFINE status == IF Legacy \subseteq view[w].completed THEN "READY" ELSE "PENDING"
    <2>1. manifest' = [manifest EXCEPT !.completed = view[w].completed, !.status = status]
        BY <1>2 DEF LegacyManifest
    <2>2. Indexing(w) /\ pc[w] = "legacyManifest"
        BY <1>2 DEF LegacyManifest, Indexing
    <2>3. pc'[w] # pc[w]
        BY <1>2 DEF LegacyManifest, Leave, Continue, Go, TypeOK
    <2>4. status = "READY" => Legacy \subseteq view[w].completed
        OBVIOUS
    <2> HIDE DEF status
    <2> QED BY <2>1, <2>2, <2>3, <2>4 DEF Indexed
<1>3. ASSUME NEW w \in Workers, Reconcile(w) PROVE Merged(w)
    BY <1>3 DEF Merged, Reconcile
<1>4. ASSUME NEW w \in Workers, Close(w) PROVE Closed \/ UNCHANGED manifest
    BY <1>4 DEF Closed, Close
<1>5. ASSUME NEW w \in Workers, Wake(w) \/ Facade(w) \/ OutOfBudget(w) \/ ReadManifest(w)
               \/ Calendar(w) \/ Fetch(w) \/ SliceYield(w) \/ LegacyShard(w) \/ Throw(w)
      PROVE  UNCHANGED manifest
    BY <1>5 DEF Wake, Facade, OutOfBudget, ReadManifest, Calendar, Fetch, SliceYield,
                LegacyShard, Throw
<1>6. ASSUME NEW i \in Isolates, Evict(i) PROVE UNCHANGED manifest
    BY <1>6 DEF Evict
<1>7. CASE Tick \/ ChangeOverride \/ UNCHANGED vars
    BY <1>7 DEF Tick, ChangeOverride, vars
<1> QED BY <1>1, <1>2, <1>3, <1>4, <1>5, <1>6, <1>7 DEF Next, Step

\* A shard is only written with the rows of a unit that indexes.
LEMMA ShardSteps ==
    ASSUME TypeOK, [Next]_vars, NEW p \in Prefixes
    PROVE  \/ shard'[p] = shard[p]
           \/ \E w \in Workers : Indexing(w) /\ shard'[p] = Rows(view[w])
<1> USE DEF files, world, unit
<1>1. ASSUME NEW w \in Workers, SliceCommit(w) \/ LegacyShard(w)
      PROVE  Indexing(w) /\ (shard'[p] = shard[p] \/ shard'[p] = Rows(view[w]))
    BY <1>1 DEF SliceCommit, LegacyShard, Indexing
<1>2. ASSUME NEW w \in Workers, Wake(w) \/ Facade(w) \/ OutOfBudget(w) \/ ReadManifest(w)
               \/ Calendar(w) \/ Fetch(w) \/ SliceYield(w) \/ Reconcile(w) \/ Close(w)
               \/ LegacyManifest(w) \/ Throw(w)
      PROVE  UNCHANGED shard
    BY <1>2 DEF Wake, Facade, OutOfBudget, ReadManifest, Calendar, Fetch, SliceYield,
                Reconcile, Close, LegacyManifest, Throw
<1>3. ASSUME NEW i \in Isolates, Evict(i) PROVE UNCHANGED shard
    BY <1>3 DEF Evict
<1>4. CASE Tick \/ ChangeOverride \/ UNCHANGED vars
    BY <1>4 DEF Tick, ChangeOverride, vars
<1> QED BY <1>1, <1>2, <1>3, <1>4 DEF Next, Step

\* A unit goes on indexing with the manifest it has, with a prefix more, or
\* begins with the manifest of this moment.
LEMMA IndexerSteps ==
    ASSUME TypeOK, [Next]_vars, NEW w \in Workers, Indexing(w)'
    PROVE  \/ Indexing(w) /\ view'[w] = view[w]
           \/ /\ manifest.day = "COMPLETE" /\ view'[w] = manifest
              /\ UNCHANGED <<manifest, shard>>
           \/ /\ Indexing(w) /\ view'[w].layers = view[w].layers /\ UNCHANGED manifest
              /\ \A p \in view'[w].completed :
                   p \in view[w].completed \/ (p \in Prefixes /\ shard'[p] = Rows(view[w]))
<1> USE DEF files, world, unit, Go, Continue, Leave, ForgetUnit, Indexing
<1>1. ASSUME NEW v \in Workers, Facade(v)
      PROVE  \/ Indexing(w) /\ view'[w] = view[w]
             \/ /\ manifest.day = "COMPLETE" /\ view'[w] = manifest
                /\ UNCHANGED <<manifest, shard>>
    BY <1>1 DEF Facade, TypeOK
<1>2. ASSUME NEW v \in Workers, ReadManifest(v)
      PROVE  \/ Indexing(w) /\ view'[w] = view[w]
             \/ /\ manifest.day = "COMPLETE" /\ view'[w] = manifest
                /\ UNCHANGED <<manifest, shard>>
    BY <1>2 DEF ReadManifest, TypeOK
<1>3. ASSUME NEW v \in Workers, LegacyShard(v), v = w
      PROVE  /\ Indexing(w) /\ view'[w].layers = view[w].layers /\ UNCHANGED manifest
             /\ \A p \in view'[w].completed :
                  p \in view[w].completed \/ (p \in Prefixes /\ shard'[p] = Rows(view[w]))
    <2>1. view[w] \in Manifest
        BY <1>3 DEF LegacyShard, TypeOK
    <2>2. First(Legacy \ view[w].completed, 1) \subseteq Prefixes
        BY FirstAreOfIt DEF Prefixes
    <2>3. view'[w] = [view[w] EXCEPT !.completed = @ \cup First(Legacy \ view[w].completed, 1)]
        BY <1>3 DEF LegacyShard, TypeOK
    <2>4. /\ view'[w].layers = view[w].layers
          /\ view'[w].completed = view[w].completed \cup First(Legacy \ view[w].completed, 1)
        BY <2>1, <2>3 DEF Manifest
    <2>5. shard' = [p \in Prefixes |->
               IF p \in First(Legacy \ view[w].completed, 1) THEN Rows(view[w]) ELSE shard[p]]
        BY <1>3 DEF LegacyShard
    <2>6. Indexing(w) /\ UNCHANGED manifest
        BY <1>3 DEF LegacyShard
    <2> HIDE DEF Indexing
    <2> QED BY <2>2, <2>4, <2>5, <2>6
<1>4. ASSUME NEW v \in Workers, LegacyShard(v), v # w
      PROVE  Indexing(w) /\ view'[w] = view[w]
    BY <1>4 DEF LegacyShard, TypeOK
<1>5. ASSUME NEW v \in Workers, Calendar(v) PROVE Indexing(w) /\ view'[w] = view[w]
    BY <1>5 DEF Calendar, TypeOK
<1>6. ASSUME NEW v \in Workers, Wake(v) \/ OutOfBudget(v) \/ Fetch(v) \/ Reconcile(v)
               \/ Close(v) \/ SliceYield(v) \/ LegacyManifest(v) \/ Throw(v)
      PROVE  Indexing(w) /\ view'[w] = view[w]
    BY <1>6 DEF Wake, OutOfBudget, Fetch, Reconcile, Close, SliceYield, LegacyManifest,
                Throw, TypeOK
<1>7. ASSUME NEW v \in Workers, SliceCommit(v) PROVE Indexing(w) /\ view'[w] = view[w]
    <2>1. Leave(v) \/ Continue(v)
        BY <1>7 DEF SliceCommit
    <2> QED BY <2>1 DEF TypeOK
<1>8. ASSUME NEW i \in Isolates, Evict(i) PROVE Indexing(w) /\ view'[w] = view[w]
    BY <1>8 DEF Evict, TypeOK
<1>9. CASE Tick \/ ChangeOverride \/ UNCHANGED vars
    BY <1>9 DEF Tick, ChangeOverride, vars
<1> QED BY <1>1, <1>2, <1>3, <1>4, <1>5, <1>6, <1>7, <1>8, <1>9 DEF Next, Step

(***************************************************************************)
(* The manifest and its index.                                             *)
(***************************************************************************)

IndexIsTrue == IndexedMeansStored /\ CompleteIsReady /\ IndexersSeeTheDay

\* A merge keeps every layer that is there, and a complete day.
LEMMA MergeKeepsData ==
    ASSUME TypeOK, NEW w \in Workers, Merged(w)
    PROVE  /\ \A l \in Layers : Ready(manifest, l) => manifest'.layers[l] = manifest.layers[l]
           /\ manifest.day = "COMPLETE" => manifest' = manifest
           /\ manifest'.completed = manifest.completed
           /\ manifest'.status = manifest.status
           /\ manifest'.day \in {"COMPLETE", "PARTIAL"}
           /\ manifest'.day = "COMPLETE" =>
                manifest.day = "COMPLETE" \/ \A l \in Layers : Ready(manifest', l)
<1>1. manifest \in Manifest /\ batch[w] \in Layers /\ manifest' = Reconciled(w)
    BY DEF TypeOK, Merged
<1>2. CASE manifest.day = "COMPLETE"
    BY <1>1, <1>2 DEF Reconciled, Manifest
<1>3. CASE manifest.day # "COMPLETE"
    <2> DEFINE layers == [manifest.layers EXCEPT ![batch[w]] = Captured(w, @)]
               day    == IF \A l \in Layers : layers[l].data # 0 THEN "COMPLETE" ELSE "PARTIAL"
    <2>1. manifest' = [manifest EXCEPT !.layers = layers, !.day = day]
        BY <1>1, <1>3 DEF Reconciled
    <2>2. /\ manifest'.layers = layers /\ manifest'.day = day
          /\ manifest'.completed = manifest.completed /\ manifest'.status = manifest.status
        BY <1>1, <2>1 DEF Manifest
    <2>3. ASSUME NEW l \in Layers, Ready(manifest, l) PROVE layers[l] = manifest.layers[l]
        BY <1>1, <2>3 DEF Manifest, Captured, Ready
    <2>4. day = "COMPLETE" => \A l \in Layers : layers[l].data # 0
        OBVIOUS
    <2>5. day \in {"COMPLETE", "PARTIAL"}
        OBVIOUS
    <2> HIDE DEF layers, day
    <2> QED BY <1>3, <2>2, <2>3, <2>4, <2>5 DEF Ready
<1> QED BY <1>2, <1>3

\* A complete day stays complete, with the very same layers.
LEMMA CompleteStays ==
    ASSUME TypeOK, CompleteIsReady, [Next]_vars, manifest.day = "COMPLETE"
    PROVE  manifest'.day = "COMPLETE" /\ manifest'.layers = manifest.layers
<1>1. manifest \in Manifest
    BY DEF TypeOK
<1>2. CASE Closed
    BY <1>2, Constants DEF Closed, CompleteIsReady
<1>3. ASSUME NEW w \in Workers, Merged(w)
      PROVE  manifest'.day = "COMPLETE" /\ manifest'.layers = manifest.layers
    BY <1>3, MergeKeepsData
<1>4. ASSUME NEW w \in Workers, Indexed(w)
      PROVE  manifest'.day = "COMPLETE" /\ manifest'.layers = manifest.layers
    BY <1>1, <1>4 DEF Indexed, Manifest
<1> QED BY <1>2, <1>3, <1>4, ManifestSteps

\* A shard with the rows of a complete day keeps them.
LEMMA StoredStays ==
    ASSUME TypeOK, CompleteIsReady, IndexersSeeTheDay, [Next]_vars,
           manifest.day = "COMPLETE", NEW p \in Prefixes, shard[p] = Rows(manifest)
    PROVE  shard'[p] = Rows(manifest')
<1>1. Rows(manifest') = Rows(manifest)
    BY CompleteStays DEF Rows
<1>2. ASSUME NEW w \in Workers, Indexing(w) PROVE Rows(view[w]) = Rows(manifest)
    BY <1>2 DEF IndexersSeeTheDay, Rows
<1> QED BY <1>1, <1>2, ShardSteps

\* What a unit that indexes writes to a shard are the rows of the manifest.
LEMMA WrittenIsStored ==
    ASSUME TypeOK, CompleteIsReady, IndexersSeeTheDay, [Next]_vars,
           NEW w \in Workers, Indexing(w), NEW p \in Prefixes, shard'[p] = Rows(view[w])
    PROVE  shard'[p] = Rows(manifest')
BY CompleteStays DEF IndexersSeeTheDay, Rows

\* Nothing is indexed of an empty lane.
LEMMA InitIndexIsTrue == Init => IndexIsTrue
BY DEF Init, IndexIsTrue, IndexedMeansStored, CompleteIsReady, IndexersSeeTheDay,
       Indexing, Absent

\* Every step keeps what is counted as indexed stored.
LEMMA NextIndexedMeansStored ==
    ASSUME TypeOK, IndexIsTrue, [Next]_vars PROVE IndexedMeansStored'
<1> USE DEF IndexIsTrue
<1> SUFFICES ASSUME NEW p \in manifest'.completed PROVE shard'[p] = Rows(manifest')
    BY DEF IndexedMeansStored
<1>1. manifest \in Manifest
    BY DEF TypeOK
<1>2. ASSUME p \in manifest.completed PROVE shard'[p] = Rows(manifest')
    <2>1. manifest.day = "COMPLETE" /\ p \in Prefixes /\ shard[p] = Rows(manifest)
        BY <1>1, <1>2 DEF CompleteIsReady, IndexedMeansStored, Manifest
    <2> QED BY <2>1, StoredStays
<1>3. CASE Closed
    BY <1>3 DEF Closed, Absent
<1>4. ASSUME NEW w \in Workers, Merged(w) PROVE shard'[p] = Rows(manifest')
    BY <1>2, <1>4, MergeKeepsData
<1>5. ASSUME NEW w \in Workers, Indexed(w) PROVE shard'[p] = Rows(manifest')
    <2>1. Indexing(w) /\ view[w] \in Manifest /\ manifest.day = "COMPLETE"
        BY <1>5 DEF Indexed, Indexing, IndexersSeeTheDay, TypeOK
    <2>2. \/ p \in manifest.completed \cup view[w].completed
          \/ p \in Prefixes /\ shard'[p] = Rows(view[w])
        BY <1>1, <1>5 DEF Indexed, Manifest
    <2>3. CASE p \in view[w].completed
        <3>1. p \in Prefixes /\ shard[p] = Rows(manifest)
            BY <2>1, <2>3 DEF IndexersSeeTheDay, Manifest
        <3> QED BY <2>1, <3>1, StoredStays
    <2>4. CASE p \in Prefixes /\ shard'[p] = Rows(view[w])
        BY <2>1, <2>4, WrittenIsStored
    <2> QED BY <1>2, <2>2, <2>3, <2>4
<1>6. CASE UNCHANGED manifest
    BY <1>2, <1>6
<1> QED BY <1>3, <1>4, <1>5, <1>6, ManifestSteps

\* Every step keeps the day and its layers in agreement.
LEMMA NextCompleteIsReady ==
    ASSUME TypeOK, IndexIsTrue, [Next]_vars PROVE CompleteIsReady'
<1> USE DEF IndexIsTrue, CompleteIsReady
<1>1. manifest \in Manifest
    BY DEF TypeOK
<1>2. CASE Closed
    BY <1>2 DEF Closed, Absent
<1>3. ASSUME NEW w \in Workers, Merged(w) PROVE CompleteIsReady'
    BY <1>3, MergeKeepsData DEF Ready
<1>4. ASSUME NEW w \in Workers, Indexed(w) PROVE CompleteIsReady'
    <2>1. manifest.day = "COMPLETE"
        BY <1>4 DEF Indexed, IndexersSeeTheDay
    <2>2. manifest'.day = "COMPLETE" /\ manifest'.layers = manifest.layers
        BY <2>1, CompleteStays
    <2> QED BY <2>1, <2>2 DEF Ready
<1>5. CASE UNCHANGED manifest
    BY <1>5 DEF Ready
<1> QED BY <1>2, <1>3, <1>4, <1>5, ManifestSteps

\* Every step keeps true what the units that index rely on.
LEMMA NextIndexersSeeTheDay ==
    ASSUME TypeOK, IndexIsTrue, [Next]_vars PROVE IndexersSeeTheDay'
<1> USE DEF IndexIsTrue
<1> SUFFICES ASSUME NEW w \in Workers, Indexing(w)'
             PROVE  /\ manifest'.day = "COMPLETE"
                    /\ view'[w].layers = manifest'.layers
                    /\ \A p \in view'[w].completed : shard'[p] = Rows(manifest')
    BY DEF IndexersSeeTheDay
<1>1. ASSUME Indexing(w), view'[w].layers = view[w].layers,
             \A p \in view'[w].completed :
               p \in view[w].completed \/ (p \in Prefixes /\ shard'[p] = Rows(view[w]))
      PROVE  /\ manifest'.day = "COMPLETE"
             /\ view'[w].layers = manifest'.layers
             /\ \A p \in view'[w].completed : shard'[p] = Rows(manifest')
    <2>1. /\ manifest.day = "COMPLETE" /\ view[w].layers = manifest.layers
          /\ \A p \in view[w].completed : shard[p] = Rows(manifest)
        BY <1>1 DEF IndexersSeeTheDay
    <2>2. view[w].completed \subseteq Prefixes
        BY <1>1 DEF Indexing, TypeOK, Manifest
    <2>3. ASSUME NEW p \in view'[w].completed PROVE shard'[p] = Rows(manifest')
        BY <1>1, <2>1, <2>2, <2>3, StoredStays, WrittenIsStored
    <2> QED BY <1>1, <2>1, <2>3, CompleteStays
<1>2. CASE Indexing(w) /\ view'[w] = view[w]
    BY <1>1, <1>2
<1>3. CASE /\ manifest.day = "COMPLETE" /\ view'[w] = manifest
           /\ UNCHANGED <<manifest, shard>>
    BY <1>3 DEF IndexedMeansStored, Rows
<1>4. CASE /\ Indexing(w) /\ view'[w].layers = view[w].layers
           /\ \A p \in view'[w].completed :
                p \in view[w].completed \/ (p \in Prefixes /\ shard'[p] = Rows(view[w]))
    BY <1>1, <1>4
<1> QED BY <1>2, <1>3, <1>4, IndexerSteps

(***************************************************************************)
(* The limit of attempts.                                                  *)
(***************************************************************************)

\* Some of the invocations are finitely many, at most all.
LEMMA SomeWorkers ==
    ASSUME NEW S \in SUBSET Workers, NEW T \in SUBSET S
    PROVE  /\ IsFiniteSet(S)
           /\ Cardinality(S) \in Nat /\ Cardinality(T) \in Nat
           /\ Cardinality(Workers) \in Nat
           /\ Cardinality(T) <= Cardinality(S) /\ Cardinality(S) <= Cardinality(Workers)
BY Constants, FS_Subset, FS_CardinalityType

\* A unit counts among those that may attempt a layer once it has read the
\* manifest, and only if the limit was not reached then.
LEMMA AttemptSteps ==
    ASSUME TypeOK, [Next]_vars, NEW l \in Layers, NEW w \in MayAttempt(l)'
    PROVE  \/ w \in MayAttempt(l)
           \/ UNCHANGED manifest /\ manifest.layers[l].attempts < MaxAttempts
<1> DEFINE May(v) == (pc[v] = "calendar" \/ batch[v] = l)
                       /\ view[v].layers[l].attempts < MaxAttempts
<1> USE DEF files, world, unit, Go, Continue, Leave, ForgetUnit
<1>0. /\ w \in Workers /\ l # 0
      /\ pc'[w] = "calendar" \/ batch'[w] = l
      /\ view'[w].layers[l].attempts < MaxAttempts
    BY Constants DEF MayAttempt
<1> SUFFICES May(w) \/ (UNCHANGED manifest /\ manifest.layers[l].attempts < MaxAttempts)
    BY <1>0 DEF MayAttempt
<1>1. ASSUME NEW v \in Workers, ReadManifest(v)
      PROVE  May(w) \/ (UNCHANGED manifest /\ manifest.layers[l].attempts < MaxAttempts)
    BY <1>0, <1>1 DEF ReadManifest, TypeOK
<1>2. ASSUME NEW v \in Workers, Calendar(v) PROVE May(w)
    <2>1. pc[v] = "calendar"
        BY <1>2 DEF Calendar
    <2>2. CASE Continue(v) \/ Leave(v)
        BY <1>0, <2>1, <2>2 DEF TypeOK
    <2>3. CASE Go(v, "close") /\ UNCHANGED <<unit, policy>>
        BY <1>0, <2>1, <2>3 DEF TypeOK
    <2>4. CASE /\ \E k \in Layers : batch' = [batch EXCEPT ![v] = k]
               /\ Go(v, "fetch")
               /\ UNCHANGED <<policy, view, at, got>>
        BY <1>0, <2>1, <2>4 DEF TypeOK
    <2> QED BY <1>2, <2>2, <2>3, <2>4 DEF Calendar
<1>3. ASSUME NEW v \in Workers, SliceCommit(v) PROVE May(w)
    <2>1. Leave(v) \/ Continue(v)
        BY <1>3 DEF SliceCommit
    <2> QED BY <1>0, <2>1 DEF TypeOK
<1>4. ASSUME NEW v \in Workers, LegacyShard(v) PROVE May(w)
    BY <1>0, <1>4 DEF LegacyShard, TypeOK
<1>5. ASSUME NEW v \in Workers, Facade(v) PROVE May(w)
    BY <1>0, <1>5 DEF Facade, TypeOK
<1>6. ASSUME NEW v \in Workers, Wake(v) \/ OutOfBudget(v) \/ Fetch(v) \/ Reconcile(v)
               \/ Close(v) \/ SliceYield(v) \/ LegacyManifest(v) \/ Throw(v)
      PROVE  May(w)
    BY <1>0, <1>6 DEF Wake, OutOfBudget, Fetch, Reconcile, Close, SliceYield,
                      LegacyManifest, Throw, TypeOK
<1>7. ASSUME NEW i \in Isolates, Evict(i) PROVE May(w)
    BY <1>0, <1>7 DEF Evict, TypeOK
<1>8. CASE Tick \/ ChangeOverride \/ UNCHANGED vars
    BY <1>0, <1>8 DEF Tick, ChangeOverride, vars
<1> QED BY <1>1, <1>2, <1>3, <1>4, <1>5, <1>6, <1>7, <1>8 DEF Next, Step

\* A unit has chosen a layer whose limit it saw not reached.
LEMMA NextChosen ==
    ASSUME TypeOK, [Next]_vars, NEW w \in Workers, batch'[w] # 0,
           batch[w] # 0 => view[w].layers[batch[w]].attempts < MaxAttempts
    PROVE  view'[w].layers[batch'[w]].attempts < MaxAttempts
<1> USE DEF files, world, unit, Go, Continue, Leave, ForgetUnit
<1>1. ASSUME NEW v \in Workers, Calendar(v), v = w
      PROVE  view'[w].layers[batch'[w]].attempts < MaxAttempts
    BY <1>1 DEF Calendar, Eligible, TypeOK
<1>2. ASSUME NEW v \in Workers, Calendar(v), v # w
      PROVE  view'[w] = view[w] /\ batch'[w] = batch[w]
    BY <1>2 DEF Calendar, TypeOK
<1>3. ASSUME NEW v \in Workers, SliceCommit(v)
      PROVE  view'[w] = view[w] /\ batch'[w] = batch[w]
    <2>1. Leave(v) \/ Continue(v)
        BY <1>3 DEF SliceCommit
    <2> QED BY <2>1 DEF TypeOK
<1>4. ASSUME NEW v \in Workers, LegacyShard(v)
      PROVE  view'[w] = view[w] /\ batch'[w] = batch[w]
    BY <1>4 DEF LegacyShard, TypeOK
<1>5. ASSUME NEW v \in Workers, Facade(v) \/ ReadManifest(v)
      PROVE  view'[w] = view[w] /\ batch'[w] = batch[w]
    BY <1>5 DEF Facade, ReadManifest, TypeOK
<1>6. ASSUME NEW v \in Workers, Wake(v) \/ OutOfBudget(v) \/ Fetch(v) \/ Reconcile(v)
               \/ Close(v) \/ SliceYield(v) \/ LegacyManifest(v) \/ Throw(v)
      PROVE  view'[w] = view[w] /\ batch'[w] = batch[w]
    BY <1>6 DEF Wake, OutOfBudget, Fetch, Reconcile, Close, SliceYield, LegacyManifest,
                Throw, TypeOK
<1>7. ASSUME NEW i \in Isolates, Evict(i) PROVE view'[w] = view[w] /\ batch'[w] = batch[w]
    BY <1>7 DEF Evict, TypeOK
<1>8. CASE Tick \/ ChangeOverride \/ UNCHANGED vars
    BY <1>8 DEF Tick, ChangeOverride, vars
<1> QED BY <1>1, <1>2, <1>3, <1>4, <1>5, <1>6, <1>7, <1>8 DEF Next, Step

\* The attempts of a layer do not grow but by a merge of a unit that has room.
LEMMA AttemptsGrow ==
    ASSUME TypeOK, [Next]_vars, NEW l \in Layers
    PROVE  \/ manifest'.layers[l].attempts <= manifest.layers[l].attempts
           \/ \E w \in Workers :
                /\ Merged(w) /\ batch[w] = l
                /\ \/ manifest'.layers[l].attempts = view[w].layers[l].attempts + 1
                   \/ manifest'.layers[l].attempts = manifest.layers[l].attempts + 1
<1>1. manifest \in Manifest /\ manifest.layers[l].attempts \in Nat
    BY DEF TypeOK, Manifest, Layer
<1>2. CASE Closed
    <2>1. manifest'.layers[l] = Placeholder
        BY <1>2 DEF Closed, Absent
    <2> QED BY <1>1, <2>1 DEF Placeholder
<1>3. ASSUME NEW w \in Workers, Merged(w),
             manifest'.layers[l].attempts # manifest.layers[l].attempts
      PROVE  /\ batch[w] = l
             /\ \/ manifest'.layers[l].attempts = view[w].layers[l].attempts + 1
                \/ manifest'.layers[l].attempts = manifest.layers[l].attempts + 1
    <2>1. batch[w] \in Layers /\ manifest' = Reconciled(w)
        BY <1>3 DEF Merged, TypeOK
    <2>2. manifest'.layers = [manifest.layers EXCEPT ![batch[w]] = Captured(w, @)]
        BY <1>1, <1>3, <2>1 DEF Reconciled, Manifest
    <2>3. batch[w] = l /\ manifest'.layers[l] = Captured(w, manifest.layers[l])
        BY <1>1, <1>3, <2>1, <2>2 DEF Manifest
    <2> QED BY <1>3, <2>3 DEF Captured
<1>4. ASSUME NEW w \in Workers, Indexed(w) PROVE manifest'.layers = manifest.layers
    BY <1>1, <1>4 DEF Indexed, Manifest
<1> QED BY <1>1, <1>2, <1>3, <1>4, ManifestSteps

\* Nobody attempts anything of an empty lane.
LEMMA InitAttemptsHaveRoom == Init => AttemptsHaveRoom
<1> SUFFICES ASSUME Init PROVE AttemptsHaveRoom
    OBVIOUS
<1>1. ASSUME NEW l \in Layers
      PROVE  manifest.layers[l].attempts + Cardinality(MayAttempt(l))
               < MaxAttempts + Cardinality(Workers)
    <2>1. manifest.layers[l].attempts = 0
        BY DEF Init, Absent, Placeholder
    <2>2. MayAttempt(l) \in SUBSET Workers
        BY DEF MayAttempt
    <2>3. /\ Cardinality(MayAttempt(l)) \in Nat /\ Cardinality(Workers) \in Nat
          /\ Cardinality(MayAttempt(l)) <= Cardinality(Workers)
        BY <2>2, SomeWorkers
    <2> QED BY <2>1, <2>3, Constants
<1> QED BY <1>1 DEF AttemptsHaveRoom, Init

\* Every step leaves each unit that may attempt a layer its room.
LEMMA NextAttemptsHaveRoom ==
    ASSUME TypeOK, AttemptsHaveRoom, [Next]_vars PROVE AttemptsHaveRoom'
<1>1. ASSUME NEW l \in Layers
      PROVE  manifest'.layers[l].attempts + Cardinality(MayAttempt(l)')
               < MaxAttempts + Cardinality(Workers)
    <2> DEFINE a == manifest.layers[l].attempts
               b == manifest'.layers[l].attempts
    <2>1. a \in Nat /\ b \in Nat
        BY NextTypeOK DEF TypeOK, Manifest, Layer
    <2>2. MayAttempt(l) \in SUBSET Workers /\ MayAttempt(l)' \in SUBSET Workers
        BY DEF MayAttempt
    <2>3. /\ Cardinality(MayAttempt(l)) \in Nat /\ Cardinality(MayAttempt(l)') \in Nat
          /\ Cardinality(Workers) \in Nat
          /\ Cardinality(MayAttempt(l)) <= Cardinality(Workers)
          /\ Cardinality(MayAttempt(l)') <= Cardinality(Workers)
        BY <2>2, SomeWorkers
    <2>4. a + Cardinality(MayAttempt(l)) < MaxAttempts + Cardinality(Workers)
        BY DEF AttemptsHaveRoom
    <2>5. MaxAttempts \in Nat
        BY Constants
    <2> HIDE DEF a, b
    <2>6. CASE MayAttempt(l)' \subseteq MayAttempt(l)
        <3>1. Cardinality(MayAttempt(l)') <= Cardinality(MayAttempt(l))
            BY <2>2, <2>6, SomeWorkers
        <3>2. CASE b <= a
            BY <2>1, <2>3, <2>4, <2>5, <3>1, <3>2 DEF b
        <3>3. ASSUME NEW w \in Workers, Merged(w), batch[w] = l,
                     b = view[w].layers[l].attempts + 1 \/ b = a + 1
              PROVE  b + Cardinality(MayAttempt(l)') < MaxAttempts + Cardinality(Workers)
            <4>1. view[w].layers[l].attempts < MaxAttempts
                BY <3>3, Constants DEF AttemptsHaveRoom
            <4>2. view[w].layers[l].attempts \in Nat
                BY <3>3 DEF Merged, TypeOK, Manifest, Layer
            <4>3. w \in MayAttempt(l)
                BY <3>3, <4>1 DEF MayAttempt
            <4>4. w \notin MayAttempt(l)'
                BY <3>3, Constants DEF MayAttempt, Merged, Continue, Go, ForgetUnit, TypeOK
            <4>5. MayAttempt(l)' \in SUBSET (MayAttempt(l) \ {w})
                BY <2>6, <4>4
            <4>6. /\ IsFiniteSet(MayAttempt(l) \ {w})
                  /\ Cardinality(MayAttempt(l) \ {w}) = Cardinality(MayAttempt(l)) - 1
                BY <2>2, <4>3, SomeWorkers, FS_RemoveElement
            <4>7. Cardinality(MayAttempt(l)') <= Cardinality(MayAttempt(l)) - 1
                BY <4>5, <4>6, FS_Subset
            <4>8. CASE b = view[w].layers[l].attempts + 1
                BY <2>1, <2>3, <2>5, <4>1, <4>2, <4>7, <4>8
            <4>9. CASE b = a + 1
                BY <2>1, <2>3, <2>4, <2>5, <4>7, <4>9
            <4> QED BY <3>3, <4>8, <4>9
        <3> QED BY <3>2, <3>3, AttemptsGrow DEF a, b
    <2>7. CASE UNCHANGED manifest /\ a < MaxAttempts
        <3>1. b = a
            BY <2>7 DEF a, b
        <3> QED BY <2>1, <2>3, <2>5, <2>7, <3>1 DEF b
    <2> QED BY <2>6, <2>7, AttemptSteps DEF a, b
<1>2. ASSUME NEW w \in Workers, batch'[w] # 0
      PROVE  view'[w].layers[batch'[w]].attempts < MaxAttempts
    BY <1>2, NextChosen DEF AttemptsHaveRoom
<1> QED BY <1>1, <1>2 DEF AttemptsHaveRoom

(***************************************************************************)
(* Theorems.                                                               *)
(***************************************************************************)

\* CaptureInv is inductive.
LEMMA NextCaptureInv == CaptureInv /\ [Next]_vars => CaptureInv'
<1> SUFFICES ASSUME CaptureInv, [Next]_vars PROVE CaptureInv'
    OBVIOUS
<1>1. TypeOK /\ IndexIsTrue /\ AttemptsHaveRoom
    BY DEF CaptureInv, IndexIsTrue
<1> QED BY <1>1, NextTypeOK, NextIndexedMeansStored, NextCompleteIsReady,
           NextIndexersSeeTheDay, NextAttemptsHaveRoom DEF CaptureInv

\* A prefix counted as indexed has the rows the manifest names, whichever of the
\* two indexers counted it and however old the manifest it had read
\* (runAdaptiveHistoryIndexSlice, processIndexBatch).
THEOREM IndexIsAlwaysTrue == Spec => []CaptureInv
<1>1. Init => CaptureInv
    BY InitTypeOK, InitIndexIsTrue, InitAttemptsHaveRoom DEF CaptureInv, IndexIsTrue
<1> QED BY <1>1, NextCaptureInv, PTL DEF Spec

\* Overlapping invocations add at most one attempt each beyond the limit
\* (MAX_AUTOMATIC_RETRY_ATTEMPTS in dueLayerKeys).
THEOREM AttemptsStayBounded == Spec => []AttemptsAreBounded
<1>1. ASSUME CaptureInv PROVE AttemptsAreBounded
    <2>1. ASSUME NEW l \in Layers
          PROVE  manifest.layers[l].attempts < MaxAttempts + Cardinality(Workers)
        <3>1. MayAttempt(l) \in SUBSET Workers
            BY DEF MayAttempt
        <3>2. Cardinality(MayAttempt(l)) \in Nat /\ Cardinality(Workers) \in Nat
            BY <3>1, SomeWorkers
        <3>3. manifest.layers[l].attempts \in Nat
            BY <1>1 DEF CaptureInv, TypeOK, Manifest, Layer
        <3>4. manifest.layers[l].attempts + Cardinality(MayAttempt(l))
                < MaxAttempts + Cardinality(Workers)
            BY <1>1 DEF CaptureInv, AttemptsHaveRoom
        <3> QED BY <3>2, <3>3, <3>4, Constants
    <2> QED BY <2>1 DEF AttemptsAreBounded
<1> QED BY <1>1, IndexIsAlwaysTrue, PTL

\* No unit, closure or late merge takes back a layer's data or a complete day
\* (mergeReadyMonotonic).
THEOREM DataStays == Spec => DataIsKept
<1> DEFINE Kept ==
      /\ \A l \in Layers : Ready(manifest, l) => manifest'.layers[l] = manifest.layers[l]
      /\ manifest.day = "COMPLETE" => manifest'.day = "COMPLETE"
<1>1. ASSUME CaptureInv, [Next]_vars PROVE Kept
    <2>1. TypeOK /\ CompleteIsReady /\ manifest \in Manifest
        BY <1>1 DEF CaptureInv, TypeOK
    <2>2. manifest.day = "COMPLETE" => manifest'.day = "COMPLETE"
        BY <1>1, <2>1, CompleteStays
    <2>3. ASSUME NEW l \in Layers, Ready(manifest, l)
          PROVE  manifest'.layers[l] = manifest.layers[l]
        <3>1. ASSUME NEW w \in Workers, Merged(w)
              PROVE  manifest'.layers[l] = manifest.layers[l]
            BY <2>1, <2>3, <3>1, MergeKeepsData
        <3>2. ASSUME NEW w \in Workers, Indexed(w)
              PROVE  manifest'.layers[l] = manifest.layers[l]
            BY <2>1, <3>2 DEF Indexed, Manifest
        <3>3. ~Closed
            BY <2>3 DEF Closed
        <3> QED BY <1>1, <2>1, <3>1, <3>2, <3>3, ManifestSteps
    <2> QED BY <2>2, <2>3
<1> QED BY <1>1, IndexIsAlwaysTrue, PTL DEF Spec, DataIsKept

\* Only a unit of the older indexer takes the progress of the compact one back
\* (history-index-v2: "merge progress monotonically").
THEOREM ProgressStays == Spec => IndexProgressKept
<1> DEFINE Kept == \/ manifest.completed \cap Compact \subseteq manifest'.completed
                   \/ \E w \in Workers : pc[w] = "legacyManifest" /\ pc'[w] # pc[w]
<1>1. ASSUME CaptureInv, [Next]_vars PROVE Kept
    <2>1. TypeOK /\ CompleteIsReady /\ manifest \in Manifest
        BY <1>1 DEF CaptureInv, TypeOK
    <2>2. CASE Closed
        BY <2>1, <2>2, Constants DEF Closed, CompleteIsReady
    <2>3. ASSUME NEW w \in Workers, Merged(w) PROVE Kept
        BY <2>1, <2>3, MergeKeepsData
    <2>4. ASSUME NEW w \in Workers, Indexed(w) PROVE Kept
        BY <2>1, <2>4 DEF Indexed, Manifest
    <2> QED BY <1>1, <2>1, <2>2, <2>3, <2>4, ManifestSteps
<1> QED BY <1>1, IndexIsAlwaysTrue, PTL DEF Spec, IndexProgressKept

(***************************************************************************)
(* The first index of a complete day.                                      *)
(***************************************************************************)

DayIsIndexed ==
    manifest.day = "COMPLETE" /\ \A p \in Compact : shard[p] = Rows(manifest)

\* The units the facade has sent to the runner: until the day is indexed it
\* sends no further one, once the day is complete.
OlderUnits == {w \in Workers : pc[w] \in {"read", "legacyShard"}}

\* Each of them adds one two-digit prefix to what the others have counted.
HasRoom(m) ==
    Cardinality(m.completed \cap Legacy) + Cardinality(OlderUnits) <= Cardinality(Workers)

NothingCloses ==
    /\ override = "none" /\ manifest.day # "NO_TRADING_DAY"
    /\ \A w \in Workers : pc[w] # "close"

OlderUnitsAreFew ==
    ~DayIsIndexed =>
      /\ HasRoom(manifest)
      /\ \A w \in Workers : pc[w] \in {"legacyShard", "legacyManifest"} => HasRoom(view[w])

FirstIndexInv ==
    /\ NothingCloses
    /\ manifest.status = "READY" => DayIsIndexed
    /\ OlderUnitsAreFew

\* Two-digit prefixes among some prefixes are finitely many.
LEMMA SomeLegacy ==
    ASSUME NEW S
    PROVE  /\ IsFiniteSet(S \cap Legacy)
           /\ Cardinality(S \cap Legacy) \in Nat
           /\ Cardinality(S \cap Legacy) <= Cardinality(Legacy)
           /\ Cardinality(Legacy) \in Nat
<1>1. IsFiniteSet(Legacy)
    BY Constants, FS_Subset DEF Prefixes
<1>2. (S \cap Legacy) \in SUBSET Legacy
    OBVIOUS
<1> QED BY <1>1, <1>2, FS_Subset, FS_CardinalityType

\* The first one of a set of prefixes is one at most.
LEMMA FirstIsOne ==
    ASSUME NEW S \in SUBSET Legacy
    PROVE  Cardinality(First(S, 1)) <= 1
<1>1. ASSUME NEW p \in First(S, 1), NEW q \in First(S, 1) PROVE ~(p < q)
    <2> SUFFICES ASSUME p < q PROVE FALSE
        OBVIOUS
    <2> DEFINE below == {r \in S : r < q}
    <2>1. below \in SUBSET Legacy /\ p \in below
        BY DEF First
    <2>2. IsFiniteSet(Legacy)
        BY Constants, FS_Subset DEF Prefixes
    <2>3. IsFiniteSet(below) /\ Cardinality(below) \in Nat
        BY <2>1, <2>2, FS_Subset, FS_CardinalityType
    <2>4. Cardinality(below) < 1
        BY DEF First
    <2> HIDE DEF below
    <2>5. Cardinality(below) = 0
        BY <2>3, <2>4
    <2>6. below = {}
        BY <2>3, <2>5, FS_EmptySet
    <2> QED BY <2>1, <2>6
<1>2. ASSUME NEW p \in First(S, 1), NEW q \in First(S, 1) PROVE p = q
    <2>1. p \in Nat /\ q \in Nat
        BY Constants DEF First, Prefixes
    <2> QED BY <1>1, <2>1
<1>3. CASE First(S, 1) = {}
    BY <1>3, FS_EmptySet
<1>4. ASSUME NEW p \in First(S, 1) PROVE First(S, 1) = {p}
    BY <1>2
<1>5. ASSUME NEW p PROVE Cardinality({p}) = 1
    BY FS_Singleton
<1> QED BY <1>3, <1>4, <1>5

\* A day that is indexed stays so.
LEMMA IndexedDayStays ==
    ASSUME CaptureInv, [Next]_vars, DayIsIndexed PROVE DayIsIndexed'
<1>1. TypeOK /\ CompleteIsReady /\ IndexersSeeTheDay
    BY DEF CaptureInv
<1> QED BY <1>1, CompleteStays, StoredStays DEF DayIsIndexed, Prefixes

\* No date is closed while nobody edits the calendar override.
LEMMA NextNothingCloses ==
    ASSUME TypeOK, MaxOverrides = 0, NothingCloses, [Next]_vars PROVE NothingCloses'
<1> USE DEF NothingCloses, files, world, unit, Go, Continue, Leave, ForgetUnit
<1>1. manifest'.day # "NO_TRADING_DAY"
    <2>1. manifest \in Manifest
        BY DEF TypeOK
    <2>2. ASSUME NEW w \in Workers, Indexed(w) PROVE manifest'.day = manifest.day
        BY <2>1, <2>2 DEF Indexed, Manifest
    <2> QED BY <2>2, ManifestSteps, MergeKeepsData DEF Closed
<1>2. override' = "none"
    <2>1. ~ChangeOverride
        BY DEF ChangeOverride, TypeOK
    <2>2. ASSUME NEW w \in Workers, Wake(w) \/ Step(w) \/ Throw(w) PROVE UNCHANGED override
        BY <2>2 DEF Wake, Step, Facade, OutOfBudget, ReadManifest, Calendar, Fetch, Reconcile,
                    Close, SliceCommit, SliceYield, LegacyShard, LegacyManifest, Throw
    <2>3. ASSUME NEW i \in Isolates, Evict(i) PROVE UNCHANGED override
        BY <2>3 DEF Evict
    <2> QED BY <2>1, <2>2, <2>3 DEF Next, Tick, vars
<1>3. ASSUME NEW w \in Workers PROVE pc'[w] # "close"
    <2>1. ASSUME NEW v \in Workers, Calendar(v) PROVE pc'[w] # "close"
        <3>1. "CLOSED" \notin Gate
            BY DEF Gate
        <3>2. Continue(v) \/ Leave(v) \/ Go(v, "fetch")
            BY <2>1, <3>1 DEF Calendar
        <3> QED BY <3>2 DEF TypeOK
    <2>2. ASSUME NEW v \in Workers, SliceCommit(v) PROVE pc'[w] # "close"
        <3>1. Continue(v) \/ Leave(v)
            BY <2>2 DEF SliceCommit
        <3> QED BY <3>1 DEF TypeOK
    <2>3. ASSUME NEW v \in Workers, Wake(v) \/ Facade(v) \/ OutOfBudget(v) \/ ReadManifest(v)
                   \/ Fetch(v) \/ Reconcile(v) \/ Close(v) \/ SliceYield(v) \/ LegacyShard(v)
                   \/ LegacyManifest(v) \/ Throw(v)
          PROVE  pc'[w] # "close"
        BY <2>3 DEF Wake, Facade, OutOfBudget, ReadManifest, Fetch, Reconcile, Close,
                    SliceYield, LegacyShard, LegacyManifest, Throw, TypeOK
    <2>4. ASSUME NEW i \in Isolates, Evict(i) PROVE pc'[w] # "close"
        BY <2>4 DEF Evict, TypeOK
    <2>5. CASE Tick \/ ChangeOverride \/ UNCHANGED vars
        BY <2>5 DEF Tick, ChangeOverride, vars
    <2> QED BY <2>1, <2>2, <2>3, <2>4, <2>5 DEF Next, Step
<1> QED BY <1>1, <1>2, <1>3

\* The facade sends no unit of a complete day to the runner before it is READY.
LEMMA NoFurtherOlderUnits ==
    ASSUME TypeOK, [Next]_vars, manifest.day = "COMPLETE", manifest.status # "READY"
    PROVE  OlderUnits' \subseteq OlderUnits
<1> USE DEF files, world, unit, Go, Continue, Leave, ForgetUnit
<1> SUFFICES ASSUME NEW w \in Workers, pc'[w] \in {"read", "legacyShard"}
             PROVE  pc[w] \in {"read", "legacyShard"}
    BY DEF OlderUnits
<1>1. ASSUME NEW v \in Workers, Calendar(v) PROVE pc[w] \in {"read", "legacyShard"}
    <2>1. Continue(v) \/ Leave(v) \/ Go(v, "close") \/ Go(v, "fetch")
        BY <1>1 DEF Calendar
    <2> QED BY <2>1 DEF TypeOK
<1>2. ASSUME NEW v \in Workers, SliceCommit(v) PROVE pc[w] \in {"read", "legacyShard"}
    <2>1. Continue(v) \/ Leave(v)
        BY <1>2 DEF SliceCommit
    <2> QED BY <2>1 DEF TypeOK
<1>3. ASSUME NEW v \in Workers, Wake(v) \/ Facade(v) \/ OutOfBudget(v) \/ ReadManifest(v)
               \/ Fetch(v) \/ Reconcile(v) \/ Close(v) \/ SliceYield(v) \/ LegacyShard(v)
               \/ LegacyManifest(v) \/ Throw(v)
      PROVE  pc[w] \in {"read", "legacyShard"}
    BY <1>3 DEF Wake, Facade, OutOfBudget, ReadManifest, Fetch, Reconcile, Close,
                SliceYield, LegacyShard, LegacyManifest, Throw, TypeOK
<1>4. ASSUME NEW i \in Isolates, Evict(i) PROVE pc[w] \in {"read", "legacyShard"}
    BY <1>4 DEF Evict, TypeOK
<1>5. CASE Tick \/ ChangeOverride \/ UNCHANGED vars
    BY <1>5 DEF Tick, ChangeOverride, vars
<1> QED BY <1>1, <1>2, <1>3, <1>4, <1>5 DEF Next, Step

\* A unit of the older indexer keeps what it has read, or adds its one prefix.
LEMMA OlderSteps ==
    ASSUME TypeOK, [Next]_vars, NEW w \in Workers,
           pc'[w] \in {"legacyShard", "legacyManifest"}
    PROVE  \/ pc[w] \in {"legacyShard", "legacyManifest"} /\ view'[w] = view[w]
           \/ view'[w] = manifest
           \/ /\ pc[w] = "legacyShard" /\ pc'[w] = "legacyManifest"
              /\ view[w] \in Manifest
              /\ view'[w].completed =
                   view[w].completed \cup First(Legacy \ view[w].completed, 1)
<1> USE DEF files, world, unit, Go, Continue, Leave, ForgetUnit
<1> DEFINE Same == pc[w] \in {"legacyShard", "legacyManifest"} /\ view'[w] = view[w]
<1>1. ASSUME NEW v \in Workers, Calendar(v) PROVE Same
    BY <1>1 DEF Calendar, TypeOK
<1>2. ASSUME NEW v \in Workers, SliceCommit(v) PROVE Same
    <2>1. Continue(v) \/ Leave(v)
        BY <1>2 DEF SliceCommit
    <2> QED BY <2>1 DEF TypeOK
<1>3. ASSUME NEW v \in Workers, LegacyShard(v), v = w
      PROVE  /\ pc[w] = "legacyShard" /\ pc'[w] = "legacyManifest"
             /\ view[w] \in Manifest
             /\ view'[w].completed =
                  view[w].completed \cup First(Legacy \ view[w].completed, 1)
    <2>1. view[w] \in Manifest
        BY <1>3 DEF LegacyShard, TypeOK
    <2>2. view'[w] = [view[w] EXCEPT !.completed = @ \cup First(Legacy \ view[w].completed, 1)]
        BY <1>3 DEF LegacyShard, TypeOK
    <2>3. pc[w] = "legacyShard" /\ pc'[w] = "legacyManifest"
        BY <1>3 DEF LegacyShard, TypeOK
    <2> QED BY <2>1, <2>2, <2>3 DEF Manifest
<1>4. ASSUME NEW v \in Workers, LegacyShard(v), v # w PROVE Same
    BY <1>4 DEF LegacyShard, TypeOK
<1>5. ASSUME NEW v \in Workers, ReadManifest(v) PROVE Same \/ view'[w] = manifest
    BY <1>5 DEF ReadManifest, TypeOK
<1>6. ASSUME NEW v \in Workers, Wake(v) \/ Facade(v) \/ OutOfBudget(v) \/ Fetch(v)
               \/ Reconcile(v) \/ Close(v) \/ SliceYield(v) \/ LegacyManifest(v) \/ Throw(v)
      PROVE  Same
    BY <1>6 DEF Wake, Facade, OutOfBudget, Fetch, Reconcile, Close, SliceYield,
                LegacyManifest, Throw, TypeOK
<1>7. ASSUME NEW i \in Isolates, Evict(i) PROVE Same
    BY <1>7 DEF Evict, TypeOK
<1>8. CASE Tick \/ ChangeOverride \/ UNCHANGED vars
    BY <1>8 DEF Tick, ChangeOverride, vars
<1> QED BY <1>1, <1>2, <1>3, <1>4, <1>5, <1>6, <1>7, <1>8 DEF Next, Step

\* Fewer units and fewer two-digit prefixes leave as much room.
LEMMA FewerHaveRoom ==
    ASSUME NEW A \in SUBSET Workers, NEW B \in SUBSET A, NEW C, NEW D,
           D \cap Legacy \subseteq C \cap Legacy,
           Cardinality(C \cap Legacy) + Cardinality(A) <= Cardinality(Workers)
    PROVE  Cardinality(D \cap Legacy) + Cardinality(B) <= Cardinality(Workers)
<1>1. /\ Cardinality(A) \in Nat /\ Cardinality(B) \in Nat /\ Cardinality(Workers) \in Nat
      /\ Cardinality(B) <= Cardinality(A)
    BY SomeWorkers
<1>2. /\ IsFiniteSet(C \cap Legacy)
      /\ Cardinality(C \cap Legacy) \in Nat /\ Cardinality(D \cap Legacy) \in Nat
    BY SomeLegacy
<1>3. Cardinality(D \cap Legacy) <= Cardinality(C \cap Legacy)
    BY <1>2, FS_Subset
<1> QED BY <1>1, <1>2, <1>3

\* Without two-digit prefixes there is room for every unit.
LEMMA EmptyHasRoom ==
    ASSUME NEW A \in SUBSET Workers, NEW C, C \cap Legacy = {}
    PROVE  Cardinality(C \cap Legacy) + Cardinality(A) <= Cardinality(Workers)
<1>1. /\ Cardinality(A) \in Nat /\ Cardinality(Workers) \in Nat
      /\ Cardinality(A) <= Cardinality(Workers)
    BY SomeWorkers
<1>2. Cardinality(C \cap Legacy) = 0
    BY FS_EmptySet
<1> QED BY <1>1, <1>2

\* A unit that leaves makes room for the prefix it adds.
LEMMA OneForOne ==
    ASSUME NEW A \in SUBSET Workers, NEW w \in A, NEW B \in SUBSET (A \ {w}),
           NEW C \in SUBSET Prefixes,
           Cardinality(C \cap Legacy) + Cardinality(A) <= Cardinality(Workers)
    PROVE  Cardinality((C \cup First(Legacy \ C, 1)) \cap Legacy) + Cardinality(B)
             <= Cardinality(Workers)
<1> DEFINE one == First(Legacy \ C, 1)
           old == C \cap Legacy
<1>1. one \in SUBSET Legacy /\ (C \cup one) \cap Legacy = old \cup one /\ old \cap one = {}
    BY FirstAreOfIt
<1>2. Cardinality(one) <= 1
    BY FirstIsOne
<1>3. IsFiniteSet(old) /\ IsFiniteSet(one)
    BY <1>1, SomeLegacy, FS_Subset
<1>4. Cardinality(old) \in Nat /\ Cardinality(one) \in Nat
    BY <1>3, FS_CardinalityType
<1> HIDE DEF one, old
<1>5. Cardinality(old \cup one) = Cardinality(old) + Cardinality(one)
    <2>1. Cardinality(old \cup one)
            = Cardinality(old) + Cardinality(one) - Cardinality(old \cap one)
        BY <1>3, FS_Union
    <2>2. Cardinality(old \cap one) = 0
        BY <1>1, FS_EmptySet
    <2> QED BY <1>4, <2>1, <2>2
<1>6. IsFiniteSet(A) /\ Cardinality(A) \in Nat /\ Cardinality(Workers) \in Nat
    BY SomeWorkers
<1>7. IsFiniteSet(A \ {w}) /\ Cardinality(A \ {w}) = Cardinality(A) - 1
    BY <1>6, FS_RemoveElement
<1>8. Cardinality(B) \in Nat /\ Cardinality(B) <= Cardinality(A \ {w})
    BY <1>7, FS_Subset, FS_CardinalityType
<1>9. Cardinality(old) + Cardinality(A) <= Cardinality(Workers)
    BY DEF old
<1>10. Cardinality(old \cup one) + Cardinality(B) <= Cardinality(Workers)
    BY <1>2, <1>4, <1>5, <1>6, <1>7, <1>8, <1>9
<1> QED BY <1>1, <1>10 DEF one

\* The older indexer cannot finish a day that the compact one has not.
LEMMA OlderNeverFinishes ==
    ASSUME Cardinality(Legacy) > Cardinality(Workers),
           NEW m, HasRoom(m)
    PROVE  ~(Legacy \subseteq m.completed)
<1> SUFFICES ASSUME Legacy \subseteq m.completed PROVE FALSE
    OBVIOUS
<1>1. m.completed \cap Legacy = Legacy
    OBVIOUS
<1>2. OlderUnits \in SUBSET Workers
    BY DEF OlderUnits
<1>3. Cardinality(OlderUnits) \in Nat /\ Cardinality(Workers) \in Nat
    BY <1>2, SomeWorkers
<1>4. Cardinality(Legacy) \in Nat
    BY SomeLegacy
<1>5. Cardinality(Legacy) + Cardinality(OlderUnits) <= Cardinality(Workers)
    BY <1>1 DEF HasRoom
<1> QED BY <1>3, <1>4, <1>5

\* READY is only said of an indexed day.
LEMMA NextReadyIsIndexed ==
    ASSUME CaptureInv, FirstIndexInv, [Next]_vars, manifest'.status = "READY",
           Cardinality(Legacy) > Cardinality(Workers)
    PROVE  DayIsIndexed'
<1>1. TypeOK /\ CompleteIsReady /\ IndexersSeeTheDay /\ manifest \in Manifest
    BY DEF CaptureInv, TypeOK
<1>2. IndexedMeansStored'
    BY NextCaptureInv DEF CaptureInv
<1>3. CASE manifest.status = "READY"
    BY <1>3, IndexedDayStays DEF FirstIndexInv
<1>4. ASSUME NEW w \in Workers, Indexed(w), ~DayIsIndexed PROVE DayIsIndexed'
    <2>1. manifest.day = "COMPLETE" /\ manifest'.day = "COMPLETE"
        BY <1>1, <1>4, CompleteStays DEF Indexed, IndexersSeeTheDay
    <2>2. PICK done, status :
            /\ manifest' = [manifest EXCEPT !.completed = done, !.status = status]
            /\ \/ /\ pc[w] = "slice" /\ (status = "READY" => done = Compact)
               \/ /\ pc[w] = "legacyManifest" /\ done = view[w].completed
                  /\ (status = "READY" => Legacy \subseteq done)
        BY <1>4 DEF Indexed
    <2>3. manifest'.completed = done /\ status = "READY"
        BY <1>1, <2>2 DEF Manifest
    <2>4. CASE done = Compact
        BY <1>2, <2>1, <2>3, <2>4 DEF IndexedMeansStored, DayIsIndexed
    <2>5. CASE pc[w] = "legacyManifest" /\ Legacy \subseteq view[w].completed
        <3>1. HasRoom(view[w])
            BY <1>4, <2>5 DEF FirstIndexInv, OlderUnitsAreFew
        <3> QED BY <2>5, <3>1, OlderNeverFinishes
    <2> QED BY <2>2, <2>3, <2>4, <2>5
<1>5. CASE DayIsIndexed
    BY <1>5, IndexedDayStays
<1>6. ASSUME NEW w \in Workers, Merged(w) PROVE manifest.status = "READY"
    BY <1>1, <1>6, MergeKeepsData
<1>7. ~Closed
    BY DEF Closed, FirstIndexInv, NothingCloses
<1> QED BY <1>1, <1>3, <1>4, <1>5, <1>6, <1>7, ManifestSteps

\* Every step leaves room, until the day is indexed.
LEMMA NextOlderUnitsAreFew ==
    ASSUME CaptureInv, FirstIndexInv, [Next]_vars PROVE OlderUnitsAreFew'
<1> SUFFICES ASSUME ~DayIsIndexed'
             PROVE  /\ HasRoom(manifest)'
                    /\ \A w \in Workers :
                         pc'[w] \in {"legacyShard", "legacyManifest"} => HasRoom(view[w])'
    BY DEF OlderUnitsAreFew
<1>1. /\ TypeOK /\ CompleteIsReady /\ IndexersSeeTheDay /\ manifest \in Manifest
    BY DEF CaptureInv, TypeOK
<1>2. ~DayIsIndexed /\ manifest.status # "READY"
    BY IndexedDayStays DEF FirstIndexInv
<1>3. /\ HasRoom(manifest)
      /\ \A w \in Workers : pc[w] \in {"legacyShard", "legacyManifest"} => HasRoom(view[w])
    BY <1>2 DEF FirstIndexInv, OlderUnitsAreFew
<1>4. OlderUnits \in SUBSET Workers /\ OlderUnits' \in SUBSET Workers
    BY DEF OlderUnits
<1>5. ~Closed
    BY DEF Closed, FirstIndexInv, NothingCloses
<1>6. CASE manifest.day # "COMPLETE"
    <2>1. manifest.completed = {} /\ \A w \in Workers : ~Indexing(w)
        BY <1>1, <1>6 DEF CompleteIsReady, IndexersSeeTheDay
    <2>2. manifest'.completed = {}
        BY <1>1, <1>5, <2>1, ManifestSteps, MergeKeepsData DEF Indexed
    <2>3. HasRoom(manifest)'
        BY <1>4, <2>2, EmptyHasRoom DEF HasRoom
    <2>4. ASSUME NEW w \in Workers, pc'[w] \in {"legacyShard", "legacyManifest"}
          PROVE  HasRoom(view[w])'
        <3>1. pc[w] \notin {"legacyShard", "legacyManifest"}
            BY <2>1 DEF Indexing
        <3>2. view'[w] = manifest
            BY <1>1, <2>4, <3>1, OlderSteps
        <3> QED BY <1>4, <2>1, <3>2, EmptyHasRoom DEF HasRoom
    <2> QED BY <2>3, <2>4
<1>7. CASE manifest.day = "COMPLETE"
    <2>1. OlderUnits' \in SUBSET OlderUnits
        BY <1>1, <1>2, <1>7, NoFurtherOlderUnits
    <2>2. ASSUME NEW m, HasRoom(m), NEW d, d \cap Legacy \subseteq m.completed \cap Legacy
          PROVE  Cardinality(d \cap Legacy) + Cardinality(OlderUnits') <= Cardinality(Workers)
        BY <1>4, <2>1, <2>2, FewerHaveRoom DEF HasRoom
    <2>3. HasRoom(manifest)'
        <3>1. CASE manifest'.completed = manifest.completed
            BY <1>3, <2>2, <3>1 DEF HasRoom
        <3>2. ASSUME NEW w \in Workers, Indexed(w) PROVE HasRoom(manifest)'
            <4>1. \/ manifest'.completed \subseteq Compact
                  \/ pc[w] = "legacyManifest" /\ manifest'.completed = view[w].completed
                BY <1>1, <3>2 DEF Indexed, Manifest
            <4>2. CASE manifest'.completed \subseteq Compact
                BY <1>4, <4>2, Constants, EmptyHasRoom DEF HasRoom
            <4>3. CASE pc[w] = "legacyManifest" /\ manifest'.completed = view[w].completed
                BY <1>3, <2>2, <4>3 DEF HasRoom
            <4> QED BY <4>1, <4>2, <4>3
        <3> QED BY <1>1, <1>5, <3>1, <3>2, ManifestSteps, MergeKeepsData
    <2>4. ASSUME NEW w \in Workers, pc'[w] \in {"legacyShard", "legacyManifest"}
          PROVE  HasRoom(view[w])'
        <3>1. CASE pc[w] \in {"legacyShard", "legacyManifest"} /\ view'[w] = view[w]
            BY <1>3, <2>2, <3>1 DEF HasRoom
        <3>2. CASE view'[w] = manifest
            BY <1>3, <2>2, <3>2 DEF HasRoom
        <3>3. CASE /\ pc[w] = "legacyShard" /\ pc'[w] = "legacyManifest"
                   /\ view[w] \in Manifest
                   /\ view'[w].completed =
                        view[w].completed \cup First(Legacy \ view[w].completed, 1)
            <4>1. w \in OlderUnits /\ OlderUnits' \in SUBSET (OlderUnits \ {w})
                BY <2>1, <3>3 DEF OlderUnits
            <4>2. view[w].completed \in SUBSET Prefixes
                BY <3>3 DEF Manifest
            <4>3. Cardinality(view[w].completed \cap Legacy) + Cardinality(OlderUnits)
                    <= Cardinality(Workers)
                BY <1>3, <3>3 DEF HasRoom
            <4> QED BY <1>4, <3>3, <4>1, <4>2, <4>3, OneForOne DEF HasRoom
        <3> QED BY <1>1, <2>4, <3>1, <3>2, <3>3, OlderSteps
    <2> QED BY <2>3, <2>4
<1> QED BY <1>6, <1>7

\* While no closure lands, and with more two-digit prefixes than invocations, a
\* complete day whose index says READY has its rows in every compact shard,
\* although units of the older indexer may count prefixes of their own and write
\* the progress back (runAdaptiveDailyMarketDataCapture, processIndexBatch).
THEOREM CompleteIsIndexed ==
    ASSUME MaxOverrides = 0, Cardinality(Legacy) > Cardinality(Workers)
    PROVE  Spec => []CompleteDayIsIndexed
<1>1. Init => FirstIndexInv
    <2> SUFFICES ASSUME Init PROVE FirstIndexInv
        OBVIOUS
    <2>1. OlderUnits \in SUBSET Workers /\ manifest.completed \cap Legacy = {}
        BY DEF OlderUnits, Init, Absent
    <2>2. HasRoom(manifest)
        BY <2>1, EmptyHasRoom DEF HasRoom
    <2> QED BY <2>2 DEF Init, Absent, FirstIndexInv, NothingCloses, OlderUnitsAreFew
<1>2. CaptureInv /\ FirstIndexInv /\ [Next]_vars => FirstIndexInv'
    <2> SUFFICES ASSUME CaptureInv, FirstIndexInv, [Next]_vars PROVE FirstIndexInv'
        OBVIOUS
    <2>1. TypeOK /\ NothingCloses
        BY DEF CaptureInv, FirstIndexInv
    <2> QED BY <2>1, NextNothingCloses, NextReadyIsIndexed, NextOlderUnitsAreFew
            DEF FirstIndexInv
<1>3. FirstIndexInv => CompleteDayIsIndexed
    BY DEF FirstIndexInv, DayIsIndexed, CompleteDayIsIndexed
<1> QED BY <1>1, <1>2, <1>3, IndexIsAlwaysTrue, PTL DEF Spec
=============================================================================
