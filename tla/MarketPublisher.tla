-------------------------- MODULE MarketPublisher --------------------------
(***************************************************************************)
(* The publisher of market-data-publisher-v5.ts.  Once a trade date is     *)
(* complete and indexed, the units of the DAILY lane audit the date's      *)
(* prefix shards one by one and note a reference to each shard's blob in   *)
(* the date's publish state.  The unit that has a reference for every      *)
(* prefix commits them as the date's generation manifest, which never      *)
(* changes again, and then moves the published pointer to it.  The gateway *)
(* reads the pointer, the manifest and the pinned blobs.                   *)
(*                                                                         *)
(* A date that is complete keeps its layers (DailyCapture, DataIsKept), so *)
(* it has one generation.  One store call is one step.                     *)
(***************************************************************************)
EXTENDS Naturals, FiniteSets

CONSTANTS
    Workers,    \* invocations that may overlap
    Days,       \* trade dates of one month
    Compact,    \* one-digit symbol prefixes
    Legacy,     \* two-digit ones
    Index,      \* Index[d]: completed_prefixes of d's index, once READY
    NoPin, NoManifest,
    MaxFaults,  \* bound: exceptions and evictions
    MaxDamage,  \* bound: shards that stop matching the snapshots
    MaxRewrites \* bound: shards written again by an overlapping index unit

Prefixes == Compact \cup Legacy

\* A reference names a blob by its sha: it stands for the shard as it was.
\* The version is what updated_at makes of each write.
Shard      == [days : SUBSET Days, version : Nat]
References == [Prefixes -> Shard \cup {NoPin}]

ASSUME PublisherAssumption ==
    /\ IsFiniteSet(Days) /\ Days # {} /\ Days = 1..Cardinality(Days)
    /\ Prefixes \subseteq Nat /\ IsFiniteSet(Prefixes) /\ Compact \cap Legacy = {}
    /\ Index \in [Days -> (SUBSET Prefixes) \ {{}}]
    /\ NoPin \notin Shard /\ NoManifest \notin References
    /\ {MaxFaults, MaxDamage, MaxRewrites} \subseteq Nat

VARIABLES
    shard,      \* shard[p]: the days whose canonical rows it has, and its blob
    indexed,    \* indexed[d]: the prefixes d's manifest counts as indexed
    history,    \* the backfill state: none, its cursor inside the month, past it
    today,      \* the date the schedule decides on
    refs,       \* refs[d]: references of d's publish state
    generation, \* generation[d]: the references of d's generation manifest
    pointer,    \* the published date, 0 for none
    pc,         \* where each invocation is
    day,        \* the date its unit publishes
    base,       \* the references its unit found in the publish state
    selected,   \* prefixes its unit has yet to audit
    pins,       \* references its unit has made
    outcome,    \* how its last unit ended, as far as it matters
    faults, damages, rewrites

published == <<refs, generation, pointer>>
source    == <<shard, indexed, history, today, damages, rewrites>>
unit      == <<day, base, selected, pins>>
vars      == <<shard, indexed, history, today, refs, generation, pointer, pc,
               day, base, selected, pins, outcome, faults, damages, rewrites>>

LastDay  == CHOOSE d \in Days : \A e \in Days : e <= d

NoReferences == [p \in Prefixes |-> NoPin]

Referenced(r) == {p \in Prefixes : r[p] # NoPin}

\* {...left, ...right}
Joined(left, right) == [p \in Prefixes |-> IF right[p] # NoPin THEN right[p] ELSE left[p]]

\* The manifest is COMPLETE and its index READY.
Canonical(d) == indexed[d] = Index[d]

First(S, n) == {p \in S : Cardinality({q \in S : q < p}) < n}

\* What a unit knows at the end: what it found and what it made.
Planned(w) == Joined(base[w], pins[w])

Go(w, where) == pc' = [pc EXCEPT ![w] = where]

End(w, how) ==
    /\ Go(w, "idle")
    /\ outcome' = [outcome EXCEPT ![w] = how]
    /\ base' = [base EXCEPT ![w] = NoReferences]
    /\ selected' = [selected EXCEPT ![w] = {}]
    /\ pins' = [pins EXCEPT ![w] = NoReferences]
    /\ UNCHANGED day

(***************************************************************************)
(* One unit: runMarketDataPublisher.                                       *)
(***************************************************************************)

Wake(w) ==
    /\ pc[w] = "idle"
    /\ day' = [day EXCEPT ![w] = today]
    /\ outcome' = [outcome EXCEPT ![w] = "ended"]
    /\ Go(w, "check")
    /\ UNCHANGED <<source, published, base, selected, pins, faults>>

\* Mutant of Check: it waits for the bootstrap even when it is past the month.
CheckForever(w) ==
    /\ pc[w] = "check"
    /\ \/ /\ ~Canonical(day[w]) \/ history # "none"
          /\ End(w, "ended")
       \/ /\ Canonical(day[w]) /\ history = "none"
          /\ Go(w, "plan")
          /\ UNCHANGED <<unit, outcome>>
    /\ UNCHANGED <<source, published, faults>>

\* The date must be complete and indexed, and the history cursor must not be
\* inside its month.
Check(w) ==
    /\ pc[w] = "check"
    /\ \/ /\ ~Canonical(day[w]) \/ history = "inside"
          /\ End(w, "ended")
       \/ /\ Canonical(day[w]) /\ history # "inside"
          /\ Go(w, "plan")
          /\ UNCHANGED <<unit, outcome>>
    /\ UNCHANGED <<source, published, faults>>

\* It reads the publish state, and takes on the first pending prefixes, as
\* many as the budget admits.
Plan(w) ==
    /\ pc[w] = "plan"
    /\ LET found   == [p \in Prefixes |-> IF p \in Index[day[w]] THEN refs[day[w]][p] ELSE NoPin]
           pending == Index[day[w]] \ Referenced(found)
       IN  \E n \in 0..Cardinality(pending) :
             /\ pending # {} => n > 0
             /\ base' = [base EXCEPT ![w] = found]
             /\ selected' = [selected EXCEPT ![w] = First(pending, n)]
             /\ Go(w, IF n = 0 THEN "commit" ELSE "pin")
    /\ UNCHANGED <<source, published, day, pins, outcome, faults>>

\* PUBLISH_YIELD: prefixes are pending and the deadline is too near.
Yield(w) ==
    /\ pc[w] = "plan"
    /\ Index[day[w]] \ Referenced(refs[day[w]]) # {}
    /\ End(w, "ended")
    /\ UNCHANGED <<source, published, faults>>

\* Mutant of Audited: the rows are not compared.
AuditedNever(p, d) == p \in Legacy

\* auditMaterializedPrefix: the shard must have exactly the rows of the date's
\* snapshots.  expectedRowsForPrefixes files those under the first two digits
\* of the symbol, so a one-digit prefix has none: canonical_prefix_empty.
Audited(p, d) == p \in Legacy /\ d \in shard[p].days

\* The next selected prefix is read and audited; its blob is referenced.
Pin(w) ==
    /\ pc[w] = "pin"
    /\ LET p == CHOOSE q \in selected[w] : \A r \in selected[w] : q <= r IN
       \/ /\ ~Audited(p, day[w])
          /\ End(w, "ended")
       \/ /\ Audited(p, day[w])
          /\ pins' = [pins EXCEPT ![w][p] = shard[p]]
          /\ selected' = [selected EXCEPT ![w] = @ \ {p}]
          /\ Go(w, IF selected[w] = {p} THEN "commit" ELSE "pin")
          /\ UNCHANGED <<day, base, outcome>>
    /\ UNCHANGED <<source, published, faults>>

\* Mutant of Disputed: the unit's own reference replaces the other.
DisputedNever(w) == {}

\* The prefixes for which the state has meanwhile another reference.
Disputed(w) ==
    {p \in Prefixes : pins[w][p] # NoPin /\ refs[day[w]][p] \notin {NoPin, pins[w][p]}}

\* Mutant of Finished: the finishing unit is the one that made the last one.
FinishedByPins(w) == Referenced(pins[w]) # {}

\* The unit knows a reference for every prefix.
Finished(w) == Referenced(Planned(w)) = Index[day[w]]

\* published_generation_manifest_immutable_conflict: created_at is the clock
\* of the unit, so no manifest equals one that another unit has written.
Conflict(w) == Finished(w) /\ generation[day[w]] # NoManifest

\* One commit: the state, merged with what it is now, and when the unit knows
\* every reference the generation manifest.
Commit(w) ==
    /\ pc[w] = "commit"
    /\ Disputed(w) = {} /\ ~Conflict(w)
    /\ refs' = [refs EXCEPT ![day[w]] = Joined(@, pins[w])]
    /\ IF Finished(w)
       THEN /\ generation' = [generation EXCEPT ![day[w]] = Planned(w)]
            /\ Go(w, "point")
            /\ UNCHANGED <<unit, outcome>>
       ELSE /\ \/ End(w, "ended")        \* no budget for another unit
               \/ /\ Go(w, "check")
                  /\ base' = [base EXCEPT ![w] = NoReferences]
                  /\ pins' = [pins EXCEPT ![w] = NoReferences]
                  /\ UNCHANGED <<day, selected, outcome>>
            /\ UNCHANGED generation
    /\ UNCHANGED <<source, pointer, faults>>

\* A merge throws: nothing of the commit is written.
CommitThrows(w) ==
    /\ pc[w] = "commit"
    /\ \/ Disputed(w) # {} /\ End(w, "ended")
       \/ Disputed(w) = {} /\ Conflict(w) /\ End(w, "manifest_conflict")
    /\ UNCHANGED <<source, published, faults>>

\* GITHUB_ATOMIC_CAS_EXHAUSTED: the branch moved under each attempt.
CommitLoses(w) ==
    /\ pc[w] = "commit"
    /\ End(w, "ended")
    /\ UNCHANGED <<source, published, faults>>

\* ensurePublishedPointer: whatever the pointer is, it becomes this date's.
Point(w) ==
    /\ pc[w] = "point"
    /\ pointer' = day[w]
    /\ End(w, "ended")
    /\ UNCHANGED <<source, refs, generation, faults>>

(***************************************************************************)
(* What is around the publisher.                                           *)
(***************************************************************************)

\* An index slice of DailyCapture: a shard, and the manifest that counts it.
IndexShard(p) ==
    /\ p \in Index[today] \ indexed[today]
    /\ shard' = [shard EXCEPT ![p] = [days |-> @.days \cup {today}, version |-> @.version + 1]]
    /\ indexed' = [indexed EXCEPT ![today] = @ \cup {p}]
    /\ UNCHANGED <<history, today, published, pc, unit, outcome, faults, damages, rewrites>>

\* An overlapping index unit writes a shard again, with the same rows.
Rewrite(p) ==
    /\ rewrites < MaxRewrites
    /\ p \in indexed[today]
    /\ rewrites' = rewrites + 1
    /\ shard' = [shard EXCEPT ![p].version = @ + 1]
    /\ UNCHANGED <<indexed, history, today, published, pc, unit, outcome, faults, damages>>

\* A shard stops matching the snapshots, as in the failure injection of
\* tests/market-data-publisher.test.ts, and is put right again.
Damage(p) ==
    /\ damages < MaxDamage
    /\ \E d \in shard[p].days :
         shard' = [shard EXCEPT ![p] = [days |-> @.days \ {d}, version |-> @.version + 1]]
    /\ damages' = damages + 1
    /\ UNCHANGED <<indexed, history, today, published, pc, unit, outcome, faults, rewrites>>

Repair(p) ==
    /\ \E d \in Days :
         /\ p \in indexed[d] /\ d \notin shard[p].days
         /\ shard' = [shard EXCEPT ![p] = [days |-> @.days \cup {d}, version |-> @.version + 1]]
    /\ UNCHANGED <<indexed, history, today, published, pc, unit, outcome, faults, damages, rewrites>>

\* The one-shot history bootstrap starts, and its cursor leaves the month.
HistoryMoves ==
    /\ history # "past"
    /\ history' = IF history = "none" THEN "inside" ELSE "past"
    /\ UNCHANGED <<shard, indexed, today, published, pc, unit, outcome, faults, damages, rewrites>>

\* The windows of two dates are hours apart, a wake lasts half a minute.
NextDay ==
    /\ today < LastDay
    /\ \A w \in Workers : pc[w] = "idle"
    /\ today' = today + 1
    /\ UNCHANGED <<shard, indexed, history, published, pc, unit, outcome, faults, damages, rewrites>>

\* An exception of a store call, or an eviction: nothing tells the next unit.
CutOff(w) ==
    /\ pc[w] # "idle"
    /\ faults < MaxFaults
    /\ faults' = faults + 1
    /\ End(w, "ended")
    /\ UNCHANGED <<source, published>>

Init ==
    /\ shard = [p \in Prefixes |-> [days |-> {}, version |-> 0]]
    /\ indexed = [d \in Days |-> {}]
    /\ history = "none"
    /\ today = 1
    /\ refs = [d \in Days |-> NoReferences]
    /\ generation = [d \in Days |-> NoManifest]
    /\ pointer = 0
    /\ pc = [w \in Workers |-> "idle"]
    /\ day = [w \in Workers |-> 1]
    /\ base = [w \in Workers |-> NoReferences]
    /\ selected = [w \in Workers |-> {}]
    /\ pins = [w \in Workers |-> NoReferences]
    /\ outcome = [w \in Workers |-> "ended"]
    /\ faults = 0
    /\ damages = 0
    /\ rewrites = 0

Step(w) ==
    \/ Check(w) \/ Plan(w) \/ Yield(w) \/ Pin(w)
    \/ Commit(w) \/ CommitThrows(w) \/ CommitLoses(w) \/ Point(w)

Next ==
    \/ \E w \in Workers : Wake(w) \/ Step(w) \/ CutOff(w)
    \/ \E p \in Prefixes : IndexShard(p) \/ Rewrite(p) \/ Damage(p) \/ Repair(p)
    \/ HistoryMoves \/ NextDay

Spec == Init /\ [][Next]_vars

\* Cron keeps waking the lane, an invocation runs on, and neither the deadline
\* nor the race for the branch is lost every time.  The history lane runs in
\* the spare wakes.
Fairness ==
    /\ \A w \in Workers :
         /\ WF_vars(Wake(w)) /\ WF_vars(Step(w))
         /\ SF_vars(Plan(w)) /\ SF_vars(Commit(w))
    /\ WF_vars(HistoryMoves)

FairSpec == Spec /\ Fairness

(***************************************************************************)
(* Properties.                                                             *)
(***************************************************************************)

\* Every variable stays in its set; only a unit at work holds references.
TypeOK ==
    /\ shard \in [Prefixes -> Shard]
    /\ indexed \in [Days -> SUBSET Prefixes] /\ \A d \in Days : indexed[d] \subseteq Index[d]
    /\ history \in {"none", "inside", "past"}
    /\ today \in Days /\ day \in [Workers -> Days]
    /\ refs \in [Days -> References]
    /\ generation \in [Days -> References \cup {NoManifest}]
    /\ pointer \in Days \cup {0}
    /\ outcome \in [Workers -> {"ended", "manifest_conflict"}]
    /\ pc \in [Workers -> {"idle", "check", "plan", "pin", "commit", "point"}]
    /\ base \in [Workers -> References] /\ pins \in [Workers -> References]
    /\ selected \in [Workers -> SUBSET Prefixes]
    /\ faults \in 0..MaxFaults /\ damages \in 0..MaxDamage /\ rewrites \in 0..MaxRewrites
    /\ \A w \in Workers :
         /\ selected[w] \subseteq Index[day[w]]
         /\ selected[w] # {} <=> pc[w] = "pin"
         /\ pc[w] \in {"idle", "check", "plan"} => Planned(w) = NoReferences

\* What the gateway asserts of what it finds: the pointer's generation manifest
\* exists and has a two-digit reference for each of the date's prefixes
\* (assertPublishedGenerationManifest).
PointerResolves ==
    pointer # 0 =>
      /\ generation[pointer] # NoManifest
      /\ Referenced(generation[pointer]) = Index[pointer]
      /\ Index[pointer] \subseteq Legacy

\* A pinned blob has the rows of the date's snapshots, although the shard may
\* be written again between the units that pin it and after the last of them.
PinnedRowsAreCanonical ==
    \A d \in Days : generation[d] # NoManifest =>
      \A p \in Index[d] : d \in generation[d][p].days

\* The generation manifest is put together from what its unit read and made;
\* the publish state is merged from the units of several invocations.  The two
\* agree on every reference.
GenerationIsItsState ==
    \A d \in Days : generation[d] \in {NoManifest, refs[d]}

\* A generation manifest has a reference for each of the date's prefixes, and
\* the pointer is at a date that has one.
GenerationsAreWhole ==
    /\ \A d \in Days : generation[d] # NoManifest => Referenced(generation[d]) = Index[d]
    /\ pointer # 0 => generation[pointer] # NoManifest

\* An audited reference to a shard of date d.
IsAudited(d, p, ref) == p \in Index[d] \cap Legacy /\ d \in ref.days

ReferencesAreAudited ==
    \A d \in Days : \A p \in Referenced(refs[d]) : IsAudited(d, p, refs[d][p])

\* What a unit found in the publish state is still there, what it made itself is
\* audited, and it moves the pointer only to a manifest.
UnitsReferTruly ==
    \A w \in Workers :
      /\ \A p \in Referenced(base[w]) : refs[day[w]][p] = base[w][p]
      /\ \A p \in Referenced(pins[w]) : IsAudited(day[w], p, pins[w][p])
      /\ pc[w] = "point" => generation[day[w]] # NoManifest

\* What is committed is well formed and names one set of references, all of them
\* audited, whatever units are at work on the date (runMarketDataPublisher).
PublisherInv ==
    /\ TypeOK /\ GenerationIsItsState /\ GenerationsAreWhole
    /\ ReferencesAreAudited /\ UnitsReferTruly

\* The merge's "immutable" and publisher_reference_conflict: a generation
\* manifest never changes, and no reference is replaced or taken back.
PublishedIsKept ==
    [][\A d \in Days :
         /\ generation[d] # NoManifest => generation'[d] = generation[d]
         /\ \A p \in Referenced(refs[d]) : refs'[d][p] = refs[d][p]]_vars

\* A generation manifest whose unit was cut off before it moved the pointer:
\* every later unit of the date throws a conflict.
Orphaned(d) ==
    /\ generation[d] # NoManifest
    /\ pointer # d
    /\ \A w \in Workers : ~(pc[w] = "point" /\ day[w] = d)

\* The last date gets published once it is complete and indexed, and nothing
\* but a unit cut off between its commit and the pointer prevents it.
ReadyGetsPublished ==
    Canonical(LastDay) ~> pointer = LastDay \/ Orphaned(LastDay)

\* The gateway's comment at line 208, "the compact one-digit v5 prefix": a date
\* with one-digit prefixes gets published too.
CompactGetsPublished == Canonical(LastDay) ~> pointer = LastDay
=============================================================================
