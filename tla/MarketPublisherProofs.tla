------------------------ MODULE MarketPublisherProofs ------------------------
(***************************************************************************)
(* Proofs about MarketPublisher, for any number of invocations, dates and  *)
(* prefixes, however often a unit is cut off or a shard is written again   *)
(* or damaged.                                                             *)
(*                                                                         *)
(* PublisherInv is inductive.  A unit publishes what it found together     *)
(* with what it made, while others extend the same publish state: that the *)
(* manifest and the state agree needs that what it found is still there    *)
(* (Unit), which holds because a reference is never replaced (Kept).       *)
(***************************************************************************)
EXTENDS MarketPublisher, FiniteSetTheorems, WellFoundedInduction, TLAPS

(***************************************************************************)
(* The parts of the invariant.                                             *)
(***************************************************************************)

SourceTypes ==
    /\ shard \in [Prefixes -> Shard]
    /\ indexed \in [Days -> SUBSET Prefixes] /\ \A d \in Days : indexed[d] \subseteq Index[d]
    /\ history \in {"none", "inside", "past"}
    /\ today \in Days
    /\ damages \in 0..MaxDamage /\ rewrites \in 0..MaxRewrites

PublishedTypes ==
    /\ refs \in [Days -> References]
    /\ generation \in [Days -> References \cup {NoManifest}]
    /\ pointer \in Days \cup {0}

LocalTypes ==
    /\ day \in [Workers -> Days]
    /\ outcome \in [Workers -> {"ended", "manifest_conflict"}]
    /\ pc \in [Workers -> {"idle", "check", "plan", "pin", "commit", "point"}]
    /\ base \in [Workers -> References] /\ pins \in [Workers -> References]
    /\ selected \in [Workers -> SUBSET Prefixes]

Shared == GenerationIsItsState /\ GenerationsAreWhole /\ ReferencesAreAudited

Unit(w) ==
    /\ selected[w] \subseteq Index[day[w]]
    /\ selected[w] # {} <=> pc[w] = "pin"
    /\ pc[w] \in {"idle", "check", "plan"} => base[w] = NoReferences /\ pins[w] = NoReferences
    /\ \A p \in Referenced(base[w]) : refs[day[w]][p] = base[w][p]
    /\ \A p \in Referenced(pins[w]) : IsAudited(day[w], p, pins[w][p])
    /\ pc[w] = "point" => generation[day[w]] # NoManifest

Parts ==
    /\ SourceTypes /\ PublishedTypes /\ LocalTypes /\ faults \in 0..MaxFaults
    /\ Shared
    /\ \A w \in Workers : Unit(w)

LEMMA NothingPlanned ==
    ASSUME NEW l \in References, NEW r \in References
    PROVE  Joined(l, r) = NoReferences <=> l = NoReferences /\ r = NoReferences
<1>1. ASSUME l = NoReferences, r = NoReferences PROVE Joined(l, r) = NoReferences
  BY <1>1 DEF Joined, NoReferences
<1>2. ASSUME Joined(l, r) = NoReferences PROVE l = NoReferences /\ r = NoReferences
  <2>1. ASSUME NEW p \in Prefixes PROVE l[p] = NoPin /\ r[p] = NoPin
    <3>1. (IF r[p] # NoPin THEN r[p] ELSE l[p]) = NoPin
      BY <1>2 DEF Joined, NoReferences
    <3> QED
      BY <3>1
  <2> QED
    BY <2>1 DEF References, NoReferences
<1> QED
  BY <1>1, <1>2

LEMMA InvIsParts == PublisherInv <=> Parts
<1>1. ASSUME LocalTypes, NEW w \in Workers
      PROVE  Planned(w) = NoReferences <=> base[w] = NoReferences /\ pins[w] = NoReferences
  BY <1>1, NothingPlanned DEF LocalTypes, Planned
<1>2. TypeOK <=> /\ SourceTypes /\ PublishedTypes /\ LocalTypes /\ faults \in 0..MaxFaults
                 /\ \A w \in Workers :
                      /\ selected[w] \subseteq Index[day[w]]
                      /\ selected[w] # {} <=> pc[w] = "pin"
                      /\ pc[w] \in {"idle", "check", "plan"} =>
                           base[w] = NoReferences /\ pins[w] = NoReferences
  BY <1>1 DEF TypeOK, SourceTypes, PublishedTypes, LocalTypes
<1> QED
  BY <1>2 DEF PublisherInv, Parts, Shared, Unit, UnitsReferTruly

(***************************************************************************)
(* Lemmas about the operators.                                             *)
(***************************************************************************)

LEMMA LeastExists ==
    ASSUME NEW S \in SUBSET Nat, S # {}
    PROVE  \E x \in S : \A y \in S : x <= y
<1>1. PICK x \in S : \A y \in S : ~ (<<y, x>> \in OpToRel(<, Nat))
  BY NatLessThanWellFounded, WFMin
<1>2. \A y \in S : ~ (y < x)
  BY <1>1 DEF OpToRel
<1> QED
  BY <1>2

\* First takes from a set of numbers, and takes something if there is something.
LEMMA FirstTakes ==
    ASSUME NEW S \in SUBSET Nat, NEW n \in Nat
    PROVE  /\ First(S, n) \subseteq S
           /\ S # {} /\ n > 0 => First(S, n) # {}
<1>1. First(S, n) \subseteq S
  BY DEF First
<1>2. ASSUME S # {}, n > 0 PROVE First(S, n) # {}
  <2>1. PICK x \in S : \A y \in S : x <= y
    BY <1>2, LeastExists
  <2>2. \A y \in S : ~ (y < x)
    BY <2>1
  <2>3. Cardinality({y \in S : y < x}) = 0
    <3>1. {y \in S : y < x} = {}
      BY <2>2
    <3> QED
      BY <3>1, FS_EmptySet
  <2>4. x \in First(S, n)
    BY <1>2, <2>3 DEF First
  <2> QED
    BY <2>4
<1> QED
  BY <1>1, <1>2

LEMMA JoinedIsReferences ==
    ASSUME NEW l \in References, NEW r \in References
    PROVE  /\ Joined(l, r) \in References
           /\ \A p \in Prefixes : Joined(l, r)[p] = IF r[p] # NoPin THEN r[p] ELSE l[p]
           /\ Referenced(Joined(l, r)) = Referenced(l) \cup Referenced(r)
<1>1. \A p \in Prefixes : Joined(l, r)[p] = IF r[p] # NoPin THEN r[p] ELSE l[p]
  BY DEF Joined
<1>2. Joined(l, r) \in References
  BY DEF Joined, References
<1> QED
  BY <1>1, <1>2 DEF Referenced

LEMMA NoReferencesIsReferences ==
    NoReferences \in References /\ Referenced(NoReferences) = {}
BY DEF NoReferences, References, Referenced

LEMMA DaysAreNumbers ==
    /\ Days \subseteq Nat /\ 1 \in Days /\ LastDay \in Days
    /\ \A d \in Days : d < LastDay => d + 1 \in Days
<1> DEFINE n == Cardinality(Days)
<1>1. n \in Nat
  BY PublisherAssumption, FS_CardinalityType
<1>2. Days = 1..n /\ Days # {}
  BY PublisherAssumption
<1> HIDE DEF n
<1>3. Days \subseteq Nat /\ n \in Days /\ 1 \in Days /\ \A e \in Days : e <= n
  BY <1>1, <1>2
<1>4. LastDay \in Days /\ \A e \in Days : e <= LastDay
  BY <1>3 DEF LastDay
<1> QED
  BY <1>1, <1>2, <1>3, <1>4

(***************************************************************************)
(* What is published is kept.                                              *)
(***************************************************************************)

Kept ==
    \A d \in Days :
      /\ generation[d] # NoManifest => generation'[d] = generation[d]
      /\ \A p \in Referenced(refs[d]) : refs'[d][p] = refs[d][p]

Still(w) ==
    /\ pc'[w] = pc[w] /\ day'[w] = day[w] /\ base'[w] = base[w]
    /\ selected'[w] = selected[w] /\ pins'[w] = pins[w]

Others(w) == \A v \in Workers \ {w} : Still(v)

LEMMA UnitStays ==
    ASSUME Parts, Kept, NEW w \in Workers, Still(w)
    PROVE  Unit(w)'
<1>1. Unit(w) /\ day[w] \in Days /\ base[w] \in References
  BY DEF Parts, LocalTypes
<1>2. Referenced(base[w]) \subseteq Prefixes /\ \A p \in Referenced(base[w]) : base[w][p] # NoPin
  BY DEF Referenced
<1>3. \A p \in Referenced(base[w]) : p \in Referenced(refs[day[w]])
  BY <1>1, <1>2 DEF Unit, Referenced
<1>4. \A p \in Referenced(base[w]) : refs'[day[w]][p] = base[w][p]
  BY <1>1, <1>3 DEF Unit, Kept
<1>5. pc[w] = "point" => generation'[day[w]] # NoManifest
  BY <1>1 DEF Unit, Kept
<1>6. Referenced(base[w])' = Referenced(base[w]) /\ Referenced(pins[w])' = Referenced(pins[w])
  BY DEF Still, Referenced
<1> QED
  BY <1>1, <1>4, <1>5, <1>6 DEF Unit, Still, IsAudited

\* A step of w that leaves the publish state alone.
LEMMA LocalStepKeeps ==
    ASSUME Parts, NEW w \in Workers, Others(w), LocalTypes', Unit(w)',
           UNCHANGED <<source, published>>, faults' \in 0..MaxFaults
    PROVE  Parts' /\ Kept
<1>1. Kept
  BY DEF Kept, published
<1>2. \A v \in Workers \ {w} : Unit(v)'
  BY <1>1, UnitStays DEF Others
<1>3. SourceTypes' /\ PublishedTypes'
  BY DEF Parts, SourceTypes, PublishedTypes, source, published
<1>4. Shared'
  BY DEF Parts, Shared, GenerationIsItsState, GenerationsAreWhole, ReferencesAreAudited,
         Referenced, IsAudited, published
<1> QED
  BY <1>1, <1>2, <1>3, <1>4 DEF Parts

LEMMA EndUnit ==
    ASSUME LocalTypes, NEW w \in Workers, NEW how \in {"ended", "manifest_conflict"}, End(w, how)
    PROVE  Others(w) /\ LocalTypes' /\ Unit(w)'
<1>1. Others(w)
  BY DEF End, Go, Others, Still, LocalTypes
<1>2. LocalTypes'
  BY NoReferencesIsReferences DEF End, Go, LocalTypes
<1>3. /\ pc'[w] = "idle" /\ selected'[w] = {}
      /\ base'[w] = NoReferences /\ pins'[w] = NoReferences
  BY DEF End, Go, LocalTypes
<1>4. Referenced(base[w])' = {} /\ Referenced(pins[w])' = {}
  BY <1>3, NoReferencesIsReferences DEF Referenced
<1> QED
  BY <1>1, <1>2, <1>3, <1>4 DEF Unit

\* The unit goes on with what it has.
LEMMA GoUnit ==
    ASSUME LocalTypes, NEW w \in Workers, NEW where \in {"plan", "point"},
           Go(w, where), UNCHANGED <<unit, outcome>>
    PROVE  Others(w) /\ LocalTypes' /\ pc'[w] = where /\ UNCHANGED unit
<1>1. pc' \in [Workers -> {"idle", "check", "plan", "pin", "commit", "point"}]
  BY DEF Go, LocalTypes
<1>2. LocalTypes'
  BY <1>1 DEF LocalTypes, unit
<1>3. pc'[w] = where /\ \A v \in Workers \ {w} : pc'[v] = pc[v]
  BY DEF Go, LocalTypes
<1>4. Others(w)
  BY <1>3 DEF Others, Still, unit
<1> QED
  BY <1>2, <1>3, <1>4

(***************************************************************************)
(* The initial states.                                                     *)
(***************************************************************************)

LEMMA InitIsSound == Init => Parts
<1> SUFFICES ASSUME Init PROVE Parts
  OBVIOUS
<1>1. SourceTypes /\ faults \in 0..MaxFaults
  BY DaysAreNumbers, PublisherAssumption DEF Init, SourceTypes, Shard
<1>2. PublishedTypes
  BY NoReferencesIsReferences DEF Init, PublishedTypes
<1>3. LocalTypes
  BY NoReferencesIsReferences, DaysAreNumbers DEF Init, LocalTypes
<1>4. GenerationIsItsState /\ GenerationsAreWhole
  BY DEF Init, GenerationIsItsState, GenerationsAreWhole
<1>5. ReferencesAreAudited
  BY NoReferencesIsReferences DEF Init, ReferencesAreAudited
<1>6. ASSUME NEW w \in Workers PROVE Unit(w)
  BY NoReferencesIsReferences DEF Init, Unit
<1> QED
  BY <1>1, <1>2, <1>3, <1>4, <1>5, <1>6 DEF Parts, Shared

(***************************************************************************)
(* The steps that only read.                                               *)
(***************************************************************************)

LEMMA WakeKeeps ==
    ASSUME Parts, NEW w \in Workers, Wake(w)
    PROVE  Parts' /\ Kept
<1>1. LocalTypes /\ Unit(w) /\ today \in Days
  BY DEF Parts, SourceTypes
<1>2. UNCHANGED <<source, published>> /\ faults' \in 0..MaxFaults
  BY DEF Wake, Parts
<1>3. /\ pc[w] = "idle" /\ Go(w, "check")
      /\ day' = [day EXCEPT ![w] = today] /\ outcome' = [outcome EXCEPT ![w] = "ended"]
      /\ UNCHANGED <<base, selected, pins>>
  BY DEF Wake
<1>4. LocalTypes'
  <2>1. pc' \in [Workers -> {"idle", "check", "plan", "pin", "commit", "point"}]
    BY <1>1, <1>3 DEF Go, LocalTypes
  <2> QED
    BY <1>1, <1>3, <2>1 DEF LocalTypes
<1>5. pc'[w] = "check" /\ \A v \in Workers \ {w} : pc'[v] = pc[v] /\ day'[v] = day[v]
  BY <1>1, <1>3 DEF Go, LocalTypes
<1>6. Others(w)
  BY <1>3, <1>5 DEF Others, Still
<1>7. base[w] = NoReferences /\ pins[w] = NoReferences /\ selected[w] = {}
  BY <1>1, <1>3 DEF Unit
<1>8. Referenced(base[w])' = {} /\ Referenced(pins[w])' = {}
  BY <1>3, <1>7, NoReferencesIsReferences DEF Referenced
<1>9. Unit(w)'
  BY <1>3, <1>5, <1>7, <1>8 DEF Unit
<1> QED
  BY <1>2, <1>4, <1>6, <1>9, LocalStepKeeps

LEMMA CheckKeeps ==
    ASSUME Parts, NEW w \in Workers, Check(w)
    PROVE  Parts' /\ Kept
<1>1. LocalTypes /\ Unit(w)
  BY DEF Parts
<1>2. UNCHANGED <<source, published>> /\ faults' \in 0..MaxFaults
  BY DEF Check, Parts
<1>3. CASE End(w, "ended")
  BY <1>1, <1>2, <1>3, EndUnit, LocalStepKeeps
<1>4. CASE Go(w, "plan") /\ UNCHANGED <<unit, outcome>>
  <2>1. Others(w) /\ LocalTypes' /\ pc'[w] = "plan" /\ UNCHANGED unit
    BY <1>1, <1>4, GoUnit
  <2>2. Unit(w)'
    BY <1>1, <1>2, <2>1 DEF Check, Unit, unit, published, Referenced, IsAudited
  <2> QED
    BY <1>2, <2>1, <2>2, LocalStepKeeps
<1> QED
  BY <1>3, <1>4 DEF Check

LEMMA PlanKeeps ==
    ASSUME Parts, NEW w \in Workers, Plan(w)
    PROVE  Parts' /\ Kept
<1> DEFINE d == day[w]
           have == [p \in Prefixes |-> IF p \in Index[d] THEN refs[d][p] ELSE NoPin]
           pending == Index[d] \ Referenced(have)
<1>1. PublishedTypes /\ LocalTypes /\ Unit(w)
  BY DEF Parts
<1>2. UNCHANGED <<source, published>> /\ faults' \in 0..MaxFaults
  BY DEF Plan, Parts
<1>3. PICK n \in 0..Cardinality(pending) :
             /\ pending # {} => n > 0
             /\ base' = [base EXCEPT ![w] = have]
             /\ selected' = [selected EXCEPT ![w] = First(pending, n)]
             /\ Go(w, IF n = 0 THEN "commit" ELSE "pin")
  BY DEF Plan
<1>4. pc[w] = "plan" /\ UNCHANGED <<day, pins, outcome>>
  BY DEF Plan
<1>5. d \in Days /\ Index[d] \subseteq Prefixes /\ refs[d] \in References
  BY <1>1, PublisherAssumption DEF LocalTypes, PublishedTypes
<1>6. have \in References
  BY <1>5 DEF References
<1>7. pending \in SUBSET Nat /\ pending \subseteq Index[d]
  <2>1. Prefixes \subseteq Nat
    BY PublisherAssumption
  <2>2. pending \subseteq Index[d]
    OBVIOUS
  <2> HIDE DEF pending
  <2> QED
    BY <1>5, <2>1, <2>2
<1>8. IsFiniteSet(pending)
  BY <1>5, <1>7, PublisherAssumption, FS_Subset
<1>9. n \in Nat /\ (n > 0 <=> pending # {})
  <2>1. Cardinality(pending) \in Nat /\ (pending = {} => Cardinality(pending) = 0)
    BY <1>8, FS_CardinalityType, FS_EmptySet
  <2> HIDE DEF pending
  <2> QED
    BY <1>3, <2>1
<1>10. /\ First(pending, n) \subseteq pending
       /\ First(pending, n) # {} <=> n > 0
  BY <1>7, <1>9, FirstTakes
<1> HIDE DEF pending
<1>11. LocalTypes'
  <2>1. base' \in [Workers -> References]
    BY <1>1, <1>3, <1>6 DEF LocalTypes
  <2>2. selected' \in [Workers -> SUBSET Prefixes]
    BY <1>1, <1>3, <1>5, <1>7, <1>10 DEF LocalTypes
  <2>3. pc' \in [Workers -> {"idle", "check", "plan", "pin", "commit", "point"}]
    BY <1>1, <1>3 DEF Go, LocalTypes
  <2> QED
    BY <1>1, <1>4, <2>1, <2>2, <2>3 DEF LocalTypes
<1>12. /\ base'[w] = have /\ selected'[w] = First(pending, n)
       /\ pc'[w] = IF n = 0 THEN "commit" ELSE "pin"
  BY <1>1, <1>3 DEF Go, LocalTypes
<1>13. Others(w)
  BY <1>1, <1>3, <1>4 DEF Go, Others, Still, LocalTypes
<1>14. pins[w] = NoReferences
  BY <1>1, <1>4 DEF Unit
<1>15. Referenced(pins[w])' = {}
  BY <1>4, <1>14, NoReferencesIsReferences DEF Referenced
<1>16. \A p \in Referenced(base[w])' : refs[d][p] = have[p]
  BY <1>12 DEF Referenced
<1> HIDE DEF have
<1>17. Unit(w)'
  <2>1. day'[w] = d /\ refs' = refs
    BY <1>2, <1>4 DEF published
  <2>2. selected'[w] \subseteq Index[d] /\ (selected'[w] # {} <=> pc'[w] = "pin")
    <3>1. selected'[w] \subseteq Index[d]
      BY <1>7, <1>10, <1>12
    <3>2. selected'[w] # {} <=> n # 0
      BY <1>9, <1>10, <1>12
    <3>3. pc'[w] = "pin" <=> n # 0
      BY <1>12
    <3> QED
      BY <3>1, <3>2, <3>3
  <2>3. \A p \in Referenced(base[w])' : refs'[d][p] = base'[w][p]
    BY <1>12, <1>16, <2>1
  <2>4. pc'[w] \in {"commit", "pin"}
    BY <1>12
  <2> QED
    BY <1>15, <2>1, <2>2, <2>3, <2>4 DEF Unit
<1> QED
  BY <1>2, <1>11, <1>13, <1>17, LocalStepKeeps

LEMMA PinKeeps ==
    ASSUME Parts, NEW w \in Workers, Pin(w)
    PROVE  Parts' /\ Kept
<1> DEFINE d == day[w]
           p == CHOOSE q \in selected[w] : \A r \in selected[w] : q <= r
<1>1. SourceTypes /\ LocalTypes /\ Unit(w)
  BY DEF Parts
<1>2. UNCHANGED <<source, published>> /\ faults' \in 0..MaxFaults
  BY DEF Pin, Parts
<1>3. CASE End(w, "ended")
  BY <1>1, <1>2, <1>3, EndUnit, LocalStepKeeps
<1>4. CASE /\ Audited(p, d)
           /\ pins' = [pins EXCEPT ![w][p] = shard[p]]
           /\ selected' = [selected EXCEPT ![w] = selected[w] \ {p}]
           /\ Go(w, IF selected[w] = {p} THEN "commit" ELSE "pin")
           /\ UNCHANGED <<day, base, outcome>>
  <2>1. p \in selected[w]
    <3>1. selected[w] \in SUBSET Nat
      BY <1>1, PublisherAssumption DEF LocalTypes
    <3>2. selected[w] # {}
      BY <1>1 DEF Unit, Pin
    <3> QED
      BY <3>1, <3>2, LeastExists
  <2> HIDE DEF p
  <2>2. p \in Index[d] /\ p \in Prefixes /\ p \in Legacy /\ d \in shard[p].days /\ shard[p] \in Shard
    BY <1>1, <1>4, <2>1 DEF Unit, Audited, SourceTypes, LocalTypes
  <2>3. pins[w] \in References /\ shard[p] # NoPin
    BY <1>1, <2>2, PublisherAssumption DEF LocalTypes
  <2>4. [pins[w] EXCEPT ![p] = shard[p]] \in References
    BY <2>2, <2>3 DEF References
  <2>5. pins' = [pins EXCEPT ![w] = [pins[w] EXCEPT ![p] = shard[p]]]
    BY <1>4
  <2>6. /\ pins'[w] = [pins[w] EXCEPT ![p] = shard[p]]
        /\ \A v \in Workers \ {w} : pins'[v] = pins[v]
        /\ pins' \in [Workers -> References]
    BY <1>1, <2>4, <2>5 DEF LocalTypes
  <2>7. /\ pins'[w][p] = shard[p]
        /\ \A q \in Prefixes \ {p} : pins'[w][q] = pins[w][q]
    BY <2>2, <2>3, <2>6 DEF References
  <2>8. /\ selected'[w] = selected[w] \ {p}
        /\ \A v \in Workers \ {w} : selected'[v] = selected[v]
        /\ selected' \in [Workers -> SUBSET Prefixes]
    BY <1>1, <1>4 DEF LocalTypes
  <2>9. /\ pc'[w] = IF selected[w] = {p} THEN "commit" ELSE "pin"
        /\ \A v \in Workers \ {w} : pc'[v] = pc[v]
        /\ pc' \in [Workers -> {"idle", "check", "plan", "pin", "commit", "point"}]
    BY <1>1, <1>4 DEF Go, LocalTypes
  <2>10. LocalTypes'
    BY <1>1, <1>4, <2>6, <2>8, <2>9 DEF LocalTypes
  <2>11. Others(w)
    BY <1>4, <2>6, <2>8, <2>9 DEF Others, Still
  <2>12. \A q \in Referenced(pins[w])' : IsAudited(d, q, pins'[w][q])
    <3>1. ASSUME NEW q \in Prefixes, pins'[w][q] # NoPin PROVE IsAudited(d, q, pins'[w][q])
      <4>1. CASE q = p
        BY <2>2, <2>7, <4>1 DEF IsAudited
      <4>2. CASE q # p
        <5>1. q \in Referenced(pins[w]) /\ pins'[w][q] = pins[w][q]
          BY <2>7, <3>1, <4>2 DEF Referenced
        <5> QED
          BY <1>1, <5>1 DEF Unit
      <4> QED
        BY <4>1, <4>2
    <3> QED
      BY <3>1 DEF Referenced
  <2>13. Referenced(base[w])' = Referenced(base[w]) /\ day'[w] = d /\ base'[w] = base[w]
    BY <1>4 DEF Referenced
  <2>14. selected'[w] # {} <=> pc'[w] = "pin"
    BY <2>1, <2>8, <2>9
  <2>15. pc'[w] \in {"commit", "pin"} /\ selected'[w] \subseteq Index[d]
    BY <1>1, <2>8, <2>9 DEF Unit
  <2>16. Unit(w)'
    BY <1>1, <1>2, <2>12, <2>13, <2>14, <2>15 DEF Unit, published
  <2> QED
    BY <1>2, <2>10, <2>11, <2>16, LocalStepKeeps
<1> QED
  BY <1>3, <1>4 DEF Pin

\* Units that end without a commit.
LEMMA EndKeeps ==
    ASSUME Parts, NEW w \in Workers,
           Yield(w) \/ CommitThrows(w) \/ CommitLoses(w) \/ CutOff(w)
    PROVE  Parts' /\ Kept
<1>1. UNCHANGED <<source, published>>
  BY DEF Yield, CommitThrows, CommitLoses, CutOff
<1>2. faults' \in 0..MaxFaults
  BY PublisherAssumption DEF Parts, Yield, CommitThrows, CommitLoses, CutOff
<1>3. End(w, "ended") \/ End(w, "manifest_conflict")
  BY DEF Yield, CommitThrows, CommitLoses, CutOff
<1> QED
  BY <1>1, <1>2, <1>3, EndUnit, LocalStepKeeps DEF Parts

(***************************************************************************)
(* The steps that publish.                                                 *)
(***************************************************************************)

\* Where nothing is disputed, the merge adds references and replaces none.
LEMMA MergeKeeps ==
    ASSUME NEW l \in References, NEW r \in References,
           \A p \in Prefixes : r[p] # NoPin => l[p] \in {NoPin, r[p]}
    PROVE  \A p \in Prefixes : l[p] # NoPin => Joined(l, r)[p] = l[p]
BY JoinedIsReferences

LEMMA CommitKeeps ==
    ASSUME Parts, NEW w \in Workers, Commit(w)
    PROVE  Parts' /\ Kept
<1> DEFINE d == day[w]
           merged == Joined(refs[d], pins[w])
<1>1. PublishedTypes /\ LocalTypes /\ Unit(w) /\ Shared
  BY DEF Parts
<1>2. /\ pc[w] = "commit" /\ Disputed(w) = {} /\ ~ Conflict(w)
      /\ refs' = [refs EXCEPT ![d] = merged]
      /\ UNCHANGED <<source, pointer, faults>>
      /\ Finished(w) => /\ generation' = [generation EXCEPT ![d] = Planned(w)]
                        /\ Go(w, "point") /\ UNCHANGED <<unit, outcome>>
      /\ ~ Finished(w) =>
           /\ generation' = generation
           /\ \/ End(w, "ended")
              \/ /\ Go(w, "check")
                 /\ base' = [base EXCEPT ![w] = NoReferences]
                 /\ pins' = [pins EXCEPT ![w] = NoReferences]
                 /\ UNCHANGED <<day, selected, outcome>>
  BY DEF Commit
<1>3. d \in Days /\ refs[d] \in References /\ pins[w] \in References /\ base[w] \in References
  BY <1>1 DEF PublishedTypes, LocalTypes
<1>4. /\ merged \in References
      /\ \A p \in Prefixes : merged[p] = IF pins[w][p] # NoPin THEN pins[w][p] ELSE refs[d][p]
  BY <1>3, JoinedIsReferences
<1>5. /\ Planned(w) \in References
      /\ \A p \in Prefixes :
           Planned(w)[p] = IF pins[w][p] # NoPin THEN pins[w][p] ELSE base[w][p]
      /\ Referenced(Planned(w)) = Referenced(base[w]) \cup Referenced(pins[w])
  BY <1>3, JoinedIsReferences DEF Planned
<1>6. \A p \in Prefixes : refs[d][p] # NoPin => merged[p] = refs[d][p]
  <2>1. \A p \in Prefixes : pins[w][p] # NoPin => refs[d][p] \in {NoPin, pins[w][p]}
    BY <1>2 DEF Disputed
  <2> QED
    BY <1>4, <2>1
<1> HIDE DEF merged
<1>7. /\ refs'[d] = merged /\ \A e \in Days \ {d} : refs'[e] = refs[e]
      /\ refs' \in [Days -> References]
  BY <1>1, <1>2, <1>3, <1>4 DEF PublishedTypes
<1>8. ASSUME Finished(w)
      PROVE  /\ generation'[d] = Planned(w) /\ \A e \in Days \ {d} : generation'[e] = generation[e]
             /\ generation' \in [Days -> References \cup {NoManifest}]
             /\ Planned(w) # NoManifest /\ generation[d] = NoManifest
  <2>1. Planned(w) # NoManifest
    BY <1>5, PublisherAssumption
  <2>2. generation[d] = NoManifest
    BY <1>2, <1>8 DEF Conflict
  <2> QED
    BY <1>1, <1>2, <1>3, <1>5, <1>8, <2>1, <2>2 DEF PublishedTypes
<1>9. Kept
  <2>1. ASSUME NEW e \in Days, NEW p \in Referenced(refs[e]) PROVE refs'[e][p] = refs[e][p]
    BY <1>6, <1>7 DEF Referenced
  <2>2. ASSUME NEW e \in Days, generation[e] # NoManifest PROVE generation'[e] = generation[e]
    BY <1>2, <1>8, <2>2
  <2> QED
    BY <2>1, <2>2 DEF Kept
<1>10. PublishedTypes'
  BY <1>1, <1>2, <1>7, <1>8 DEF PublishedTypes
<1>11. \A p \in Prefixes : merged[p] # NoPin => IsAudited(d, p, merged[p])
  <2>1. ASSUME NEW p \in Prefixes, pins[w][p] # NoPin PROVE IsAudited(d, p, pins[w][p])
    BY <1>1, <2>1 DEF Unit, Referenced
  <2>2. ASSUME NEW p \in Prefixes, refs[d][p] # NoPin PROVE IsAudited(d, p, refs[d][p])
    BY <1>1, <1>3, <2>2 DEF Shared, ReferencesAreAudited, Referenced
  <2> QED
    BY <1>4, <2>1, <2>2
<1>12. ReferencesAreAudited'
  <2>1. ASSUME NEW e \in Days, NEW p \in Prefixes, refs'[e][p] # NoPin
        PROVE  IsAudited(e, p, refs'[e][p])
    <3>1. CASE e = d
      BY <1>7, <1>11, <2>1, <3>1
    <3>2. CASE e # d
      BY <1>1, <1>7, <2>1, <3>2 DEF Shared, ReferencesAreAudited, Referenced
    <3> QED
      BY <3>1, <3>2
  <2> QED
    BY <2>1 DEF ReferencesAreAudited, Referenced, IsAudited
<1>13. ASSUME Finished(w) PROVE Planned(w) = merged
  <2>1. Referenced(base[w]) \cup Referenced(pins[w]) = Index[d]
    BY <1>5, <1>13 DEF Finished
  <2>2. ASSUME NEW p \in Prefixes PROVE Planned(w)[p] = merged[p]
    <3>1. CASE pins[w][p] # NoPin
      BY <1>4, <1>5, <3>1
    <3>2. CASE pins[w][p] = NoPin /\ base[w][p] # NoPin
      <4>1. refs[d][p] = base[w][p]
        BY <1>1, <3>2 DEF Unit, Referenced
      <4> QED
        BY <1>4, <1>5, <3>2, <4>1
    <3>3. CASE pins[w][p] = NoPin /\ base[w][p] = NoPin
      <4>1. p \notin Index[d]
        BY <2>1, <3>3 DEF Referenced
      <4>2. refs[d][p] = NoPin
        BY <1>1, <1>3, <4>1 DEF Shared, ReferencesAreAudited, Referenced, IsAudited
      <4> QED
        BY <1>4, <1>5, <3>3, <4>2
    <3> QED
      BY <3>1, <3>2, <3>3
  <2> QED
    BY <1>4, <1>5, <2>2 DEF References
<1>14. GenerationIsItsState'
  <2>1. ASSUME NEW e \in Days PROVE generation'[e] \in {NoManifest, refs'[e]}
    <3>1. CASE e # d
      BY <1>1, <1>2, <1>7, <1>8, <3>1 DEF Shared, GenerationIsItsState
    <3>2. CASE e = d /\ Finished(w)
      BY <1>7, <1>8, <1>13, <3>2
    <3>3. CASE e = d /\ ~ Finished(w)
      <4>1. generation'[d] = generation[d]
        BY <1>2, <3>3
      <4>2. CASE generation[d] = NoManifest
        BY <3>3, <4>1, <4>2
      <4>3. CASE generation[d] # NoManifest
        <5>1. refs[d] = generation[d] /\ Referenced(refs[d]) = Index[d]
          BY <1>1, <1>3, <4>3 DEF Shared, GenerationIsItsState, GenerationsAreWhole
        <5>2. ASSUME NEW p \in Prefixes PROVE merged[p] = refs[d][p]
          <6>1. CASE refs[d][p] # NoPin
            BY <1>6, <6>1
          <6>2. CASE refs[d][p] = NoPin
            <7>1. p \notin Index[d]
              BY <5>1, <6>2 DEF Referenced
            <7>2. merged[p] = NoPin
              BY <1>11, <7>1 DEF IsAudited
            <7> QED
              BY <6>2, <7>2
          <6> QED
            BY <6>1, <6>2
        <5>3. merged = refs[d]
          BY <1>3, <1>4, <5>2 DEF References
        <5> QED
          BY <1>7, <3>3, <4>1, <5>1, <5>3
      <4> QED
        BY <4>2, <4>3
    <3> QED
      BY <3>1, <3>2, <3>3
  <2> QED
    BY <2>1 DEF GenerationIsItsState
<1>15. GenerationsAreWhole'
  <2>1. ASSUME NEW e \in Days, generation'[e] # NoManifest
        PROVE  Referenced(generation'[e]) = Index[e]
    <3>1. CASE e = d /\ Finished(w)
      BY <1>8, <3>1 DEF Finished
    <3>2. CASE ~ (e = d /\ Finished(w))
      <4>1. generation'[e] = generation[e]
        BY <1>2, <1>8, <3>2
      <4> QED
        BY <1>1, <2>1, <4>1 DEF Shared, GenerationsAreWhole
    <3> QED
      BY <3>1, <3>2
  <2>2. pointer # 0 => generation'[pointer] # NoManifest
    <3>1. pointer # 0 => pointer \in Days /\ generation[pointer] # NoManifest
      BY <1>1 DEF PublishedTypes, Shared, GenerationsAreWhole
    <3> QED
      BY <1>9, <3>1 DEF Kept
  <2>3. pointer' = pointer
    BY <1>2
  <2> QED
    BY <2>1, <2>2, <2>3 DEF GenerationsAreWhole, Referenced
<1>16. Others(w) /\ LocalTypes' /\ Unit(w)'
  <2>1. CASE Finished(w)
    <3>1. Others(w) /\ LocalTypes' /\ pc'[w] = "point" /\ UNCHANGED unit
      BY <1>1, <1>2, <2>1, GoUnit
    <3>2. generation'[d] # NoManifest
      BY <1>8, <2>1
    <3>3. \A p \in Referenced(base[w]) : refs'[d][p] = base[w][p]
      <4>1. ASSUME NEW p \in Prefixes, base[w][p] # NoPin PROVE merged[p] = base[w][p]
        <5>1. refs[d][p] = base[w][p]
          BY <1>1, <4>1 DEF Unit, Referenced
        <5> QED
          BY <1>6, <4>1, <5>1
      <4> QED
        BY <1>7, <4>1 DEF Referenced
    <3>4. Referenced(base[w])' = Referenced(base[w]) /\ Referenced(pins[w])' = Referenced(pins[w])
      BY <3>1 DEF Referenced, unit
    <3>5. Unit(w)'
      BY <1>1, <1>2, <3>1, <3>2, <3>3, <3>4 DEF Unit, unit, IsAudited
    <3> QED
      BY <3>1, <3>5
  <2>2. CASE End(w, "ended")
    BY <1>1, <2>2, EndUnit
  <2>3. CASE /\ Go(w, "check")
             /\ base' = [base EXCEPT ![w] = NoReferences]
             /\ pins' = [pins EXCEPT ![w] = NoReferences]
             /\ UNCHANGED <<day, selected, outcome>>
    <3>1. /\ pc'[w] = "check" /\ \A v \in Workers \ {w} : pc'[v] = pc[v]
          /\ pc' \in [Workers -> {"idle", "check", "plan", "pin", "commit", "point"}]
      BY <1>1, <2>3 DEF Go, LocalTypes
    <3>2. /\ base'[w] = NoReferences /\ \A v \in Workers \ {w} : base'[v] = base[v]
          /\ base' \in [Workers -> References]
      BY <1>1, <2>3, NoReferencesIsReferences DEF LocalTypes
    <3>3. /\ pins'[w] = NoReferences /\ \A v \in Workers \ {w} : pins'[v] = pins[v]
          /\ pins' \in [Workers -> References]
      BY <1>1, <2>3, NoReferencesIsReferences DEF LocalTypes
    <3>4. LocalTypes' /\ Others(w)
      BY <1>1, <2>3, <3>1, <3>2, <3>3 DEF LocalTypes, Others, Still
    <3>5. Referenced(base[w])' = {} /\ Referenced(pins[w])' = {}
      BY <3>2, <3>3, NoReferencesIsReferences DEF Referenced
    <3>6. selected[w] = {}
      BY <1>1, <1>2 DEF Unit
    <3>7. Unit(w)'
      BY <2>3, <3>1, <3>2, <3>3, <3>5, <3>6 DEF Unit
    <3> QED
      BY <3>4, <3>7
  <2> QED
    BY <1>2, <2>1, <2>2, <2>3
<1>17. \A v \in Workers \ {w} : Unit(v)'
  BY <1>9, <1>16, UnitStays DEF Others
<1>18. SourceTypes' /\ (faults \in 0..MaxFaults)'
  BY <1>2 DEF Parts, SourceTypes, source
<1> QED
  BY <1>9, <1>10, <1>12, <1>14, <1>15, <1>16, <1>17, <1>18 DEF Parts, Shared

LEMMA PointKeeps ==
    ASSUME Parts, NEW w \in Workers, Point(w)
    PROVE  Parts' /\ Kept
<1>1. PublishedTypes /\ LocalTypes /\ Unit(w) /\ Shared
  BY DEF Parts
<1>2. pointer' = day[w] /\ End(w, "ended") /\ UNCHANGED <<source, refs, generation, faults>>
  BY DEF Point
<1>3. day[w] \in Days /\ generation[day[w]] # NoManifest
  BY <1>1 DEF Point, Unit, LocalTypes
<1>4. Kept
  BY <1>2 DEF Kept
<1>5. Others(w) /\ LocalTypes' /\ Unit(w)'
  BY <1>1, <1>2, EndUnit
<1>6. \A v \in Workers \ {w} : Unit(v)'
  BY <1>4, <1>5, UnitStays DEF Others
<1>7. SourceTypes' /\ PublishedTypes' /\ (faults \in 0..MaxFaults)'
  BY <1>1, <1>2, <1>3 DEF Parts, SourceTypes, PublishedTypes, source
<1>8. GenerationIsItsState' /\ ReferencesAreAudited'
  BY <1>1, <1>2 DEF Shared, GenerationIsItsState, ReferencesAreAudited, Referenced, IsAudited
<1>9. GenerationsAreWhole'
  BY <1>1, <1>2, <1>3 DEF Shared, GenerationsAreWhole, Referenced
<1> QED
  BY <1>4, <1>5, <1>6, <1>7, <1>8, <1>9 DEF Parts, Shared

(***************************************************************************)
(* What is around the publisher.                                           *)
(***************************************************************************)

LEMMA SourceStepKeeps ==
    ASSUME Parts, SourceTypes', UNCHANGED <<published, pc, unit, outcome, faults>>
    PROVE  Parts' /\ Kept
<1>1. Kept
  BY DEF Kept, published
<1>2. \A w \in Workers : Unit(w)'
  BY <1>1, UnitStays DEF Still, unit
<1>3. PublishedTypes' /\ LocalTypes' /\ (faults \in 0..MaxFaults)'
  BY DEF Parts, PublishedTypes, LocalTypes, published, unit
<1>4. Shared'
  BY DEF Parts, Shared, GenerationIsItsState, GenerationsAreWhole, ReferencesAreAudited,
         Referenced, IsAudited, published
<1> QED
  BY <1>1, <1>2, <1>3, <1>4 DEF Parts

LEMMA WorldKeeps ==
    ASSUME Parts,
           \/ \E p \in Prefixes : IndexShard(p) \/ Rewrite(p) \/ Damage(p) \/ Repair(p)
           \/ HistoryMoves \/ NextDay
    PROVE  Parts' /\ Kept
<1>1. SourceTypes
  BY DEF Parts
<1>2. UNCHANGED <<published, pc, unit, outcome, faults>>
  BY DEF IndexShard, Rewrite, Damage, Repair, HistoryMoves, NextDay
<1>3. ASSUME NEW p \in Prefixes, NEW days \in SUBSET Days,
             shard' = [shard EXCEPT ![p] = [days |-> days, version |-> shard[p].version + 1]]
      PROVE  shard' \in [Prefixes -> Shard]
  <2>1. shard[p].version \in Nat
    BY <1>1 DEF SourceTypes, Shard
  <2>2. [days |-> days, version |-> shard[p].version + 1] \in Shard
    BY <2>1 DEF Shard
  <2> QED
    BY <1>1, <1>3, <2>2 DEF SourceTypes
<1>4. ASSUME NEW p \in Prefixes PROVE shard[p].days \in SUBSET Days
  BY <1>1 DEF SourceTypes, Shard
<1>5. ASSUME NEW p \in Prefixes, IndexShard(p) PROVE SourceTypes'
  <2>1. shard' \in [Prefixes -> Shard]
    <3>1. shard' = [shard EXCEPT ![p] = [days |-> shard[p].days \cup {today},
                                         version |-> shard[p].version + 1]]
      BY <1>5 DEF IndexShard
    <3>2. shard[p].days \cup {today} \in SUBSET Days
      BY <1>1, <1>4 DEF SourceTypes
    <3> QED
      BY <1>3, <3>1, <3>2
  <2>2. indexed' \in [Days -> SUBSET Prefixes] /\ \A d \in Days : indexed'[d] \subseteq Index[d]
    BY <1>1, <1>5 DEF IndexShard, SourceTypes
  <2> QED
    BY <1>1, <1>5, <2>1, <2>2 DEF IndexShard, SourceTypes
<1>6. ASSUME NEW p \in Prefixes, Rewrite(p) PROVE SourceTypes'
  <2>1. shard[p] \in Shard /\ shard[p].version + 1 \in Nat
    BY <1>1 DEF SourceTypes, Shard
  <2>2. [shard[p] EXCEPT !.version = shard[p].version + 1] \in Shard
    BY <2>1 DEF Shard
  <2>3. shard' = [shard EXCEPT ![p] = [shard[p] EXCEPT !.version = shard[p].version + 1]]
    BY <1>6 DEF Rewrite
  <2>4. shard' \in [Prefixes -> Shard]
    BY <1>1, <2>2, <2>3 DEF SourceTypes
  <2>5. rewrites' \in 0..MaxRewrites
    BY <1>1, <1>6, PublisherAssumption DEF Rewrite, SourceTypes
  <2> QED
    BY <1>1, <1>6, <2>4, <2>5 DEF Rewrite, SourceTypes
<1>7. ASSUME NEW p \in Prefixes, Damage(p) PROVE SourceTypes'
  <2>1. shard' \in [Prefixes -> Shard]
    <3>1. PICK d \in shard[p].days :
            shard' = [shard EXCEPT ![p] = [days |-> shard[p].days \ {d},
                                           version |-> shard[p].version + 1]]
      BY <1>7 DEF Damage
    <3> QED
      BY <1>3, <1>4, <3>1
  <2>2. damages' \in 0..MaxDamage
    BY <1>1, <1>7, PublisherAssumption DEF Damage, SourceTypes
  <2> QED
    BY <1>1, <1>7, <2>1, <2>2 DEF Damage, SourceTypes
<1>8. ASSUME NEW p \in Prefixes, Repair(p) PROVE SourceTypes'
  <2>1. shard' \in [Prefixes -> Shard]
    <3>1. PICK d \in Days :
            shard' = [shard EXCEPT ![p] = [days |-> shard[p].days \cup {d},
                                           version |-> shard[p].version + 1]]
      BY <1>8 DEF Repair
    <3>2. shard[p].days \cup {d} \in SUBSET Days
      BY <1>4
    <3> QED
      BY <1>3, <3>1, <3>2
  <2> QED
    BY <1>1, <1>8, <2>1 DEF Repair, SourceTypes
<1>9. ASSUME HistoryMoves PROVE SourceTypes'
  BY <1>1, <1>9 DEF HistoryMoves, SourceTypes
<1>10. ASSUME NextDay PROVE SourceTypes'
  BY <1>1, <1>10, DaysAreNumbers DEF NextDay, SourceTypes
<1> QED
  BY <1>2, <1>5, <1>6, <1>7, <1>8, <1>9, <1>10, SourceStepKeeps

(***************************************************************************)
(* The theorems.                                                           *)
(***************************************************************************)

LEMMA NextKeeps ==
    ASSUME Parts, [Next]_vars
    PROVE  Parts' /\ Kept
<1>1. CASE UNCHANGED vars
  <2>1. SourceTypes'
    BY <1>1 DEF vars, Parts, SourceTypes
  <2>2. UNCHANGED <<published, pc, unit, outcome, faults>>
    BY <1>1 DEF vars, published, unit
  <2> QED
    BY <2>1, <2>2, SourceStepKeeps
<1>2. ASSUME NEW w \in Workers, Wake(w) \/ Step(w) \/ CutOff(w) PROVE Parts' /\ Kept
  BY <1>2, WakeKeeps, CheckKeeps, PlanKeeps, PinKeeps, CommitKeeps, PointKeeps, EndKeeps
     DEF Step
<1> QED
  BY <1>1, <1>2, WorldKeeps DEF Next

\* However many invocations work on one date, are cut off or meet shards that
\* were written again, what they publish is whole, audited and one
\* (runMarketDataPublisher).
THEOREM PublicationIsSound == Spec => []PublisherInv
<1>1. Init => PublisherInv
  BY InitIsSound, InvIsParts
<1>2. PublisherInv /\ [Next]_vars => PublisherInv'
  <2>1. PublisherInv' <=> Parts'
    BY InvIsParts, PTL
  <2> QED
    BY <2>1, InvIsParts, NextKeeps
<1> QED
  BY <1>1, <1>2, PTL DEF Spec

\* The types of the files and of what an invocation holds.
THEOREM TypeCorrect == Spec => []TypeOK
<1>1. PublisherInv => TypeOK
  BY DEF PublisherInv
<1> QED
  BY <1>1, PublicationIsSound, PTL

\* The generation manifest of a date never changes once it is written, and no
\* reference of a publish state is replaced or taken back (the merges of the
\* publisher's commit).
THEOREM PublishedNeverChanges == Spec => PublishedIsKept
<1>1. PublisherInv /\ [Next]_vars => [Kept]_vars
  BY InvIsParts, NextKeeps
<1>2. [Kept]_vars <=> [\A d \in Days :
         /\ generation[d] # NoManifest => generation'[d] = generation[d]
         /\ \A p \in Referenced(refs[d]) : refs'[d][p] = refs[d][p]]_vars
  BY DEF Kept
<1> QED
  BY <1>1, <1>2, PublicationIsSound, PTL DEF Spec, PublishedIsKept

\* What the published pointer points to can be read whole: a manifest with a
\* two-digit reference for each prefix of its date (assertPublishedGenerationManifest).
THEOREM PointerAlwaysResolves == Spec => []PointerResolves
<1>1. PublisherInv => PointerResolves
  <2> SUFFICES ASSUME PublisherInv, pointer # 0 PROVE PointerResolves
    BY DEF PointerResolves
  <2>1. pointer \in Days /\ generation[pointer] # NoManifest
    BY DEF PublisherInv, TypeOK, GenerationsAreWhole
  <2>2. Referenced(generation[pointer]) = Index[pointer] /\ generation[pointer] = refs[pointer]
    BY <2>1 DEF PublisherInv, GenerationsAreWhole, GenerationIsItsState
  <2>3. Index[pointer] \subseteq Legacy
    BY <2>1, <2>2 DEF PublisherInv, ReferencesAreAudited, IsAudited
  <2> QED
    BY <2>1, <2>2, <2>3 DEF PointerResolves
<1> QED
  BY <1>1, PublicationIsSound, PTL

\* Every blob that a generation manifest names has the rows of the date's
\* snapshots, whatever was written to the shards since (auditMaterializedPrefix).
THEOREM PinnedRowsStayCanonical == Spec => []PinnedRowsAreCanonical
<1>1. PublisherInv => PinnedRowsAreCanonical
  <2> SUFFICES ASSUME PublisherInv, NEW d \in Days, generation[d] # NoManifest, NEW p \in Index[d]
               PROVE  d \in generation[d][p].days
    BY DEF PinnedRowsAreCanonical
  <2>1. p \in Referenced(refs[d]) /\ generation[d] = refs[d]
    BY DEF PublisherInv, GenerationsAreWhole, GenerationIsItsState
  <2> QED
    BY <2>1 DEF PublisherInv, ReferencesAreAudited, IsAudited
<1> QED
  BY <1>1, PublicationIsSound, PTL
=============================================================================
